# A formal model of the job queue and of the messaging gateway

The repository is an Odoo 17/18 deployment: add-ons and a theme under
`custom_addons/`.  Its own core logic, and nearly all of its concurrency, is in
two groups of add-ons: the job queue (`queue_job`, with `queue_job_cron`) and
the gateway for WhatsApp messages (`mail_gateway`, `mail_gateway_whatsapp`).
These TLA+ modules describe both; TLC checks them on small instances, and the
TLA+ proof system proves the most important statements for every number of
jobs, workers, servers, contacts and messages.

Paths below are relative to `src/custom_addons/`.

## 1. Inventory

| Part | State | Operations | Hard behaviours | What makes it correct |
|---|---|---|---|---|
| Jobs (`queue_job/job.py`, `models/queue_job.py`, `models/queue_job_lock.py`) | rows of `queue.job`: state, retry, eta, dependencies; rows of `queue.job.lock` | create, perform, postpone, fail, done, cancel, requeue, release or cancel dependents, autovacuum | serialization errors, cached objects written back later, dependents of several parents | a job has one owner, its work is committed once, children wait for all their parents, tries are bounded |
| Controller of `runjob` (`controllers/main.py`) | one transaction per request, the `Job` object | start, lock, perform, commit, postpone or fail in a second transaction, release dependents | crash between two commits, repeated and lost requests | as above; a job whose row changed meanwhile is not committed |
| Runner (`jobrunner/runner.py`) | connection, received notifications, the channels | open, sweep of dead jobs, process notifications, run jobs, sleep, recover | its copy of the rows is stale; everything is rebuilt after an error while rows change | rows never exceed the capacity of a channel; the copy agrees with the rows |
| Channels (`jobrunner/channels.py`) | a tree; in each channel a priority queue, a queue by eta, running and failed jobs, a pause | notify, remove, a pass of `get_jobs_to_run`, `get_wakeup_time` | recursive updates that stop early; throttles, sequential channels, eta | a job is in one place; capacity, throttle and priority hold; no oversleeping |
| Trigger (`post_init_hook.py`) | - | a notification per committed row | only the uuid is sent, the row is read later | no change is missed |
| Start of the runner (`jobrunner/__init__.py`) | worker process or thread of each server, its runner, its flags | spawn, run, stop by a signal, limit of CPU time, rebuild, end | signals at any moment; the runner a signal is for may be replaced | a runner that is told to stop gives up every database |
| Election and recovery (`runner.py:256`, `:486`, `:583`) | sessions, the advisory lock of each database | take the databases in turn, read the jobs, lose one, close all, sleep | several servers on several databases, dead clients PostgreSQL still knows | one runner for each database; one capacity for all servers; the election ends |
| Configuration text (`channels.py`, `ChannelManager`) | known channels | parse, create, search by name with fallback | channels are created while jobs arrive | a job is placed below the nearest configured channel |
| Graphs of delayables (`delay.py`) | graph of vertices of each chain, group and delayable | build, connect, merge, delay, replace by identity, execute directly | nested graphs, merged by a visit | the order the user wrote is stored; all or nothing of a graph is |
| Auto-delay, functions, channels (`models/base.py`, `queue_job_function.py`, `queue_job_channel.py`) | configuration rows | delay, retry patterns, complete names | caches | patterns are total |
| Cron (`queue_job_cron`) | `ir.cron` | delay with an identity key | search then create | no parallel run |
| Gateway (`mail_gateway`) | webhook state of the gateway, a map of webhooks cached by each process, chats, guests, links of contacts, notifications | set and verify the webhook, receive, link, merge guests, send | caches, search then create by concurrent requests | one chat for each contact; a known contact is heard |
| WhatsApp (`mail_gateway_whatsapp`) | messages and notifications | receive updates, find the author, send attachments and bodies | updates repeated until answered, partial sends, requests that run twice | each update is answered in the end |
| Point of sale (`pos_whatsapp_after_payment`, `pos_disable_invoice_download`) | order, payment lines | send receipts, QR and link; finalise a payment | state read before and after an `await` | link and image agree |
| Theme (`spiffy_theme_backend`), deployment files | - | - | - | not modelled |

How they interact: `Job.store` inserts a pending row; the trigger notifies the
runner; the runner reads the row and tells the channels; a pass of the
channels lets jobs through to the root; for each of them the runner writes
`enqueued` and sends an HTTP request; a worker finds the row enqueued, writes
`started`, performs the job and commits its work together with `done`; each of
these commits notifies the runner again.  Users change rows with buttons at any
time.  The runner and the workers share nothing but the database and the
requests; the runners of several servers share the advisory locks and the rows.
The messenger calls the webhook of the gateway and calls it again until it is
answered; the processes that serve it share the database, and each has a cached
map that is cleared when a gateway is written.  The gateway does not use the
queue.

## 2. Modules

| Module | What it models |
|---|---|
| `JobStates` | the states of a job and the groups of states code tests for |
| `JobLife` | abstract specification: what the state of a row promises its readers, without workers, requests, locks and retries |
| `QueueJob` | rows, lock records, the transactions of workers and users, the two statements of the runner; an abstract runner that holds a set of jobs it noticed; implements `JobLife` |
| `Channels` | the channel tree, one step of a generator at a time, and the loop of the runner around it |
| `JobRunner` | composition: `Channels`, an instance of `QueueJob` whose noticed jobs are those in some queue of the tree, the notifications in between |
| `Delayables` | the graphs that chains, groups and `on_done` build, what `delay()` connects, direct execution |
| `JobFamily` | extends `Delayables`: the rows of a graph from the transaction that stores it to autovacuum; identity keys and crons; releases, cancellations, buttons |
| `ChannelNames` | names of channels, the configuration text, the search by name (operators only) |
| `Servers` | extends `ChannelNames`: workers and threads of several servers, election, recovery, what each runner remembers of the rows of all databases |
| `Gateway` | the webhook and its cached map, reception and sending as transactions, links, guests, chats |
| `MCWorkers`, `MCChannels`, `MCJobRunner`, `MCDelayables`, `MCJobFamily`, `MCServers`, `MCGateway` | instances for TLC |
| `QueueJobProofs`, `QueueJobAlone` | theorems and proofs about `QueueJob`: for all users and sweeps; when nobody is taken for dead and users at most cancel |
| `JobFamilyProofs` | extends `DelayablesProofs`: theorems and proofs about `JobFamily` |
| `ChannelsProofs`, `DelayablesProofs`, `ServersProofs`, `GatewayProofs` | theorems and proofs about the module each is named after |
| `JobRunnerProofs` | extends `ChannelsProofs` and takes an instance of `QueueJobAlone`: theorems and proofs about `JobRunner` |

`JobRunner` has one runner step by step with its queues; `Servers` has several
runners whose queues are reduced to what they remember of each job.  `QueueJob`
has the transactions of a worker one by one; `JobFamily` has whole families,
where a worker is its start, its end and its release of the children.  Each
pair models the same code twice, once for the interleavings within a part and
once for the interplay of many.

### QueueJob

A worker's transaction is a record: where the code stands (`at`), the `Job`
object (`job`, `retry`, and `ready`, the cached `depends_on`), and what
PostgreSQL knows of it (`locked`, `fresh`).  Transactions are REPEATABLE READ:
`fresh` is lost when somebody else commits a row this transaction is going to
update after its snapshot was taken, and an update without it is a
serialization error.  The steps of `runjob` are:

| Code (`controllers/main.py`, `job.py`) | Action |
|---|---|
| `SELECT ... FOR UPDATE`, `set_started`, `store`, `add_lock_record`, commit | `StartJob`; `RefuseJob` when the row is not enqueued |
| `Job.lock`: snapshot, then the wait for the row of `queue_job_lock` | `TryLock`, `Lock` (with the try counted by `perform`) |
| the method returns; `set_done`, `store`, commit | `Return`, or postponed by a serialization error |
| `NothingToDoJob` | `NothingToDo`; a serialization error here leaves the request |
| `RetryableJobError`, the same with `ignore_retry`, a concurrency error, any other exception | `RaiseRetryable`, `RaiseIgnored`, `RaiseConflict`, `RaiseOther` |
| `retry_postpone`, `set_failed` in a new cursor | `Postpone`, `Fail` (`StoreAndLeave`: the object is written whatever the row says) |
| `enqueue_waiting`: snapshot, then update | `SelectDependents`, `EnqueueWaiting` |
| death of the process | `Crash` |

The buttons are a transaction with a snapshot (`Press`) and a commit
(`CommitPress`) or a rollback (`RollBackPress`).  `SetJobEnqueued` and
`RequeueDeadJob` are the statements of the runner; each commits alone.

`JobLife` has seven steps of rows: released, handed to a worker, taken,
completed together with the commit of the work, tried again, given up,
cancelled with children.  A job that is done stays done, one that failed is at
most cancelled, and one handed over has its parents done; that a cancelled row
is handed over when the runner had read it before is in it, because the runner
writes `enqueued` without looking (`runner.py:319`).  `ImplementsJobLife` is
the refinement, with the variables of the rows as they are.

Serialization failures between a press and a worker are judged by write sets
only, as PostgreSQL does; write skew between two releasing transactions is in
the model.  The time of the model is abstract: the 10 seconds of the sweep are
represented by the constant `Prompt`.  With `Prompt` the sweep spares a job
whose live worker has not yet taken (or has already lost) its lock; without it
the sweep may take such a worker for dead.  The code counts the 10 seconds
from `date_enqueued`: a request that waited for some of them leaves its worker
less between the start and the lock, so `Prompt` asks more of a slow server
than 10 seconds for these two steps.  The channel of a job is a constant
(`ChannelOf`), though the form of a job lets a user edit it.

### Channels

`queue[c]` is the priority queue and the queue by eta of channel `c` together:
a job belongs to the second exactly when its eta is later than the time of the
pass, and `Ripened` is the assignment `job.eta = None` that `pop` makes for the
others.  `todo` holds the channels whose generator is not exhausted in the pass
under way; `LetThrough` and `Exhaust` are its two kinds of steps.  `LetThrough`
goes to the point where the generator is resumed and sets the pause
(`channels.py:550`): below the root nothing can fail in between.  The job the
root yields is enqueued by the runner before it resumes the root, and when that
raises the generator is dropped: `Abandon` (`AbandonRunJob` in `JobRunner`) is
this error, which empties the channels as every error does, but leaves the root
without the pause for the job it had yielded.  The docstring "it yields no job
until at least throttle seconds have elapsed since the previous yield"
(`channels.py:512`) is therefore true of the root only when the previous yield
was enqueued, and `ThrottleSpacing` speaks of the jobs that were handed on.
The priorities, the creation dates and the ids are numbers that order jobs the
way `sorting_key` does.

### JobRunner

`notes` are the notifications received.  Handling one reads the row
(`ProcessNotification`).  A job that `get_jobs_to_run` yields is enqueued in
the same step (`RunJob`), because the runner is a single thread and holds no
other row in between; other processes act between any two such steps.  An error
of the database closes the connection, forgets the notifications and empties
the channels (`CloseDatabases`), and the rows that are not done are loaded
anew.

### Delayables and JobFamily

`graph[o]` is the `_graph` of a delayable, chain or group.  `Ends` is `_head`
and `_tail` as written, `Visited` the visit of `_connect_graphs`, `Merged` the
graph of the jobs.  Beside it the model keeps what the caller meant (`Meant`:
every job of an item before every job of the next), which the properties
compare.  The code's recursions, `_head` and `_tail` through nested items and
the visit with its set of visited vertices, are closures of one step (`Asked`,
`Vertices`): `ReachedFrom` adds successors until nothing is new.  `split` gives
no other graphs than chains and groups.  The model forgets the objects once the
graph is connected, as `delay()` has no more use for them.

`Store` is the transaction that ends `DelayableGraph.delay`: it searches the
identity keys in its snapshot (`Begin`) and stores everything or, when all keys
of the graph exist, nothing.  `delay.py:286` returns inside the loop, after the
first vertex, which has the same effect on the rows.  `DependentsOf` is the
query of `job.py:597`, used with `done` and with `cancelled`.  `Autovacuum`
looks at the dates only.

A worker is `Start`, `Finish` (the commit of `main.py:45`) and `Release`
(`main.py:52`), or `LoseRelease`: it dies between the two, or its statement
fails to serialize and is retried in the aborted transaction.  A button is
`Press`, the snapshot, in which the job and the children to take along are
found, and `CommitPress`, which needs that none of the rows it writes was
written since (`Written` drops the others, which Odoo runs again: another
press).  A wizard presses for one job at a time.  What each transaction read
and did not write may be stale: two users who cancel the two parents of a job
each see the other parent pending, write different rows and leave the child
waiting for ever; so do a user and a worker who end two parents.  The histories
`unreleased` and `skewed` (`Missed`) record these cases, and
`WaitsForSomeone` and `CancelledTogether` say that they, the grandchildren of a
cancelled job and the parents deleted before they were done are the only ones.
All of these exceptions are reached by the run.  `README.rst:279` says that a
user can cancel a failed job "and all its dependent jobs": the query goes one
level, and the wizard leaves out jobs that wait.

### ChannelNames and Servers

A name is a sequence of parts, which the constant `Part` holds; an entry of the
text is a member of `Entries`.  `Searched` follows `get_channel_by_name`
literally: with fallback, it starts at the nearest known parent and then walks
the whole name again, so that `root.sub.x` below a known `root.sub` leads to
`root.sub.sub.x`, as the doctest of that method also shows.  When a text nests
a channel below another of the same name, such a search ends in the wrong one;
`Plain` leaves out these texts.  A capacity of 0 is no limit
(`channels.py:496`), entries have capacities in the naturals (the parser takes
any integer; a negative one never has room), and only a text that begins with
`root:0`, without blanks, disables the runner.

The jobs of a database are notified in the order the query returns them, which
is not specified: `NotifyEach` takes one of all orders, and
places each job in the channels those before it left (`KnownWith`).

`Sorted` is `sorted(self.get_db_names())`, as an arrangement of the list in
which no entry is followed by a smaller one.  `server[s].at` is the place of a
runner between the statements of `jobrunner/__init__.py` and `runner.py`;
`holder` has the advisory locks as PostgreSQL sees them, with `Ghost` for a
client that is gone unnoticed. `Interrupt` only tells the runner that exists: a
worker that rebuilds its runner at that moment starts the new one untold, which
takes its databases and runs on, although the worker is to end
(`jobrunner/__init__.py:62`, `:70`).  It takes a second signal to end it.  This
is `Deaf`, the exception of `LocksReleased`; without it TLC finds the property
violated.  A database whose lock is elsewhere, or whose connection broke, makes
the runner close all of them and start over (`Recover`), also when the others
are well.

### Gateway

A request is a transaction: `Receive` and `Compose` take a snapshot (`view`)
and commits store what the snapshot lacked, so two requests that find no chat
both create one.  `Compose` sends to any number: the code formats the field the
user chose (`mail_thread.py:22`), the phone of the contact or another.  A
contact has one link, so a message to its mobile links it there, and later
messages from its phone raise at the constraint: `ContactsNeverMuted` names
this among what users may do to mute a number, and nothing else does.  The
composer also asks for the chat when it opens and when it shows the chat
(`whatsapp_composer.py:45`, `:96`): a `Compose` whose message is never sent,
left out.  `SendParts` is `_send` of all parts, between which the database is
not touched.  `UNIQUE(partner_id, gateway_id)` is checked against what is
committed, and an insertion that waits for another transaction is `Waits`.
`CommitUpdate` is `_receive_update` from the author to the answer;
`RejectUpdate` is the error it raises for two records where one is expected, or
for the constraint; `Fault` and `RetrySend` are a lost answer and the retry of
a request by Odoo after a serialization error.  `MapOf` is the cached method of
`mail_gateway.py:111`: its cache has no key, so the first request after a
clear, for whatever state and `gateway_type`, decides what the process knows
for all.  A verification, or a request of another usage (`AskElsewhere`), may
leave an empty map with which the process drops the messages of an integrated
gateway.

### Mutants

Every definition that carries a defect on purpose is preceded by a comment
that begins with "Mutant".  It is used by no specification: with it in place of
the definition after it, TLC finds a property violated, which shows that the
property depends on what the code does there.

## 3. What TLC checks

| Run | Question | Properties | Bounds |
|---|---|---|---|
| `channels` | does the tree keep its promises under any sequence of rows, passes and restarts? | `ChTypeOK`, `Placement`, `NoOversleep`, `ThrottleSpacing`, `NoInversion` | 3 jobs, a chain of 3 channels (throttled root; throttled and capacity 2; sequential), 4 attributes (2 priorities, 3 eta), 4 instants; 685,671 states |
| `workers_alive` | is each job owned, committed and released once, does its row keep the promises of its states, and does it end? | `SingleOwner`, `CommittedOnce`, `ReleasedWhenDone`, `AttemptsBounded`, `ImplementsJobLife`, `EveryJobEnds` | 2 workers; two jobs and one after both; 1 crash, 5 starts, 2 requests on their way, 1 cancellation; 80,204 states |
| `workers_buttons` | what survives users and a sweep that takes live workers for dead? | `QjTypeOK`, `CommitsOnlyStarted` | 1 job with every outcome, 2 workers, 2 presses of any button, 3 starts, 1 crash, lost requests, `Prompt` false; 546,644 states |
| `runner` | does the whole respect capacities, agree with the rows and implement `QueueJob`? | `RunnerTypeOK`, `CapacityRespected`, `PerformersWithinCapacity`, `InSync`, `ImplementsQueueJob` | 3 jobs (one child), a subchannel of capacity 1 below a root of 2, 2 workers, 1 crash, 1 cancellation, restarts of the runner; 533,603 states |
| `graphs` | is the order the caller meant stored and kept, identity with it, and what can leave a job waiting? | `JfTypeOK`, `StoredInOrder`, `DirectInOrder`, `RunsAfterParents`, `WaitsForSomeone`, `IdentityKept`, `CancelledTogether` | every graph of 3 delayables in 2 chains or groups of 1 or 2 items and one `on_done`; a cron that shares a key with one of them; 2 presses, which may overlap; crons and buttons not in one behaviour; 2,101,652 states |
| `servers` | do runners share databases and capacities, take them in one order, stop, and agree in the end? | `SvTypeOK`, `OneMaster`, `NeverCrosswise`, `FleetWithinCapacity`, `NearestConfigured`, `RunningCounted`, `ServedForGood`, `LocksReleased` | a prefork and a threaded server, 3 databases (one without the queue) listed in different orders, 2 jobs, 3 texts, 2 faults; 107,507 states |
| `gateway` | is each contact heard in one chat, and each update answered? | `GwTypeOK`, `OneChatPerPartner`, `LostOnlyAfterProbe`, `ContactsNeverMuted`, `MessagesAnswered` | 2 processes, 2 contacts, 2 numbers, 2 messages (one silent), 1 fault, 2 requests or edits by users or strangers; 910,408 states |
| `endless`, `lossy`, `fork`, `chains`, `sequential` | the findings of section 5 | `InfiniteRetries`; `EnqueuedIsRequeued`; `ChildrenFollow`; `ChainsAreSequential`; `SequentialWaits` | smallest instance that shows each |

Why the bounds suffice to be interesting.  Two workers meet on one job as soon
as it is requeued once, which takes one crash or one press; the third start
lets a worker that survived both meet the second generation.  Two parents are
the smallest group whose members release a common child.  `MaxRuns` is one more
than `max_retries + 2` for every bounded job, so that `AttemptsBounded` could
fail.  A cancellation can come after the runner read the row, while a worker
performs the job, and while a parent releases it.  Three channels in a chain
are needed for a channel that has both a parent and a child, and three jobs for
two in the throttled channel and one outside.  Three delayables in two nested
objects are the least that give a chain in a group, a group in a chain and a
child of two parents; two presses make a requeue of a parent meet a
cancellation or a `done` by hand, and two users cancel two parents at the same
time.  `Together` FALSE leaves crons out of the behaviours in which users press
buttons: identity keys are looked up when jobs are created, and what the
buttons change of it is the state of a queued job, which workers change too.
Two faults let a second one hit a runner that recovers from the first.  Two
requests that overlap are enough for every race of the gateway, which are all
between a search and a creation; two edits let a number be changed and changed
back or a guest be merged after it.  The bounds are in the guards (`MaxRuns`,
`MaxRequests`, `MaxCrashes`, `MaxPresses`, `MaxTime`, `MaxItems`, `MaxOnDone`,
`Together`, `MaxFaults`, `MaxEdits`); a model that has used them up may stop,
so these configurations do not ask for freedom from deadlock.  `channels` does
ask for it.  Workers are interchangeable and symmetric, except in the runs of
liveness.

Fairness (`QjFairness`).  A worker in the middle of a request goes on, as does
the thread that serves requests which are refused (WF).  The runner goes round
its loop at least once in 60 seconds, so a dead job that stays dead is swept
and a pending row that stays pending is noticed (WF).  It enqueues a noticed
job and serves a request by strong fairness: the job may be taken from
the channels, or the row from its state, again and again by restarts and other
requests, but a pass is eventually completed in between.  Nothing makes users
press, workers crash or requests get lost.  The fairness of `Enqueue` also
assumes that the channels let each job through in the end, which a higher
priority may prevent for ever: `EveryJobEnds` is about finitely many jobs.

`SvFairSpec`: each runner goes on with its steps (WF), the master process
spawns a prefork worker again (WF; nobody restarts the thread of a threaded
server), PostgreSQL learns of dead clients (WF), and a stream of notifications
does not hold a turn for ever (WF of `BeginPass`): a runner reads them faster
than requests that end can write them.  `ServedForGood` then rests on
the order in which databases are taken: with the names unsorted, two runners
take one each and lose the other in turn.

`GwFairSpec`: requests end (WF of `Handle`).  The messenger delivers an update
that was not answered again and again, and a process is free from time to time
(SF of `Deliver`, as requests of others may keep the processes busy in between).

`MessagesAnswered` has a condition: a number is `Blocked` when its messages
always raise, which no new delivery changes.  Numbers get blocked when two
contacts have the same phone, when two requests create two guests at once, or
when a contact is linked to another number than its phone; `ContactsNeverMuted`
says that for the phone of a single contact only a user brings that about.
`OneChatPerPartner` has an exception for the same reason: guests have no unique
constraint.  `LostOnlyAfterProbe` is as strong as the cache without keys allows.

`EveryJobEnds` allows a child to wait when its parent failed or was cancelled,
or when a worker died between the commit of `done` and the release; the second
is a gap of the code that nothing repairs, short of a user.

## 4. What is proved

All invariants, action properties and refinements of section 3 are proved for
every value of the constants that the assumptions of the modules allow: every
finite set of jobs, every set of workers, all graphs of dependencies, outcomes
and bounds (`QueueJobAssumption`); any finite tree of channels with any
capacities and throttles (`TreeAssumption`, `ConfigAssumption`,
`JobAssumption`) and any jobs in it (`RunnerAssumption`; `RowsAssumption`
repeats what `QueueJob` assumes); any delayables, nested to any depth, any
crons and keys (`DelayablesAssumption`, `JobFamilyAssumption`); any servers,
databases and texts (`NamesAssumption`, `ServersAssumption`); any processes,
contacts, numbers and messages (`GatewayAssumption`, with a finite set of
contacts).

| Theorem | Statement | Assumes |
|---|---|---|
| `QueueJobProofs!QjTypeCorrect` | `QjSpec => []QjTypeOK` | - |
| `QueueJobProofs!OnlyStartedCommitted` | `QjSpec => CommitsOnlyStarted` | - |
| `QueueJobAlone!HolderIsSole` | `QjSpec => []SingleOwner` | `Alone` |
| `QueueJobAlone!WorkCommittedOnce` | `QjSpec => []CommittedOnce` | `Alone` |
| `QueueJobAlone!ChildrenReleasedWhenDone` | `QjSpec => []ReleasedWhenDone` | `Alone` |
| `QueueJobAlone!AttemptsAreBounded` | `QjSpec => []AttemptsBounded` | `Alone` |
| `QueueJobAlone!RowsLiveOn` | `QjSpec => ImplementsJobLife` | `Alone` |
| `ChannelsProofs!ChTypeCorrect` | `ChSpec => []ChTypeOK` | - |
| `ChannelsProofs!JobsInPlace` | `ChSpec => []Placement` | - |
| `ChannelsProofs!ThrottleSpaces` | `ChSpec => ThrottleSpacing` | - |
| `ChannelsProofs!NobodyOvertaken` | `ChSpec => NoInversion` | - |
| `ChannelsProofs!NothingOverslept` | `ChSpec => []NoOversleep` | - |
| `JobRunnerProofs!RunnerImplements` | `RunnerSpec => ImplementsQueueJob` | - |
| `JobRunnerProofs!RunnerTypeCorrect` | `RunnerSpec => []RunnerTypeOK` | - |
| `JobRunnerProofs!CapacityKept` | `RunnerSpec => []CapacityRespected` | - |
| `JobRunnerProofs!CopyInSync` | `RunnerSpec => []InSync` | `[][NoneWaitsAgain]_vars` |
| `JobRunnerProofs!CopyInSyncAlone` | `RunnerSpec => []InSync` | `Rows!Alone` |
| `JobRunnerProofs!PerformersKept` | `RunnerSpec => []PerformersWithinCapacity` | `Rows!Alone` |
| `JobRunnerProofs!RowsGuarded` | `RunnerSpec => Rows!CommitsOnlyStarted` | - |
| `JobRunnerProofs!RowsOwnedOnce` | `RunnerSpec` keeps `SingleOwner`, `CommittedOnce`, `ReleasedWhenDone`, `AttemptsBounded` of `Rows` | `Rows!Alone` |
| `JobRunnerProofs!RowsLiveWithRunner` | `RunnerSpec => Rows!ImplementsJobLife` | `Rows!Alone` |
| `DelayablesProofs!GraphsAreOfLeaves` | `DySpec => []GraphOfLeaves` | - |
| `DelayablesProofs!OrderIsStored` | `DySpec => []StoredInOrder` | - |
| `JobFamilyProofs!MeantIsStored` | `JfSpec => []StoredInOrder` | - |
| `JobFamilyProofs!OrderIsKept` | `JfSpec => []RunsAfterParents` | - |
| `JobFamilyProofs!NobodyForgotten` | `JfSpec => []WaitsForSomeone` | - |
| `JobFamilyProofs!JfTypeCorrect` | `JfSpec => []JfTypeOK` | - |
| `JobFamilyProofs!IdentityIsKept` | `JfSpec => []IdentityKept` | - |
| `JobFamilyProofs!DirectIsInOrder` | `JfSpec => []DirectInOrder` | - |
| `JobFamilyProofs!CancelledGoTogether` | `JfSpec => []CancelledTogether` | - |
| `ServersProofs!OneMasterEach` | `SvSpec => []OneMaster` | - |
| `ServersProofs!SvTypeCorrect` | `SvSpec => []SvTypeOK` | - |
| `ServersProofs!RunningIsCounted` | `SvSpec => []RunningCounted` | - |
| `ServersProofs!PlacedBelowNearest` | `SvSpec => []NearestConfigured` | - |
| `ServersProofs!ElectionsInOrder` | `SvSpec => []NeverCrosswise` | - |
| `ServersProofs!FleetKeepsCapacity` | `SvSpec => []FleetWithinCapacity` | `Shared` |
| `GatewayProofs!GwTypeCorrect` | `GwSpec => []GwTypeOK` | - |
| `GatewayProofs!DropsOnlyAfterProbe` | `GwSpec => []LostOnlyAfterProbe` | - |
| `GatewayProofs!ContactsAreHeard` | `GwSpec => []ContactsNeverMuted` | - |
| `GatewayProofs!OneChat` | `GwSpec => []OneChatPerPartner` | - |

The conditions in the last column are of the theorems, not of the models.

- `Alone`: no live worker is taken for dead (`Prompt`), and users at most cancel
  jobs.  Without it the statements are false: the run `workers_buttons` is
  without it and checks what remains.
- `NoneWaitsAgain`: no row goes back to `wait_dependencies`.  `notify` ignores
  such rows (`channels.py:1037`), so the runner keeps the place the job had; the
  theorem says that nothing else makes the copy differ.  It takes a user who
  requeues or a sweep that is mistaken: under `Alone` it never happens, which
  `CopyInSyncAlone` proves.
- `Shared`: the list of each server contains every database that has the queue.
  Servers with different lists would each count only the jobs of their own, and
  capacities would be those of a server.  That the sorted list contains the same
  databases is proved (`SortedArranges`).

### Workers and rows

1. `QjInv` adds two facts to the types.  A worker that performs a job has
   counted a try (`TryCounted`): without it, the try that `ignore_retry` gives
   back could leave the naturals.  A worker whose snapshot is fresh works on a
   started row (`FreshIsStarted`), because `Job.lock` read it so and every
   other commit on the row takes `fresh` away.  `CommitsOnlyStarted` follows,
   as `CommitDone` needs `fresh`.
2. `AloneInv`: a worker with a `Job` object has a started row and cached
   parents that are done; no two have the same job; one about to release
   children has parents that are done, and the children still wait unless its
   snapshot is stale; what the runner noticed is pending, or cancelled since,
   with its parents done; a user about to cancel has a good snapshot of rows
   nobody works on, or fails.  The sweep needs a lock nobody holds, and by
   `Prompt` a live worker holds its own. `ParentsDone` is stable since nothing
   leaves `done`.
3. `AttemptsInv` relates three counters: starts, tries in the row, and tries in
   the object.  A start is repaid by a try when it ends, by `perform` or by the
   sweep, and a row that may start again has at most `max_retries + 1` tries.
4. `RowsLiveOn`: a lemma for each kind of step maps it to a step of `JobLife`
   or to a stutter, with `AloneInv` for what the guards of the code do not
   say.  The handler that postpones or fails stores its object whatever the row
   says; it is a `TryAgain` or `GiveUp` because the holder's row is started.
   The runner enqueues what it noticed; it is a `Hand` because that is pending
   or cancelled with its parents done.

### The tree of channels

`Above` is a closure defined without recursion, so that the proofs about the
tree need no induction: the first lemmas show it reflexive, transitive and
antisymmetric, and the channels above one a chain.  `ChInv` is the types and

5. `FourPlaces`, which `Placement` follows from.  A job is nowhere; or failed
   in its leaf; or queued in one channel of its path and running in those below
   it; or running in the whole path.  "In at most one set of each channel" is
   not inductive: `pop` takes a job from one channel and pushes it to the
   parent only because nothing of the job is above.  The recursive updates of
   `set_pending` and the others stop at the first channel that has nothing to
   change, and the four places are those for which stopping there is right.
6. `PassShape`: a generator is never exhausted before those of the subchannels,
   and a pass that goes on has not exhausted the root.
7. `PauseCovers`: a pause that was set spaces from the last job let through, or
   so much time has passed that it may be forgotten.  `ThrottleSpacing`
   follows, as the code clears a pause only when it finds it over.  A pass that
   is abandoned lets nothing through, and changes neither.
8. `DoneIsSpent`: a channel whose generator is exhausted has a pause, no
   capacity, or nobody in its queue who may go before the end of the pass.  From
   it `NoInversion` follows (what reaches the root had no better competitor
   below) and `NoOversleep` (when the runner sleeps, all channels are spent, and
   the time it asks for covers those the recursion reaches).

The proof is about `ChStep`, a step with rows that say anything: the jobs
and the attributes of `Channels` are then those of `JobRunner` without another
proof.

### The runner at work

9. `RnInv` is `ChInv` with `QjInv` of the rows and the types of the rest.  Each
   step of `JobRunner` is a `ChStep` or leaves the channels alone
   (`StepOfChannels`), and is a step of `QueueJob` with the jobs in some queue
   for those noticed, or a stutter.  The second is the refinement: a lemma for
   each kind of step says what it does to `Ready` (notices a job, forgets
   some, or enqueues the one let through).  `Jobs` and `Rows` are two
   instances of `QueueJob` with the same substitution, `Rows` with its theorems;
   the lemmas `SameState`, `SameDatabase` and `SameRunner` say that they are
   equal.  By the refinement, what is proved about rows and workers holds of the
   whole runner: `RowsGuarded`, `RowsOwnedOnce`.
10. `CapInv`: in each channel the rows that are active and the jobs the runner
    counts are together within the capacity.  The rows alone are not inductive:
    what matters when a job is let through is what the runner counts.  So the
    invariant says that a connected runner counts each active row or is
    notified of it (`ActiveKnown`; in a pass all notifications are read), that
    no active job waits in a queue, and that the leaf it knows is the row's.
11. `SyncInv`: what is not notified agrees with the row, in the words of the
    four places; a runner that is down has no jobs; a job that waits for its
    parents is nowhere.  The last needs that no row goes back to waiting.

### Graphs of delayables

12. `ReachedIsLeast`: the visit computes the least set around its start that no
    successor leads out of, since what is left of a finite set shrinks.  Facts
    about nested objects are proved from the closure, and by a least
    counterexample: an object is made of objects that existed before
    (`GraphInv`), so some object without the fact has only parts with it.
13. `PlanInv`: in a graph without chains at the ends of chains, each job of an
    object leads to one of its tails and is reached from one of its heads
    (`Linked`).  It holds of a group of such objects, whose ends are all of its
    jobs (`NoChainEnds`), and of a chain along its steps.  What
    `_connect_graphs` joins are the tails of one object and the heads of the
    next, so every job of the first is before every job of the second
    (`LinkedOrder`).

### Rows of graphs

14. `FamilyInv`: a parent of a stored job has a row, or was done or deleted
    without (`ParentsKnown`, since a graph is stored as a whole), and what is
    done is in the history.  The code decides on the parents that exist; with
    these two facts that is as good as deciding on all.  `PressedInv` is what
    the snapshot of an open button still says: the rows it writes are as it
    read them, for every other write drops it, and each child it does not take
    along had another parent that held it back, which still does or was written
    since (`Withheld`).  In the second case the commit records what it missed,
    so that `WaitsForSomeone` is part of the invariant.
15. `IdentityInv`: a row was stored by a transaction that is closed
    (`StoredByOne`); a job that never left is queued, where the search for
    keys looks (`QueuedUntilLeft`); two open transactions overlap
    (`OpenOverlap`); a transaction that is open has seen the keys of the
    jobs that were stored without overlapping it (`KeysSeen`).  So, when it
    closes, the key of such a job makes it store nothing.
16. `DirectInv`: the counts that `topological_sort` keeps are the numbers of
    dependencies not performed yet, and the vertices whose count is zero have
    run or are queued, once each.  When the queue is empty, every vertex left
    out has a dependency that was left out.
17. `CancelInv`: `CancelledTogether` is nearly inductive.  With `FamilyInv` and
    `IdentityInv`, which say what parents without a row and jobs in their first
    queue are, it remains that a job deleted before it was done has no row
    (`LostAreGone`); the children an overlapping cancellation misses are
    recorded.

### Servers

18. `ElectionInv`: a server holds a lock exactly when its session is open.  The
    converse is needed because a runner that closes gives back the locks in its
    name.
19. `MemoryInv` adds what a runner remembers, wherever it stands: it counts
    each enqueued job of the databases it has read (`RunningCounted`), and each
    job it knows is in a channel with the same configured ones above as its
    name (`NearestConfigured`).  The fold over the channels that jobs create is
    reasoned about by what it cannot change: it adds only channels below the
    nearest configured one.
20. `FleetInv`: a runner in a turn with a session left tried all databases
    before, and no other runner is in that place; it counts the jobs of all
    databases, also of those whose session it lost.  The last is why the
    capacity of a takeover is right: the sweep that begins a turn needs all
    sessions well, so nobody else lets anything through before the runner has
    lost them all.
21. `OrderInv`: while a runner opens its databases, those it has come before
    the next one in its list (`Taken`).  The list is sorted: `SortedArranges`
    shows that the place of an entry, the number of entries that are smaller,
    or equal and not after it, is a bijection, so that a sorted arrangement
    exists.  Two runners that each have what the other tries would order two
    databases in both ways.

### Gateway

22. `CacheInv`: while the gateway is integrated, a process has a map without it
    only if a verification or a request of another usage came after; the write
    that integrates it clears all maps.  `NumberInv`: every link, and every
    number a request read or sends to, is the phone of its contact or a pair
    that a user brought together or took apart (`Known`); what is known stays
    known, so for a contact and a number without such pairs the views of all
    requests agree and link the same pair.  `LinkInv`: what a request saw is
    still there (`ViewInv`), a second chat comes with a guest or with the link
    of a second contact (`ChatInv`), and a link that is about to be committed
    is nobody else's (`LockInv`).

The proofs about `QueueJob` describe each step once (`Becomes`, `OthersGoOn`:
what happens to the acting transaction and to the others), those about
`Channels` each update of the tree by the place it leaves (`Arrives`), those
about `JobFamily` each kind of change of rows (`ChangeKeeps`), those about
`Servers` each effect on a runner's memory (`MemoryKept` and its like), those
about `Gateway` what a commit stores (`StoreKeepsChats`, `CommitKeeps`); each
invariant then has one step for each action.

### Only model-checked

- Liveness: `EveryJobEnds`, `ServedForGood`, `LocksReleased`,
  `MessagesAnswered`.  Fairness and `ENABLED` are out of the prover's reach.

## 5. Findings

1. `endless`: `README.rst:329` says that `max_retries` 0 "means infinite
   retries", and `perform` treats it so, but the sweep fails such a job as soon
   as its count of tries is positive (`runner.py:338`).
2. `lossy`: `README.rst:165` and the docstring of `requeue_dead_jobs` promise
   that jobs that remain enqueued are queued again.  The sweep only looks at
   jobs with a lock record, which the first start creates: a job whose first
   request was lost stays enqueued and keeps its place in the channels.
3. `fork`: `_enqueue_dependent_jobs` retries after a serialization error in the
   transaction the error aborted.  The retries cannot succeed; children that
   depend on this parent alone stay in `wait_dependencies`.
4. `chains`: `delay.py:38` says that the jobs of a chain "must be executed
   sequentially".  `_head` of a chain returns the `_tail` of its first item and
   `_tail` the `_head` of its last (`delay.py:330`): in
   `chain(a, chain(chain(b, c), d))` job `a` is linked to `c`, not to `b`, and
   `b` may run before or while `a` runs.  `StoredInOrder` says that this is the
   only case: no order is lost when no chain begins or ends with another.
5. `sequential`: a comment (`channels.py:322`) says that in a sequential
   channel a job with an eta that comes first is waited for.
   `ChannelQueue.pop` (`channels.py:318`) compares the job without an eta with
   the earliest eta only.  When that one comes later in the sequence, a third
   job, which comes first and has a later eta, is overtaken: with the
   priorities 1 (eta 30), 3 (no eta) and 5 (eta 20) the job of priority 3 runs
   at time 10; without the job of priority 5 it waits.

## 6. Not modelled

- Job queue: arguments, results, traces, messages to followers and the display
  of graphs; objects that are delayed twice (the second `delay()` writes over
  the rows of the first); the patching of methods by `_register_hook`; the
  records that configure functions and channels, and the cached channel of a
  function that a renamed channel leaves behind (`queue_job_function.py:174`).
- Delay of a part of a graph by identity: `Store` has what the code does; that
  the vertices without a key are dropped with the others (`delay.py:286`, the
  comment at `delay.py:269` says otherwise of existing jobs) is visible in it
  but no property judges it.
- Gateway: updates with several messages, for all of which `_get_author` asks
  about the first; media, read marks, templates, followers, links between
  threads, the display of gateways; the threaded HTTP server, in which another
  thread of the process may cache the old map between the clear of the cache and
  the commit.
- Point of sale: the screens run in the browser, one user at a time, and talk
  to the server by single calls.  What can go wrong around their awaits is: the
  link is computed anew after an `await` (`payment_screen_upi_whatsapp.js:81`),
  `!line.amount === 0` is never true, `RPCError` is not imported.  The first
  and the last are listed as hazards.
- The theme (`spiffy_theme_backend`) and the deployment scripts: controllers
  that read and write preferences, assets, no protocol.

Known behaviours that no property covers are listed, with their lines, as
hazards in `PROJECT.json`, each with the reason.

## 7. Plan

Built so far: the queue from the text of its channels to the deletion of rows,
the runners of several servers, and the gateway, with the invariants proved.
What is left, in this order:

1. `FleetKeepsCapacity` from a weaker condition than `Shared`: servers with
   different databases, the capacities then those of the servers that share.
2. Hazards of `PROJECT.json` without a property: the window of the sweep with a
   clock in place of `Prompt`; the rows that go back to `wait_dependencies`, as
   a statement of what a user sees; the second cursor that waits for the first
   (`main.py:45`).
3. In `Gateway`: updates of several messages, the threaded server.
4. `PointOfSale`: the payment and the QR screen around their awaits.
