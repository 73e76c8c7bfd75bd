------------------------------ MODULE Channels ------------------------------
(***************************************************************************)
(* The scheduler of the job runner: the channel tree, the priority queues  *)
(* and the generator get_jobs_to_run of                                    *)
(* queue_job/jobrunner/channels.py.                                        *)
(*                                                                         *)
(* A job is queued in the channel of its queue.job row (its leaf).  When   *)
(* the leaf has capacity the job is marked running there and queued in the *)
(* parent channel, and so on down to the root; a job the root lets go is   *)
(* enqueued in the database and sent to Odoo.  The runner is one thread:   *)
(* notifications are handled between two passes of get_jobs_to_run.        *)
(***************************************************************************)
EXTENDS Naturals, FiniteSets, JobStates

CONSTANTS
  Job,          \* the uuids
  Channel,      \* the channels of the tree, the auto-created ones included
  Root,         \* the root channel
  Parent,       \* [Channel \ {Root} -> Channel]
  Capacity,     \* [Channel -> Nat], 0 is "no capacity given": unlimited
  Sequential,   \* the channels configured as sequential
  Throttle,     \* [Channel -> Nat], 0 is no throttle
  Seq,          \* [Job -> Nat]: date_created and id, which order equal priorities
  Attrs,        \* what a row may say of a job: [channel, priority, eta] records
  MaxTime       \* bound on the clock

VARIABLES
  info,         \* ChannelJob: the attributes the manager holds for a job
  queue,        \* _queue and _eta_queue of each channel (an eta tells them apart)
  running,      \* _running of each channel
  failed,       \* _failed of each channel
  pause,        \* _pause_until of each channel, 0 when it is not paused
  todo,         \* the channels whose get_jobs_to_run generator is not exhausted
  passNow,      \* the argument "now" of the pass in progress
  clock,        \* _odoo_now(), in seconds
  phase,        \* where the loop of the runner stands
  lastPass      \* history: when each throttled channel last handed a job on

placement == <<info, queue, running, failed>>
chVars == <<info, queue, running, failed, pause, todo, passNow, clock, phase, lastPass>>

Attr == [channel : Channel, priority : Nat, eta : Nat]
Blank == [channel |-> Root, priority |-> 0, eta |-> 0]

\* c and the channels downstream of it, the root included.
Above == [c \in Channel |->
            {d \in Channel : \A S \in SUBSET Channel :
                (c \in S /\ \A x \in S \ {Root} : Parent[x] \in S) => d \in S}]

ASSUME TreeAssumption ==
  /\ IsFiniteSet(Channel)
  /\ Root \in Channel
  /\ Parent \in [Channel \ {Root} -> Channel]
  /\ \A c \in Channel : Root \in Above[c]

ASSUME ConfigAssumption ==
  /\ Capacity \in [Channel -> Nat]
  /\ Throttle \in [Channel -> Nat]
  /\ Sequential \subseteq Channel
  /\ \A c \in Sequential : Capacity[c] = 1

ASSUME JobAssumption ==
  /\ IsFiniteSet(Job)
  /\ Seq \in [Job -> Nat]
  /\ \A i, j \in Job : Seq[i] = Seq[j] => i = j
  /\ Attrs \subseteq Attr
  /\ MaxTime \in Nat

-----------------------------------------------------------------------------
(* Placing jobs in channels *)

Placed(j) == \E c \in Channel : j \in queue[c] \cup running[c] \cup failed[c]

Without(f, C, j) == [c \in Channel |-> IF c \in C THEN f[c] \ {j} ELSE f[c]]
With(f, C, j) == [c \in Channel |-> IF c \in C THEN f[c] \cup {j} ELSE f[c]]

\* set_running goes down the tree and stops at the first channel that already
\* counts the job as running.
Climb(R, c, j) ==
  {d \in Above[c] : \A e \in Above[c] : d \in Above[e] => j \notin R[e]}

\* The state transitions of ChannelManager.notify, on placements Q, R, F.
PlacedIn(Q, R, F, j, c, state) ==
  CASE state \in {Done, Cancelled} ->
         <<Without(Q, Above[c], j), Without(R, Above[c], j), Without(F, Above[c], j)>>
    [] state = Pending /\ j \notin Q[c] ->
         <<With(Without(Q, Above[c], j), {c}, j), Without(R, Above[c], j),
           Without(F, Above[c], j)>>
    [] state \in Active /\ j \notin R[c] ->
         <<Without(Q, Climb(R, c, j), j), With(R, Climb(R, c, j), j),
           Without(F, Climb(R, c, j), j)>>
    [] state = Failed /\ j \notin F[c] ->
         <<Without(Q, Above[c], j), Without(R, Above[c], j),
           With(Without(F, Above[c], j), {c}, j)>>
    [] OTHER -> <<Q, R, F>>     \* already there, or waiting for its parents

\* ChannelManager.notify: a job whose attributes changed is taken out and
\* made anew; an object that ends up in no channel is garbage collected
\* (the manager only holds it weakly).
Notify(j, attr, state) ==
  LET old == Above[info[j].channel]
      changed == info[j] # attr
      new == IF changed
             THEN PlacedIn(Without(queue, old, j), Without(running, old, j),
                           Without(failed, old, j), j, attr.channel, state)
             ELSE PlacedIn(queue, running, failed, j, attr.channel, state)
  IN /\ queue' = new[1]
     /\ running' = new[2]
     /\ failed' = new[3]
     /\ info' = [info EXCEPT ![j] = IF Placed(j)' THEN attr ELSE Blank]

\* Mutants: only the leaf forgets the job; the entry of the job is deleted.
RemoveJobFromLeaf(j) ==
  LET old == {info[j].channel}
  IN /\ queue' = Without(queue, old, j)
     /\ running' = Without(running, old, j)
     /\ failed' = Without(failed, old, j)
     /\ info' = [info EXCEPT ![j] = Blank]
RemoveJobEntry(j) ==
  LET old == Above[info[j].channel]
  IN /\ queue' = Without(queue, old, j)
     /\ running' = Without(running, old, j)
     /\ failed' = Without(failed, old, j)
     /\ info' = [i \in Job \ {j} |-> info[i]]

\* ChannelManager.remove_job: the row is gone.
RemoveJob(j) ==
  LET old == Above[info[j].channel]
  IN /\ queue' = Without(queue, old, j)
     /\ running' = Without(running, old, j)
     /\ failed' = Without(failed, old, j)
     /\ info' = [info EXCEPT ![j] = Blank]

\* Mutant: the channels of a closed database are kept.
RemoveDbNever == UNCHANGED placement

\* remove_db for the database of the runner.
RemoveDb ==
  /\ queue' = [c \in Channel |-> {}]
  /\ running' = [c \in Channel |-> {}]
  /\ failed' = [c \in Channel |-> {}]
  /\ info' = [j \in Job |-> Blank]

-----------------------------------------------------------------------------
(* One pass of get_jobs_to_run *)

\* Mutant: one job too many.
HasCapacityForOne(c) ==
  /\ ~(c \in Sequential /\ failed[c] # {})
  /\ Capacity[c] = 0 \/ Cardinality(running[c]) <= Capacity[c]

HasCapacity(c) ==
  /\ ~(c \in Sequential /\ failed[c] # {})
  /\ Capacity[c] = 0 \/ Cardinality(running[c]) < Capacity[c]

\* ChannelJob.sorting_key_ignoring_eta
Before(i, j) ==
  \/ info[i].priority < info[j].priority
  \/ info[i].priority = info[j].priority /\ Seq[i] < Seq[j]

\* ChannelJob.__lt__ among jobs with an eta
EtaBefore(i, j) ==
  \/ info[i].eta < info[j].eta
  \/ info[i].eta = info[j].eta /\ Before(i, j)

Due(c, now) == {j \in queue[c] : info[j].eta <= now}
Later(c, now) == queue[c] \ Due(c, now)

\* In a sequential channel the first job with an eta may hold the others back.
HeldBack(c, j, now) ==
  /\ c \in Sequential
  /\ \E e \in Later(c, now) :
       /\ \A i \in Later(c, now) \ {e} : EtaBefore(e, i)
       /\ Before(e, j)

\* ChannelQueue.pop returns j.
Pops(c, j, now) ==
  /\ j \in Due(c, now)
  /\ \A i \in Due(c, now) \ {j} : Before(j, i)
  /\ ~HeldBack(c, j, now)

\* ChannelQueue.pop: the jobs whose eta is past compete without it.
Ripened(c, now) ==
  [j \in Job |-> IF j \in Due(c, now) THEN [info[j] EXCEPT !.eta = 0] ELSE info[j]]

\* Mutant: the pause ends a second early.
PausedLess(c) == Throttle[c] > 0 /\ pause[c] > passNow + 1

Paused(c) == Throttle[c] > 0 /\ pause[c] > passNow

\* Mutant: a channel does not wait for its children.
TurnOfAny(c) == c \in todo

\* It is c's turn: the generators of its children are exhausted.
Turn(c) ==
  /\ c \in todo
  /\ \A d \in todo \ {Root} : Parent[d] # c

BeginPass ==
  /\ todo = {}
  /\ todo' = Channel
  /\ passNow' = clock
  /\ UNCHANGED <<placement, pause, lastPass>>

\* c lets j through: j is marked running in c and handed to the caller, which
\* takes it (queues it in the parent channel; the runner, the caller of the
\* root, enqueues it) and resumes the generator, which then pauses the channel.
LetThrough(c, j) ==
  /\ Turn(c)
  /\ ~Paused(c)
  /\ HasCapacity(c)
  /\ Pops(c, j, passNow)
  /\ info' = Ripened(c, passNow)
  /\ running' = With(running, {c}, j)
  /\ queue' = IF c = Root THEN Without(queue, {c}, j)
              ELSE With(Without(queue, {c}, j), {Parent[c]}, j)
  /\ pause' = [pause EXCEPT ![c] = IF Throttle[c] > 0 THEN passNow + Throttle[c] ELSE 0]
  /\ todo' = IF Throttle[c] > 0 THEN todo \ {c} ELSE todo
  /\ passNow' = IF todo' = {} THEN 0 ELSE passNow
  /\ lastPass' = [lastPass EXCEPT ![c] = IF Throttle[c] > 0 THEN passNow ELSE 0]
  /\ UNCHANGED failed

\* c has nothing (more) to let through in this pass.
Exhaust(c) ==
  /\ Turn(c)
  /\ \/ Paused(c) /\ UNCHANGED <<info, pause>>
     \/ /\ ~Paused(c)
        /\ pause' = [pause EXCEPT ![c] = 0]
        /\ \/ ~HasCapacity(c) /\ UNCHANGED info
           \/ /\ HasCapacity(c)
              /\ \A j \in queue[c] : ~Pops(c, j, passNow)
              /\ info' = Ripened(c, passNow)
  /\ todo' = todo \ {c}
  /\ passNow' = IF todo' = {} THEN 0 ELSE passNow
  /\ UNCHANGED <<queue, running, failed, lastPass>>

\* The root yields a job to a runner that fails to take it.
Yields(j) ==
  /\ Turn(Root)
  /\ ~Paused(Root)
  /\ HasCapacity(Root)
  /\ Pops(Root, j, passNow)

-----------------------------------------------------------------------------
(* Channel.get_wakeup_time *)

\* The recursion reaches c: every channel downstream has capacity and is not
\* paused.
Reached(c) == \A d \in Above[c] \ {c} : HasCapacity(d) /\ pause[d] = 0

\* Mutant: only pauses wake the runner up, the queues do not.
WakeupTimesOfPauses ==
  {pause[c] : c \in {d \in Channel : Reached(d) /\ HasCapacity(d) /\ pause[d] > 0}}

WakeupTimes ==
  {pause[c] : c \in {d \in Channel : Reached(d) /\ HasCapacity(d) /\ pause[d] > 0}}
  \cup
  {info[j].eta : j \in {i \in Job : /\ info[i].eta > 0
                                    /\ \E c \in Channel :
                                         /\ i \in queue[c]
                                         /\ Reached(c)
                                         /\ HasCapacity(c)
                                         /\ pause[c] = 0}}

\* 0 when no time is asked for.
WakeupTime ==
  IF WakeupTimes = {} THEN 0
  ELSE CHOOSE t \in WakeupTimes : \A u \in WakeupTimes : t <= u

-----------------------------------------------------------------------------
(* The loop of the runner around the channels: runner.py *)

Phases == {"down", "listen", "pass", "asleep"}

ChInit ==
  /\ info = [j \in Job |-> Blank]
  /\ queue = [c \in Channel |-> {}]
  /\ running = [c \in Channel |-> {}]
  /\ failed = [c \in Channel |-> {}]
  /\ pause = [c \in Channel |-> 0]
  /\ todo = {}
  /\ passNow = 0
  /\ clock = 1
  /\ phase = "down"
  /\ lastPass = [c \in Channel |-> 0]

\* The databases are opened; the rows they hold are notified.
Open ==
  /\ phase = "down"
  /\ phase' = "listen"
  /\ UNCHANGED <<placement, pause, todo, passNow, clock, lastPass>>

HandleRow(j, attr, state) ==
  /\ phase = "listen"
  /\ Notify(j, attr, state)
  /\ UNCHANGED <<pause, todo, passNow, clock, phase, lastPass>>

HandleMissingRow(j) ==
  /\ phase = "listen"
  /\ RemoveJob(j)
  /\ UNCHANGED <<pause, todo, passNow, clock, phase, lastPass>>

RunJobs ==
  /\ phase = "listen"
  /\ BeginPass
  /\ phase' = "pass"
  /\ UNCHANGED clock

\* One step of a generator; the runner sleeps once the root's is exhausted.
PassStep ==
  /\ phase = "pass"
  /\ \E c \in Channel : Exhaust(c) \/ \E j \in queue[c] : LetThrough(c, j)
  /\ phase' = IF Root \in todo' THEN "pass" ELSE "asleep"
  /\ UNCHANGED clock

\* A notification, or the time wait_notification asked for.
WakeUp ==
  /\ phase = "asleep"
  /\ phase' = "listen"
  /\ UNCHANGED <<placement, pause, todo, passNow, clock, lastPass>>

\* close_databases after an error of the database.  A pass in progress is
\* given up; the pauses of the channels stay.
Close ==
  /\ phase # "down"
  /\ RemoveDb
  /\ todo' = {}
  /\ passNow' = 0
  /\ phase' = "down"
  /\ UNCHANGED <<pause, clock, lastPass>>

\* The error comes from set_job_enqueued, for the job the root just yielded:
\* its generator is never resumed, so the root is not paused for it.
Abandon(j) ==
  /\ phase = "pass"
  /\ Yields(j)
  /\ Close

Tick ==
  /\ clock < MaxTime
  /\ clock' = clock + 1
  /\ UNCHANGED <<placement, pause, todo, passNow, phase, lastPass>>

ChNext ==
  \/ Open
  \/ \E j \in Job :
       \/ \E attr \in Attrs, state \in States : HandleRow(j, attr, state)
       \/ HandleMissingRow(j)
  \/ RunJobs
  \/ PassStep
  \/ WakeUp
  \/ Close
  \/ \E j \in queue[Root] : Abandon(j)
  \/ Tick

ChSpec == ChInit /\ [][ChNext]_chVars

-----------------------------------------------------------------------------
(* Properties *)

\* Every variable has its type.
ChTypeOK ==
  /\ info \in [Job -> Attr]
  /\ queue \in [Channel -> SUBSET Job]
  /\ running \in [Channel -> SUBSET Job]
  /\ failed \in [Channel -> SUBSET Job]
  /\ pause \in [Channel -> Nat]
  /\ todo \subseteq Channel
  /\ passNow \in Nat
  /\ clock \in Nat
  /\ phase \in Phases
  /\ lastPass \in [Channel -> Nat]

\* A job is in one place of the tree: failed in its leaf; or queued in one
\* channel on its way to the root, running in every channel before it and
\* absent after it; or running in all of them.  What set_pending, set_running,
\* set_failed and the generators do to each other's sets must keep this, or a
\* job would be handed out twice or hold a place it does not use.
OnlyOnPath ==
  \A j \in Job, c \in Channel :
    j \in queue[c] \cup running[c] \cup failed[c] => c \in Above[info[j].channel]

FailedInLeaf ==
  \A j \in Job, c \in Channel :
    j \in failed[c] =>
      /\ c = info[j].channel
      /\ \A d \in Channel : j \notin queue[d] \cup running[d]

QueuedOnce ==
  \A j \in Job, c \in Channel :
    j \in queue[c] =>
      /\ \A d \in Above[c] : j \notin running[d]
      /\ \A d \in Above[c] \ {c} : j \notin queue[d]
      /\ \A d \in Above[info[j].channel] : c \in Above[d] /\ d # c => j \in running[d]

RunningDownstream ==
  \A j \in Job, c \in Channel :
    j \in running[c] /\ c # Root => j \in running[Parent[c]] \cup queue[Parent[c]]

Placement == OnlyOnPath /\ FailedInLeaf /\ QueuedOnce /\ RunningDownstream

\* "it yields no job until at least throttle seconds have elapsed since the
\* previous yield" (get_jobs_to_run), for the jobs that were handed on: queued
\* downstream or, by the root, enqueued.  It holds across passes, errors and
\* recoveries, but a job the runner failed to enqueue was handed to nobody and
\* does not count: the root may yield again at once (Abandon).
ThrottleSpacing ==
  [][phase = "pass" =>
       \A c \in Channel :
         \/ running'[c] \subseteq running[c]
         \/ lastPass[c] = 0
         \/ passNow >= lastPass[c] + Throttle[c]]_chVars

\* A job could be let through by a channel, now, with no notification.
Movable(j) ==
  \E c \in Channel :
    /\ Pops(c, j, clock)
    /\ \A d \in Above[c] : HasCapacity(d) /\ ~(Throttle[d] > 0 /\ pause[d] > clock)

\* While the runner sleeps for longer, nothing can move: get_wakeup_time cuts
\* its recursion at full and paused channels without losing a wake-up.
NoOversleep ==
  phase = "asleep" /\ (WakeupTime = 0 \/ clock < WakeupTime)
    => \A j \in Job : ~Movable(j)

\* When the root lets a job go, no job of higher priority that is due stays
\* anywhere in the tree, unless a channel on its way is full, paused or, being
\* sequential, held back.
NoInversion ==
  [][phase = "pass" =>
       \A j \in running'[Root] \ running[Root], c \in Channel :
         \A i \in Due(c, passNow) \ {j} :
           Before(i, j) =>
             \E d \in Above[c] \ {Root} :
               Paused(d) \/ ~HasCapacity(d) \/ HeldBack(d, i, passNow)]_chVars

-----------------------------------------------------------------------------
(* A claim of the source that the code does not keep *)

\* channels.py:322 "the job with eta has higher priority than the job without eta;
\* since it's a sequential queue we wait until eta": a sequential channel lets no
\* job through while one that comes before it, but for its eta, is still queued.
SequentialWaits ==
  [][phase = "pass" =>
       \A c \in Sequential : \A j \in running'[c] \ running[c] :
         \A i \in queue[c] \ {j} : Before(j, i)]_chVars
=============================================================================
