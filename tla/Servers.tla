------------------------------ MODULE Servers ------------------------------
(***************************************************************************)
(* Several servers that share databases: the worker or thread in which     *)
(* each one runs a job runner (queue_job/jobrunner/__init__.py), the       *)
(* election of the runner that masters a database by an advisory lock of   *)
(* PostgreSQL, and what a runner remembers of the rows, in the channels of *)
(* the configuration text (jobrunner/runner.py, channels.py).              *)
(*                                                                         *)
(* A row is pending, enqueued (or started: a place is taken in its         *)
(* channels) or done.  JobRunner has the steps of one runner in full; here *)
(* a job is let through when every channel of its path has a place.        *)
(***************************************************************************)
EXTENDS ChannelNames

CONSTANTS
  Server,
  Prefork,     \* the servers with processes; the others run a thread
  DbNames,     \* [Server -> Seq(Nat)]: get_db_names; a database is a number
  Installed,   \* the databases with queue_job
  Job, DbOf, ChannelOf,   \* the jobs, their database and channel name
  Texts,       \* the configuration texts to choose from
  Nobody, Ghost,   \* no holder; a session whose client is gone
  MaxFaults    \* bound on kills, signals and broken connections

VARIABLES
  text,        \* the configuration text of all servers
  server,      \* where each runner stands
  session,     \* its connections
  holder,      \* who holds the advisory lock of a database
  notes,       \* the notifications a runner received
  known,       \* the channels it created
  memory,      \* what it remembers of each job
  row,         \* the rows
  faults       \* history: faults so far

svVars == <<text, server, session, holder, notes, known, memory, row, faults>>

Db == UNION {Range(DbNames[s]) : s \in Server}

ASSUME ServersAssumption ==
  /\ Prefork \subseteq Server
  /\ DbNames \in [Server -> Seq(Nat)]
  /\ Installed \subseteq Db
  /\ DbOf \in [Job -> Installed]
  /\ {Nobody, Ghost} \cap Server = {} /\ Nobody # Ghost
  /\ IsFiniteSet(Job) /\ ChannelOf \in [Job -> Seq(Part)]
  /\ \A t \in Texts : t \in Seq(Entries) /\ t # <<>>
  /\ MaxFaults \in Nat

\* Where a runner can stand: the loop of the worker, the construction of a new
\* runner, the delay before run, the sleep after an error, initialize_databases,
\* the beginning of a turn of the inner loop, process_notifications, run_jobs.
Places == {"down", "work", "building", "starting", "resting", "opening", "reading",
           "looping", "handling", "passing"}
InTurn == {"looping", "handling", "passing"}

Unknown == [state |-> "unknown", channel |-> <<>>]
Down == [at |-> "down", next |-> 1, alive |-> FALSE, told |-> FALSE, recover |-> FALSE]

\* Mutant: the names in the order of the configuration.
Unsorted == DbNames

\* initialize_databases sorts the names.
Orders(n) == Bijection(1 .. n, 1 .. n)
Sorted(names) ==
  LET arranged == {[i \in 1 .. Len(names) |-> names[p[i]]] : p \in Orders(Len(names))} IN
  CHOOSE t \in arranged : \A i, j \in 1 .. Len(names) : i <= j => t[i] <= t[j]
Opened == [s \in Server |-> Sorted(DbNames[s])]

At(s, place) == server[s].at = place
GoTo(s, place) == server' = [server EXCEPT ![s].at = place]
OpenDbs(s) == {d \in Db : session[s][d] # "none"}

-----------------------------------------------------------------------------
(* The worker and its runner *)

\* What a process remembers ends with it.
Forget(s) ==
  /\ known' = [known EXCEPT ![s] = {RootName}]
  /\ memory' = [memory EXCEPT ![s] = [j \in Job |-> Unknown]]

\* QueueJobRunner.__init__: channels from the text, no job.
Fresh(s) ==
  /\ known' = [known EXCEPT ![s] = Configured(text)]
  /\ memory' = [memory EXCEPT ![s] = [j \in Job |-> Unknown]]

\* prefork_process_spawn, threaded_start: unless the text disables the runner,
\* or its construction raises.
Spawn(s) ==
  /\ At(s, "down")
  /\ Enabled(text) /\ ~Refused(text)
  /\ server' = [server EXCEPT ![s] =
       [Down EXCEPT !.at = IF s \in Prefork THEN "work" ELSE "starting", !.alive = TRUE]]
  /\ Fresh(s)
  /\ UNCHANGED <<text, session, holder, notes, row, faults>>

\* Worker.run: while alive, process_work.
Work(s) ==
  /\ At(s, "work")
  /\ server[s].alive
  /\ GoTo(s, IF server[s].recover THEN "building" ELSE "starting")
  /\ UNCHANGED <<text, session, holder, notes, known, memory, row, faults>>

\* The process ends; worker_pop makes room for another.
End(s) ==
  /\ At(s, "work")
  /\ ~server[s].alive
  /\ server' = [server EXCEPT ![s] = Down]
  /\ Forget(s)
  /\ UNCHANGED <<text, session, holder, notes, row, faults>>

\* The new runner has not been told anything: a stop that arrived since
\* process_work began reached the old one, and nobody tells the new one.
Rebuild(s) ==
  /\ At(s, "building")
  /\ server' = [server EXCEPT ![s].at = "starting", ![s].told = FALSE, ![s].recover = FALSE]
  /\ Fresh(s)
  /\ UNCHANGED <<text, session, holder, notes, row, faults>>

\* close_databases; the lock goes with the session, unless the connection was
\* broken and the server of the database does not know.
CloseDatabases(s) ==
  /\ session' = [session EXCEPT ![s] = [d \in Db |-> "none"]]
  /\ holder' = [d \in Db |-> IF holder[d] = s THEN Nobody ELSE holder[d]]
  /\ notes' = [notes EXCEPT ![s] = {}]

\* After run returns: the worker goes on, the thread ends.
Left(s) ==
  IF s \in Prefork
  THEN /\ server' = [server EXCEPT ![s].at = "work", ![s].next = 1]
       /\ UNCHANGED <<known, memory>>
  ELSE /\ server' = [server EXCEPT ![s] = Down]
       /\ Forget(s)

\* The test of the outer loop of run.
Outer(s) ==
  /\ server[s].at \in {"starting", "resting"}
  /\ IF server[s].told THEN Left(s) ELSE GoTo(s, "opening") /\ UNCHANGED <<known, memory>>
  /\ UNCHANGED <<text, session, holder, notes, row, faults>>

\* Mutant: the databases stay open.
LeaveOpen(s) ==
  /\ At(s, "looping")
  /\ server[s].told
  /\ Left(s)
  /\ UNCHANGED <<text, session, holder, notes, row, faults>>

\* The inner loop ends: close_databases without the jobs.
Leave(s) ==
  /\ At(s, "looping")
  /\ server[s].told
  /\ CloseDatabases(s)
  /\ Left(s)
  /\ UNCHANGED <<text, row, faults>>

\* MasterElectionLost or any other error of run: close_databases, sleep.
Recover(s) ==
  /\ CloseDatabases(s)
  /\ memory' = [memory EXCEPT ![s] =
       [j \in Job |-> IF session[s][DbOf[j]] = "none" THEN memory[s][j] ELSE Unknown]]
  /\ server' = [server EXCEPT ![s].at = "resting", ![s].next = 1]
  /\ UNCHANGED <<text, known, row, faults>>

-----------------------------------------------------------------------------
(* The election *)

Turn(s) == Opened[s][server[s].next]
HasNext(s) == server[s].next <= Len(Opened[s])
Skip(s) == server' = [server EXCEPT ![s].at = "opening", ![s].next = @ + 1]

\* A database without queue_job is closed again.
PassOver(s) ==
  /\ At(s, "opening")
  /\ HasNext(s)
  /\ Turn(s) \notin Installed
  /\ Skip(s)
  /\ UNCHANGED <<text, session, holder, notes, known, memory, row, faults>>

\* Mutant: the result of pg_try_advisory_lock is ignored.
AcquireAnyway(s) ==
  /\ At(s, "opening")
  /\ HasNext(s)
  /\ Turn(s) \in Installed
  /\ holder' = [holder EXCEPT ![Turn(s)] = IF @ = Nobody THEN s ELSE @]
  /\ session' = [session EXCEPT ![s][Turn(s)] = "open"]
  /\ GoTo(s, "reading")
  /\ UNCHANGED <<text, notes, known, memory, row, faults>>

\* _acquire_master_lock, then LISTEN.
AcquireMasterLock(s) ==
  /\ At(s, "opening")
  /\ HasNext(s)
  /\ Turn(s) \in Installed
  /\ holder[Turn(s)] = Nobody
  /\ holder' = [holder EXCEPT ![Turn(s)] = s]
  /\ session' = [session EXCEPT ![s][Turn(s)] = "open"]
  /\ GoTo(s, "reading")
  /\ UNCHANGED <<text, notes, known, memory, row, faults>>

\* The session of this runner or of another holds the lock.
ElectionLost(s) ==
  /\ At(s, "opening")
  /\ HasNext(s)
  /\ Turn(s) \in Installed
  /\ holder[Turn(s)] # Nobody
  /\ Recover(s)

-----------------------------------------------------------------------------
(* What the runner remembers *)

FullChannelOf(j) == FullName(ChannelOf[j])

\* Mutant: a job that is done keeps its place.
NotifyKept(names, j) ==
  [state |-> row[j], channel |-> Searched(names, FullChannelOf(j), TRUE)]

\* ChannelManager.notify of a job: it is placed in the channel its name leads to
\* by now, or leaves its channel.
Notified(names, j) ==
  IF row[j] = "done" THEN Unknown
  ELSE [state |-> row[j], channel |-> Searched(names, FullChannelOf(j), TRUE)]

\* The channels known once some jobs were notified; none is ever removed.
KnownWith(s, jobs) ==
  known[s] \cup
    FoldLeft(LAMBDA names, j : KnownAfter(names, FullChannelOf(j), TRUE), known[s], jobs)

\* Jobs are notified in some order, each in the channels those before it left.
NotifyEach(s, jobs) ==
  \E order \in SetToSeqs(jobs) :
    LET before(j) == SubSeq(order, 1, SelectInSeq(order, LAMBDA i : i = j) - 1) IN
    /\ known' = [known EXCEPT ![s] = KnownWith(s, order)]
    /\ memory' = [memory EXCEPT ![s] =
         [j \in Job |-> IF j \in jobs THEN Notified(KnownWith(s, before(j)), j)
                        ELSE memory[s][j]]]

\* Mutant: the rows that are enqueued are left out.
ReadPending(s) ==
  /\ At(s, "reading")
  /\ session[s][Turn(s)] = "open"
  /\ NotifyEach(s, {j \in Job : DbOf[j] = Turn(s) /\ row[j] = "pending"})
  /\ Skip(s)
  /\ UNCHANGED <<text, session, holder, notes, row, faults>>

\* The rows that are not done, in the order of the database.
ReadJobs(s) ==
  /\ At(s, "reading")
  /\ session[s][Turn(s)] = "open"
  /\ NotifyEach(s, {j \in Job : DbOf[j] = Turn(s) /\ row[j] # "done"})
  /\ Skip(s)
  /\ UNCHANGED <<text, session, holder, notes, row, faults>>

\* All are open: the inner loop.
StartLoop(s) ==
  /\ At(s, "opening")
  /\ ~HasNext(s)
  /\ GoTo(s, "looping")
  /\ UNCHANGED <<text, session, holder, notes, known, memory, row, faults>>

\* Mutant: the turn begins without a statement on the databases.
SweepNothing(s) ==
  /\ At(s, "looping")
  /\ ~server[s].told
  /\ GoTo(s, "handling")
  /\ UNCHANGED <<text, session, holder, notes, known, memory, row, faults>>

\* requeue_dead_jobs, on every database; the jobs it requeues are in EndJob.
Sweep(s) ==
  /\ At(s, "looping")
  /\ ~server[s].told
  /\ \A d \in OpenDbs(s) : session[s][d] = "open"
  /\ GoTo(s, "handling")
  /\ UNCHANGED <<text, session, holder, notes, known, memory, row, faults>>

\* process_notifications, one at a time.
ProcessNotification(s, j) ==
  /\ At(s, "handling")
  /\ ~server[s].told
  /\ j \in notes[s]
  /\ session[s][DbOf[j]] = "open"
  /\ NotifyEach(s, {j})
  /\ notes' = [notes EXCEPT ![s] = @ \ {j}]
  /\ UNCHANGED <<text, server, session, holder, row, faults>>

\* No more of them was received, or the runner is told to stop.
BeginPass(s) ==
  /\ At(s, "handling")
  /\ GoTo(s, "passing")
  /\ UNCHANGED <<text, session, holder, notes, known, memory, row, faults>>

\* The running jobs a runner counts in a channel.
Running(s, channel) ==
  {j \in Job : memory[s][j].state = "enqueued" /\ IsPrefix(channel, memory[s][j].channel)}

HasPlace(s, j) ==
  \A c \in PathTo(memory[s][j].channel) :
    LimitOf(text, c) # Unlimited => Cardinality(Running(s, c)) < LimitOf(text, c)

\* A notification reaches whoever listens.
Notifying(j) ==
  notes' = [s \in Server |->
              IF session[s][DbOf[j]] = "open" THEN notes[s] \cup {j} ELSE notes[s]]

\* A pass lets j through: set_job_enqueued on the session of its database.
RunJob(s, j) ==
  /\ At(s, "passing")
  /\ ~server[s].told
  /\ memory[s][j].state = "pending"
  /\ HasPlace(s, j)
  /\ session[s][DbOf[j]] = "open"
  /\ memory' = [memory EXCEPT ![s][j].state = "enqueued"]
  /\ row' = [row EXCEPT ![j] = "enqueued"]
  /\ Notifying(j)
  /\ UNCHANGED <<text, server, session, holder, known, faults>>

\* The pass is over, or left; wait_notification returns.
EndTurn(s) ==
  /\ At(s, "passing")
  /\ GoTo(s, "looping")
  /\ UNCHANGED <<text, session, holder, notes, known, memory, row, faults>>

\* The databases that the next statements are for.
Touched(s) ==
  CASE server[s].at \in InTurn -> Db
    [] At(s, "reading") -> {Turn(s)}
    [] OTHER -> {}

\* A statement on a connection that is broken.
SessionLost(s) ==
  /\ \E d \in Touched(s) : session[s][d] = "broken"
  /\ Recover(s)

-----------------------------------------------------------------------------
(* Jobs, and what may go wrong *)

\* A worker, or the sweep after its death, ends a run.
EndJob(j) ==
  /\ row[j] = "enqueued"
  /\ \E state \in {"done", "pending"} : row' = [row EXCEPT ![j] = state]
  /\ Notifying(j)
  /\ UNCHANGED <<text, server, session, holder, known, memory, faults>>

Fault ==
  /\ faults < MaxFaults
  /\ faults' = faults + 1

\* signal_handler, or stop of the thread, at any moment: the runner the worker
\* has by then is told, which is the old one while it builds another.
Interrupt(s) ==
  /\ ~At(s, "down")
  /\ Fault
  /\ server' = [server EXCEPT ![s].alive = FALSE, ![s].told = TRUE]
  /\ UNCHANGED <<text, session, holder, notes, known, memory, row>>

\* signal_time_expired_handler; Worker.run sets a new limit at each turn.
TimeExpired(s) ==
  /\ s \in Prefork
  /\ server[s].at \in InTurn \cup {"opening", "reading", "resting"}
  /\ Fault
  /\ server' = [server EXCEPT ![s].recover = TRUE, ![s].told = TRUE]
  /\ UNCHANGED <<text, session, holder, notes, known, memory, row>>

\* The process dies; PostgreSQL may learn of it later.
Kill(s) ==
  /\ ~At(s, "down")
  /\ Fault
  /\ server' = [server EXCEPT ![s] = Down]
  /\ session' = [session EXCEPT ![s] = [d \in Db |-> "none"]]
  /\ holder' = [d \in Db |-> IF holder[d] = s THEN Ghost ELSE holder[d]]
  /\ notes' = [notes EXCEPT ![s] = {}]
  /\ Forget(s)
  /\ UNCHANGED <<text, row>>

\* A connection breaks: PostgreSQL knows, or not yet.
Break(s, d) ==
  /\ session[s][d] = "open"
  /\ Fault
  /\ session' = [session EXCEPT ![s][d] = "broken"]
  /\ \E h \in {Nobody, Ghost} : holder' = [holder EXCEPT ![d] = h]
  /\ UNCHANGED <<text, server, notes, known, memory, row>>

Expire(d) ==
  /\ holder[d] = Ghost
  /\ holder' = [holder EXCEPT ![d] = Nobody]
  /\ UNCHANGED <<text, server, session, notes, known, memory, row, faults>>

-----------------------------------------------------------------------------

SvInit ==
  /\ text \in Texts
  /\ server = [s \in Server |-> Down]
  /\ session = [s \in Server |-> [d \in Db |-> "none"]]
  /\ holder = [d \in Db |-> Nobody]
  /\ notes = [s \in Server |-> {}]
  /\ known = [s \in Server |-> {RootName}]
  /\ memory = [s \in Server |-> [j \in Job |-> Unknown]]
  /\ row = [j \in Job |-> "pending"]
  /\ faults = 0

\* What a runner does when nothing goes wrong.
Step(s) ==
  \/ Work(s) \/ End(s) \/ Rebuild(s) \/ Outer(s) \/ Leave(s)
  \/ PassOver(s) \/ AcquireMasterLock(s) \/ ElectionLost(s)
  \/ ReadJobs(s) \/ StartLoop(s) \/ SessionLost(s)
  \/ Sweep(s) \/ BeginPass(s) \/ EndTurn(s)
  \/ \E j \in Job : ProcessNotification(s, j) \/ RunJob(s, j)

SvNext ==
  \/ \E s \in Server : Spawn(s) \/ Step(s)
  \/ \E j \in Job : EndJob(j)
  \/ \E s \in Server : Interrupt(s) \/ TimeExpired(s) \/ Kill(s) \/ (\E d \in Db : Break(s, d))
  \/ \E d \in Db : Expire(d)

SvSpec == SvInit /\ [][SvNext]_svVars

\* The processes run, the master process starts a worker again, the threaded
\* server may not be; PostgreSQL learns of lost clients; notifications do not
\* keep a runner from the rest of its turn.
SvFairSpec ==
  /\ SvSpec
  /\ \A s \in Server : WF_svVars(Step(s)) /\ WF_svVars(BeginPass(s))
  /\ \A s \in Prefork : WF_svVars(Spawn(s))
  /\ \A d \in Db : WF_svVars(Expire(d))

-----------------------------------------------------------------------------
(* Properties *)

SvTypeOK ==
  /\ text \in Texts
  /\ server \in [Server -> [at : Places, next : Nat \ {0}, alive : BOOLEAN,
                            told : BOOLEAN, recover : BOOLEAN]]
  /\ session \in [Server -> [Db -> {"none", "open", "broken"}]]
  /\ holder \in [Db -> Server \cup {Nobody, Ghost}]
  /\ notes \in [Server -> SUBSET Job]
  /\ memory \in [Server -> [Job -> [state : {"unknown", "pending", "enqueued"}, channel : Seq(Part)]]]
  /\ row \in [Job -> {"pending", "enqueued", "done"}]
  /\ faults \in 0 .. MaxFaults

\* A session that is open holds the lock of its database.
OneMaster ==
  \A s \in Server, d \in Db : session[s][d] = "open" => holder[d] = s

\* The runners about to ask for a lock.
Opening == {s \in Server : At(s, "opening") /\ HasNext(s)}

\* Two runners that open their databases never stand in each other's way, each
\* about to ask for one that the other has: the databases are taken in one order
\* ("sorting is important to avoid deadlocks in acquiring the master lock").
NeverCrosswise ==
  \A s, t \in Opening :
    s # t => ~(session[t][Turn(s)] = "open" /\ session[s][Turn(t)] = "open")

\* The names of the text never repeat the part after the root: with such a
\* name, a search that falls back ends below the wrong channel.
Plain ==
  \A e \in Range(text) :
    LET full == FullName(e.name) IN \A k \in 3 .. Len(full) : full[k] # full[2]

\* All the servers together never have more jobs enqueued in a channel, from all
\* databases, than the text allows, although runners fail, lose a database or
\* are replaced while jobs run, when they serve the same databases.
FleetWithinCapacity ==
  Plain =>
    \A c \in Configured(text) :
      LimitOf(text, c) # Unlimited =>
        Cardinality({j \in Job : row[j] = "enqueued" /\ IsPrefix(c, FullChannelOf(j))})
          <= LimitOf(text, c)

\* A job that falls back is placed below the nearest channel of the text above
\* its name, whatever channels were created before.
NearestConfigured ==
  Plain =>
    \A s \in Server : \A j \in {i \in Job : memory[s][i] # Unknown} :
      Longest(PathTo(memory[s][j].channel) \cap Configured(text))
        = Longest(PathTo(FullChannelOf(j)) \cap Configured(text))

\* The runner of the loop counts every job that is enqueued in its databases.
RunningCounted ==
  \A s \in Server, j \in Job :
    /\ server[s].at \in InTurn /\ session[s][DbOf[j]] = "open" /\ row[j] = "enqueued"
    => memory[s][j].state = "enqueued"

\* Once faults are over, one runner has all databases and keeps them: the order
\* in which they are taken rules out that servers take them from one another.
ServedForGood ==
  (Enabled(text) /\ ~Refused(text)) =>
    <>[](\E s \in Server : /\ server[s].at \in InTurn
                           /\ \A d \in Installed : session[s][d] = "open")

\* A worker or thread that is to end, whose runner does not know.
Deaf(s) == ~server[s].alive /\ (At(s, "building") \/ ~server[s].told)

\* A runner that is told to stop gives up every database, and a worker or thread
\* that is stopped ends, at any moment but while the worker builds a new runner:
\* that one takes every database and runs until the worker is told again.
LocksReleased ==
  \A s \in Server :
    /\ server[s].told /\ ~At(s, "building") ~> \A d \in Db : holder[d] # s
    /\ ~server[s].alive /\ ~Deaf(s) ~> At(s, "down")
=============================================================================
