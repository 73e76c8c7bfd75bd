-------------------------- MODULE JobRunnerProofs --------------------------
(***************************************************************************)
(* Proofs about the runner at work: it does to the rows what QueueJob lets *)
(* a runner do, and so keeps what is proved about the rows; it respects    *)
(* the capacities of the channels.                                         *)
(***************************************************************************)
EXTENDS JobRunner, ChannelsProofs

\* QueueJob with what is proved about it; the jobs noticed are the ready ones.
Rows == INSTANCE QueueJobAlone WITH noticed <- Ready

LEMMA RowsAreAssumed == Rows!QueueJobAssumption
  <1>1. Rows!IsFiniteSet(Job)
    BY JobAssumption DEF Rows!IsFiniteSet, IsFiniteSet
  <1>. QED
    BY <1>1, RowsAssumption DEF Jobs!Outcome, Rows!Outcome

-----------------------------------------------------------------------------
(* The two instances of QueueJob are the same *)

LEMMA SameState ==
  /\ Jobs!qjVars = Rows!qjVars
  /\ Jobs!QjTypeOK <=> Rows!QjTypeOK
  /\ Jobs!QjInit <=> Rows!QjInit
  BY DEF Jobs!qjVars, Rows!qjVars, Jobs!dbVars, Rows!dbVars, Jobs!rows, Rows!rows,
     Jobs!history, Rows!history, Jobs!QjTypeOK, Rows!QjTypeOK, Jobs!QjInit, Rows!QjInit,
     Jobs!States, Rows!States, Jobs!Actor, Rows!Actor, Jobs!Tx, Rows!Tx, Jobs!Steps, Rows!Steps,
     Jobs!IdleTx, Rows!IdleTx, Jobs!SetPending, Rows!SetPending,
     Jobs!WaitDependencies, Rows!WaitDependencies, Jobs!Pending, Rows!Pending,
     Jobs!Enqueued, Rows!Enqueued, Jobs!Started, Rows!Started, Jobs!Done, Rows!Done,
     Jobs!Cancelled, Rows!Cancelled, Jobs!Failed, Rows!Failed

LEMMA SameDatabase == Jobs!Database <=> Rows!Database
  BY DEF Jobs!Database, Rows!Database, Jobs!Serve, Rows!Serve, Jobs!RefuseJob, Rows!RefuseJob,
     Jobs!StartJob, Rows!StartJob, Jobs!LoseRequest, Rows!LoseRequest,
     Jobs!RequeueDeadJob, Rows!RequeueDeadJob, Jobs!Owners, Rows!Owners,
     Jobs!Holding, Rows!Holding, Jobs!Active, Rows!Active,
     Jobs!Perform, Rows!Perform, Jobs!Execute, Rows!Execute, Jobs!Crash, Rows!Crash,
     Jobs!TryLock, Rows!TryLock, Jobs!Lock, Rows!Lock, Jobs!LockedBy, Rows!LockedBy,
     Jobs!Performing, Rows!Performing, Jobs!CommitDone, Rows!CommitDone,
     Jobs!Return, Rows!Return, Jobs!NothingToDo, Rows!NothingToDo,
     Jobs!RaiseRetryable, Rows!RaiseRetryable, Jobs!RaiseIgnored, Rows!RaiseIgnored,
     Jobs!RaiseConflict, Rows!RaiseConflict, Jobs!RaiseOther, Rows!RaiseOther,
     Jobs!StoreAndLeave, Rows!StoreAndLeave, Jobs!Postpone, Rows!Postpone, Jobs!Fail, Rows!Fail,
     Jobs!SelectDependents, Rows!SelectDependents, Jobs!EnqueueWaiting, Rows!EnqueueWaiting,
     Jobs!Dependents, Rows!Dependents, Jobs!Children, Rows!Children,
     Jobs!ParentsDone, Rows!ParentsDone, Jobs!SetPending, Rows!SetPending,
     Jobs!User, Rows!User, Jobs!Press, Rows!Press, Jobs!CommitPress, Rows!CommitPress,
     Jobs!RollBackPress, Rows!RollBackPress,
     Jobs!Continue, Rows!Continue, Jobs!Committed, Rows!Committed, Jobs!Watched, Rows!Watched,
     Jobs!Actor, Rows!Actor, Jobs!IdleTx, Rows!IdleTx, Jobs!rows, Rows!rows,
     Jobs!history, Rows!history,
     Jobs!WaitDependencies, Rows!WaitDependencies, Jobs!Pending, Rows!Pending,
     Jobs!Enqueued, Rows!Enqueued, Jobs!Started, Rows!Started, Jobs!Done, Rows!Done,
     Jobs!Cancelled, Rows!Cancelled, Jobs!Failed, Rows!Failed

LEMMA SameRunner ==
  /\ \A j : Jobs!Notice(j) <=> Rows!Notice(j)
  /\ \A S : Jobs!Forget(S) <=> Rows!Forget(S)
  /\ \A j : Jobs!Enqueue(j) <=> Rows!Enqueue(j)
  BY DEF Jobs!Notice, Rows!Notice, Jobs!Forget, Rows!Forget, Jobs!Enqueue, Rows!Enqueue,
     Jobs!SetJobEnqueued, Rows!SetJobEnqueued, Jobs!Committed, Rows!Committed,
     Jobs!Watched, Rows!Watched, Jobs!Actor, Rows!Actor, Jobs!dbVars, Rows!dbVars,
     Jobs!rows, Rows!rows, Jobs!history, Rows!history,
     Jobs!Pending, Rows!Pending, Jobs!Enqueued, Rows!Enqueued

LEMMA SameNext == Jobs!QjNext <=> Rows!QjNext
  BY SameDatabase, SameRunner DEF Jobs!QjNext, Rows!QjNext

\* Initially nothing is ready.
LEMMA InitMaps == RunnerInit => Rows!QjInit
  <1>1. ChInit => Ready = {}
    BY DEF ChInit, Ready
  <1>2. Jobs!QjInit => Rows!QjInit
    BY SameState
  <1>. QED
    BY <1>2 DEF RunnerInit

-----------------------------------------------------------------------------
(* What the steps of the runner do to the channels and to the ready jobs *)

RnInv ==
  /\ ChInv
  /\ Rows!QjInv
  /\ eta \in [Job -> Nat]
  /\ notes \subseteq Job

LEMMA RowTypesHold ==
  ASSUME RnInv
  PROVE  /\ state \in [Job -> States]
         /\ \A j \in Job : RowAttr(j) \in Attr
  BY RunnerAssumption
  DEF RnInv, Rows!QjInv, Rows!QjTypeOK, Rows!States, States, RowAttr, Attr,
      Rows!WaitDependencies, Rows!Pending, Rows!Enqueued, Rows!Started, Rows!Done,
      Rows!Cancelled, Rows!Failed, WaitDependencies, Pending, Enqueued, Started, Done,
      Cancelled, Failed

\* For the rows and the channels, a pass that is given up is an error like any.
LEMMA AbandonCloses == \A j \in Job : AbandonRunJob(j) => CloseDatabases
  BY DEF AbandonRunJob, Abandon, CloseDatabases

\* For the channels, the runner makes the steps of the scheduler.
LEMMA StepOfChannels == RnInv /\ [RunnerNext]_vars => [ChStep]_chVars
  <1>. SUFFICES ASSUME RnInv, [RunnerNext]_vars
                PROVE  [ChStep]_chVars
    OBVIOUS
  <1>1. CASE UNCHANGED chState
    BY <1>1 DEF chState, chVars, placement
  <1>2. CASE UNCHANGED vars
    BY <1>1, <1>2 DEF vars
  <1>3. CASE InitializeDatabases
    BY <1>3 DEF InitializeDatabases, ChStep
  <1>4. ASSUME NEW j \in Job, ProcessNotification(j)
        PROVE  ChStep
    BY <1>4, RowTypesHold DEF ProcessNotification, ChStep
  <1>5. CASE BeginRunJobs
    BY <1>5 DEF BeginRunJobs, ChStep
  <1>6. CASE StepRunJobs
    BY <1>6 DEF StepRunJobs, AfterStep, PassStep, ChStep
  <1>7. ASSUME NEW j \in Job, RunJob(j)
        PROVE  ChStep
    <2>1. j \in queue[Root] /\ Root \in Channel
      BY <1>7, TreeAssumption DEF RunJob, LetThrough, Pops, Due
    <2>. QED
      BY <1>7, <2>1 DEF RunJob, AfterStep, PassStep, ChStep
  <1>8. CASE WaitNotification \/ CloseDatabases \/ Time
    BY <1>8 DEF WaitNotification, CloseDatabases, Time, ChStep
  <1>. QED
    BY <1>1, <1>2, <1>3, <1>4, <1>5, <1>6, <1>7, <1>8, AbandonCloses
    DEF RunnerNext, ServeJobs, PostponeJob, RequeueDeadJobs

\* A notification makes the job ready when it is pending; otherwise it can only
\* make it not ready any more.
LEMMA ReadyAfterRow ==
  ASSUME RnInv, NEW j \in Job, NEW attr \in Attr, NEW s \in States, Notify(j, attr, s)
  PROVE  /\ s = Pending => Ready' = Ready \cup {j}
         /\ s # Pending => Ready' = Ready \/ Ready' = Ready \ {j}
  <1>1. ChTypeOK /\ FourPlaces
    BY DEF RnInv, ChInv
  <1>2. SameBut(j, queue, running, failed, queue', running', failed')
    BY <1>1, NotifyEffect
  <1>3. \A i \in Job \ {j} : i \in Ready' <=> i \in Ready
    BY <1>2 DEF SameBut, Ready
  <1>4. \/ Arrives(j, attr.channel, s, queue, running, failed, queue', running', failed')
        \/ \E Q, R, F \in Placements :
             /\ Nowhere(j, Q, R, F)
             /\ Arrives(j, attr.channel, s, Q, R, F, queue', running', failed')
    BY <1>1, NotifyEffect
  <1>5. attr.channel \in Channel
    BY DEF Attr
  <1>6. s = Pending => j \in Ready'
    <2>1. s = Pending => OnItsWay(j, attr.channel, attr.channel, queue', running', failed')
      BY <1>4 DEF Arrives
    <2>. QED
      BY <1>5, <2>1 DEF OnItsWay, Ready
  <1>7. s # Pending /\ j \in Ready' => j \in Ready
    <2>. SUFFICES ASSUME s # Pending, NEW c \in Channel, j \in queue'[c]
                  PROVE  j \in Ready
      BY DEF Ready
    <2>1. ASSUME NEW Q, NEW R, NEW F,
                 Arrives(j, attr.channel, s, Q, R, F, queue', running', failed')
          PROVE  j \in Q[c]
      BY <2>1 DEF Arrives, Nowhere, InLeaf, LetGo, States, Active
    <2>. QED
      BY <1>4, <2>1 DEF Nowhere, Ready
  <1>. QED
    BY <1>3, <1>6, <1>7 DEF Ready

\* A job let through stays ready until the root lets it go.
LEMMA ReadyAfterPass ==
  ASSUME RnInv, NEW c \in Channel, NEW j \in queue[c], LetThrough(c, j)
  PROVE  /\ j \in Ready
         /\ c # Root => Ready' = Ready
         /\ c = Root => Ready' = Ready \ {j}
  <1>1. ChTypeOK /\ FourPlaces
    BY DEF RnInv, ChInv
  <1>2. j \in Job /\ SameBut(j, queue, running, failed, queue', running', failed')
    BY <1>1, LetThroughEffect
  <1>3. \A i \in Job \ {j} : i \in Ready' <=> i \in Ready
    BY <1>2 DEF SameBut, Ready
  <1>4. j \in Ready
    BY <1>2 DEF Ready
  <1>5. CASE c # Root
    <2>1. Parent[c] \in Channel /\ j \in queue'[Parent[c]]
      BY <1>1, <1>5, LetThroughEffect, TreeAssumption
    <2>. QED
      BY <1>2, <1>3, <1>4, <1>5, <2>1 DEF Ready
  <1>6. CASE c = Root
    <2>1. LetGo(j, info[j].channel, queue', running', failed')
      BY <1>1, <1>6, LetThroughPlaces
    <2>. QED
      BY <1>2, <1>3, <1>4, <1>6, <2>1 DEF LetGo, Ready
  <1>. QED
    BY <1>5, <1>6

-----------------------------------------------------------------------------
(* What they do to the rows *)

\* The steps of workers, users and sweeps leave the channels alone.
LEMMA StepOfRows ==
  ASSUME RnInv, ServeJobs \/ (\E w \in Worker : PostponeJob(w)) \/ RequeueDeadJobs
  PROVE  Rows!Database /\ UNCHANGED chState /\ UNCHANGED Ready
  <1>1. Jobs!Database
    BY DEF ServeJobs, PostponeJob, RequeueDeadJobs, Jobs!Database, Jobs!Perform
  <1>2. UNCHANGED chState
    BY DEF ServeJobs, PostponeJob, RequeueDeadJobs
  <1>. QED
    BY <1>1, <1>2, SameDatabase DEF chState, placement, Ready

\* The other steps leave the rows alone, but for the job that runs.
LEMMA StepOfRunner ==
  ASSUME RnInv, RunnerNext,
         ~(ServeJobs \/ (\E w \in Worker : PostponeJob(w)) \/ RequeueDeadJobs),
         \A j \in Job : ~RunJob(j)
  PROVE  UNCHANGED dbState
  BY AbandonCloses
  DEF RunnerNext, InitializeDatabases, ProcessNotification, BeginRunJobs, StepRunJobs,
     WaitNotification, CloseDatabases, Time

LEMMA RowsUnchanged == UNCHANGED dbState => UNCHANGED Rows!dbVars
  BY DEF dbState, Rows!dbVars, Rows!rows, Rows!history

LEMMA StepMaps == RnInv /\ [RunnerNext]_vars => [Rows!QjNext]_(Rows!qjVars)
  <1>. SUFFICES ASSUME RnInv, [RunnerNext]_vars
                PROVE  [Rows!QjNext]_(Rows!qjVars)
    OBVIOUS
  <1>a. ASSUME UNCHANGED dbState, UNCHANGED Ready
        PROVE  UNCHANGED Rows!qjVars
    BY <1>a, RowsUnchanged DEF Rows!qjVars
  <1>b. ASSUME UNCHANGED dbState, NEW S \in SUBSET Ready, Ready' = Ready \ S
        PROVE  [Rows!QjNext]_(Rows!qjVars)
    <2>1. CASE S = {}
      BY <1>a, <1>b, <2>1
    <2>2. CASE S # {}
      <3>1. Rows!Forget(S)
        BY <1>b, <2>2, RowsUnchanged DEF Rows!Forget
      <3>. QED
        BY <1>b, <3>1 DEF Rows!QjNext
    <2>. QED
      BY <2>1, <2>2
  <1>c. UNCHANGED queue => UNCHANGED Ready
    BY DEF Ready
  <1>1. CASE UNCHANGED vars
    BY <1>1, <1>a, <1>c DEF vars, chState, placement
  <1>2. CASE ServeJobs \/ (\E w \in Worker : PostponeJob(w)) \/ RequeueDeadJobs
    BY <1>2, StepOfRows DEF Rows!QjNext
  <1>3. CASE InitializeDatabases \/ BeginRunJobs \/ WaitNotification \/ Time
    BY <1>3, <1>a, <1>c
    DEF InitializeDatabases, BeginRunJobs, WaitNotification, Time, Open, RunJobs, BeginPass,
        WakeUp, Tick, placement
  <1>4. ASSUME NEW j \in Job, ProcessNotification(j)
        PROVE  [Rows!QjNext]_(Rows!qjVars)
    <2>1. UNCHANGED dbState /\ Notify(j, RowAttr(j), state[j])
      BY <1>4 DEF ProcessNotification, HandleRow
    <2>2. RowAttr(j) \in Attr /\ state[j] \in States
      BY RowTypesHold
    <2>3. CASE state[j] = Pending
      <3>1. Ready' = Ready \cup {j}
        BY <2>1, <2>2, <2>3, ReadyAfterRow
      <3>2. CASE j \in Ready
        BY <1>a, <2>1, <3>1, <3>2
      <3>3. CASE j \notin Ready
        <4>1. Rows!Notice(j)
          BY <2>1, <2>3, <3>1, <3>3, RowsUnchanged DEF Rows!Notice, Rows!Pending, Pending
        <4>. QED
          BY <4>1 DEF Rows!QjNext
      <3>. QED
        BY <3>2, <3>3
    <2>4. CASE state[j] # Pending
      <3>1. Ready' = Ready \/ Ready' = Ready \ {j}
        BY <2>1, <2>2, <2>4, ReadyAfterRow
      <3>2. Ready' = Ready \ {j} => Ready' = Ready \ ({j} \cap Ready)
        OBVIOUS
      <3>. QED
        BY <1>a, <1>b, <2>1, <3>1, <3>2
    <2>. QED
      BY <2>3, <2>4
  <1>5. CASE StepRunJobs
    <2>1. UNCHANGED dbState
      BY <1>5 DEF StepRunJobs
    <2>2. PICK c \in Channel : \/ Exhaust(c)
                               \/ c # Root /\ \E j \in queue[c] : LetThrough(c, j)
      BY <1>5 DEF StepRunJobs
    <2>3. UNCHANGED Ready
      BY <1>c, <2>2, ReadyAfterPass DEF Exhaust
    <2>. QED
      BY <1>a, <2>1, <2>3
  <1>6. ASSUME NEW j \in Job, RunJob(j)
        PROVE  [Rows!QjNext]_(Rows!qjVars)
    <2>1. j \in queue[Root] /\ Root \in Channel /\ LetThrough(Root, j)
      BY <1>6, TreeAssumption DEF RunJob, LetThrough, Pops, Due
    <2>2. j \in Ready /\ Ready' = Ready \ {j}
      BY <2>1, ReadyAfterPass
    <2>3. Jobs!Enqueue(j)
      BY <1>6, <2>2 DEF RunJob, Jobs!Enqueue
    <2>. QED
      BY <2>3, SameRunner DEF Rows!QjNext
  <1>7. CASE CloseDatabases
    <2>1. UNCHANGED dbState /\ Ready' = {}
      BY <1>7 DEF CloseDatabases, Close, RemoveDb, Ready
    <2>2. Ready' = Ready \ Ready
      BY <2>1
    <2>. QED
      BY <1>b, <2>1, <2>2
  <1>. QED
    BY <1>1, <1>2, <1>3, <1>4, <1>5, <1>6, <1>7, AbandonCloses DEF RunnerNext

LEMMA RnInvInit == RunnerInit => RnInv
  <1>1. RunnerInit => ChInv
    BY ChInvInit DEF RunnerInit
  <1>2. Rows!QjInit => Rows!QjInv
    BY RowsAreAssumed, Rows!QjInvInit
  <1>. QED
    BY <1>1, <1>2, InitMaps DEF RunnerInit, RnInv

LEMMA RnInvNext == RnInv /\ [RunnerNext]_vars => RnInv'
  <1>. SUFFICES ASSUME RnInv, [RunnerNext]_vars
                PROVE  RnInv'
    OBVIOUS
  <1>1. ChInv'
    BY StepOfChannels, ChInvNext DEF RnInv
  <1>2. Rows!QjInv'
    BY StepMaps, RowsAreAssumed, Rows!QjInvNext DEF RnInv
  <1>3. eta' \in [Job -> Nat]
    <2>1. CASE UNCHANGED eta
      BY <2>1 DEF RnInv
    <2>2. ASSUME NEW w \in Worker, PostponeJob(w)
          PROVE  eta' \in [Job -> Nat]
      <3>1. clock + Delay \in Nat
        BY RunnerAssumption DEF RnInv, ChInv, ChTypeOK
      <3>. QED
        BY <2>2, <3>1 DEF PostponeJob, RnInv
    <2>. QED
      BY <2>1, <2>2, AbandonCloses
      DEF RunnerNext, ServeJobs, RequeueDeadJobs, RunJob, InitializeDatabases,
          ProcessNotification, BeginRunJobs, StepRunJobs, WaitNotification, CloseDatabases, Time,
          vars, dbState
  <1>4. notes' \subseteq Job
    BY AbandonCloses
    DEF RnInv, vars, RunnerNext, ServeJobs, PostponeJob, RequeueDeadJobs, RunJob, Notifying,
       InitializeDatabases, ProcessNotification, BeginRunJobs, StepRunJobs, WaitNotification,
       CloseDatabases, Time
  <1>. QED
    BY <1>1, <1>2, <1>3, <1>4 DEF RnInv

LEMMA RnInvariant == RunnerSpec => []RnInv
  BY RnInvInit, RnInvNext, PTL DEF RunnerSpec

-----------------------------------------------------------------------------
(* Refinement *)

LEMMA RunnerRows == RunnerSpec => Rows!QjSpec
  BY InitMaps, StepMaps, RnInvariant, PTL DEF RunnerSpec, Rows!QjSpec

\* THEOREM: the runner and its channels implement QueueJob: the jobs they hold
\* as ready are the ones noticed, and each of their steps is one of its steps.
THEOREM RunnerImplements == RunnerSpec => ImplementsQueueJob
  <1>1. Rows!QjInit <=> Jobs!QjInit
    BY SameState
  <1>2. [Rows!QjNext]_(Rows!qjVars) <=> [Jobs!QjNext]_(Jobs!qjVars)
    BY SameNext
    DEF Jobs!qjVars, Rows!qjVars, Jobs!dbVars, Rows!dbVars, Jobs!rows, Rows!rows,
        Jobs!history, Rows!history
  <1>. QED
    BY <1>1, <1>2, RunnerRows, PTL DEF ImplementsQueueJob, Rows!QjSpec, Jobs!QjSpec

\* THEOREM: every variable of the runner, the rows and the transactions has its
\* type.
THEOREM RunnerTypeCorrect == RunnerSpec => []RunnerTypeOK
  <1>1. RnInv => RunnerTypeOK
    BY SameState DEF RnInv, ChInv, Rows!QjInv, RunnerTypeOK
  <1>. QED
    BY <1>1, RnInvariant, PTL

-----------------------------------------------------------------------------
(* Capacities *)

\* What a runner that is connected knows of a row, or is notified of: an active
\* job occupies its whole path, and is not waiting in a queue.
LeafKnown ==
  \A j \in Job : Nowhere(j, queue, running, failed) \/ info[j].channel = ChannelOf[j]

NoneReadyActive == \A j \in Ready : state[j] \notin Active

ActiveKnown ==
  \A j \in Job :
    phase # "down" /\ state[j] \in Active /\ (phase = "pass" \/ j \notin notes)
      => \A c \in Above[ChannelOf[j]] : j \in running[c]

\* The places taken in a channel: by the rows, or for the runner.
Taken(c) == running[c] \cup ActiveIn(c)

TakenFit == \A c \in Channel : Capacity[c] > 0 => Cardinality(Taken(c)) <= Capacity[c]

CapInv == LeafKnown /\ NoneReadyActive /\ ActiveKnown /\ TakenFit

LEMMA PlacesTyped ==
  ASSUME RnInv
  PROVE  /\ queue \in Placements /\ running \in Placements /\ failed \in Placements
         /\ ChTypeOK /\ FourPlaces /\ phase \in Phases
         /\ \A j \in Job : j \in Ready <=> \E c \in Channel : j \in queue[c]
  BY DEF RnInv, ChInv, ChTypeOK, Placements, Ready

\* What ProcessNotification makes of the job.
LEMMA RowEffect ==
  ASSUME RnInv, NoneReadyActive, NEW j \in Job, ProcessNotification(j)
  PROVE  /\ SameBut(j, queue, running, failed, queue', running', failed')
         /\ state[j] \in {Done, Cancelled} => Nowhere(j, queue', running', failed')
         /\ state[j] = Pending
              => OnItsWay(j, ChannelOf[j], ChannelOf[j], queue', running', failed')
         /\ state[j] \in Active => LetGo(j, ChannelOf[j], queue', running', failed')
         /\ state[j] = Failed => InLeaf(j, ChannelOf[j], queue', running', failed')
         /\ state[j] = WaitDependencies
              => \/ Nowhere(j, queue', running', failed')
                 \/ UNCHANGED <<queue, running, failed>>
  <1>. DEFINE l == ChannelOf[j]
              s == state[j]
  <1>1. /\ RowAttr(j) \in Attr /\ RowAttr(j).channel = l /\ s \in States
        /\ Notify(j, RowAttr(j), s) /\ l \in Channel
    BY RowTypesHold, RunnerAssumption DEF ProcessNotification, HandleRow, RowAttr
  <1>2. SameBut(j, queue, running, failed, queue', running', failed')
    BY <1>1, PlacesTyped, NotifyEffect
  <1>3. \/ /\ Arrives(j, l, s, queue, running, failed, queue', running', failed')
           /\ info[j] = RowAttr(j)
        \/ \E Q, R, F \in Placements :
             /\ Nowhere(j, Q, R, F)
             /\ Arrives(j, l, s, Q, R, F, queue', running', failed')
    BY <1>1, PlacesTyped, NotifyEffect
  <1>4. s \in {Done, Cancelled} => Nowhere(j, queue', running', failed')
    BY <1>3 DEF Arrives
  <1>5. s = Pending => OnItsWay(j, l, l, queue', running', failed')
    BY <1>3 DEF Arrives
  <1>6. s = Failed => InLeaf(j, l, queue', running', failed')
    BY <1>3 DEF Arrives
  <1>7. s = WaitDependencies
          => Nowhere(j, queue', running', failed') \/ UNCHANGED <<queue, running, failed>>
    BY <1>3 DEF Arrives, Nowhere
  <1>8. ASSUME s \in Active
        PROVE  LetGo(j, l, queue', running', failed')
    <2>1. ASSUME NEW Q, NEW R, NEW F, Nowhere(j, Q, R, F),
                 Arrives(j, l, s, Q, R, F, queue', running', failed')
          PROVE  LetGo(j, l, queue', running', failed')
      BY <1>1, <1>8, <2>1 DEF Arrives, Nowhere
    <2>2. ASSUME Arrives(j, l, s, queue, running, failed, queue', running', failed'),
                 info[j] = RowAttr(j)
          PROVE  LetGo(j, l, queue', running', failed')
      <3>1. InPlace(j, l, queue, running, failed)
        BY <1>1, <2>2, PlacesTyped DEF FourPlaces
      <3>2. \A c \in Channel : j \notin queue[c]
        BY <1>8, PlacesTyped DEF NoneReadyActive
      <3>3. CASE j \in running[l]
        <4>1. LetGo(j, l, queue, running, failed)
          BY <1>1, <3>1, <3>2, <3>3, AboveBasics DEF InPlace, Nowhere, InLeaf, OnItsWay
        <4>2. UNCHANGED <<queue, running, failed>>
          BY <1>8, <2>2, <3>3 DEF Arrives
        <4>. QED
          BY <4>1, <4>2
      <3>4. CASE j \notin running[l]
        BY <1>8, <2>2, <3>4 DEF Arrives
      <3>. QED
        BY <3>3, <3>4
    <2>. QED
      BY <1>3, <2>1, <2>2
  <1>. QED
    BY <1>2, <1>4, <1>5, <1>6, <1>7, <1>8

\* The places of a channel do not become more than its capacity allows when
\* nobody takes another one.
LEMMA TakenFewer ==
  ASSUME RnInv, NEW c \in Channel, NEW S, S \subseteq Taken(c), TakenFit, Capacity[c] > 0
  PROVE  Cardinality(S) <= Capacity[c]
  <1>1. Taken(c) \subseteq Job
    BY PlacesTyped DEF Taken, ActiveIn, Placements
  <1>2. IsFiniteSet(Taken(c)) /\ IsFiniteSet(S)
    BY <1>1, JobAssumption, FS_Subset
  <1>3. /\ Cardinality(S) <= Cardinality(Taken(c))
        /\ Cardinality(S) \in Nat /\ Cardinality(Taken(c)) \in Nat
    BY <1>2, FS_Subset, FS_CardinalityType
  <1>4. Capacity[c] \in Nat
    BY ConfigAssumption
  <1>. QED
    BY <1>3, <1>4 DEF TakenFit

\* Workers, users and the sweep.
LEMMA CapAfterRows ==
  ASSUME RnInv, CapInv, ServeJobs \/ (\E w \in Worker : PostponeJob(w)) \/ RequeueDeadJobs
  PROVE  CapInv'
  <1>1. /\ Rows!Database
        /\ UNCHANGED <<info, queue, running, failed, phase, Ready>>
    BY StepOfRows DEF chState, placement
  <1>2. \A j \in Job : state'[j] \in Active => state[j] \in Active
    <2>1. Rows!Active = Active
      BY DEF Rows!Active, Active, Rows!Enqueued, Enqueued, Rows!Started, Started
    <2>. QED
      BY <1>1, <2>1, RowsAreAssumed, Rows!NobodyActivates DEF RnInv, Rows!QjInv
  <1>3. \A j \in Job : phase # "down" /\ j \notin notes' => j \notin notes /\ state'[j] = state[j]
    BY DEF ServeJobs, PostponeJob, RequeueDeadJobs, Notifying
  <1>4. LeafKnown'
    BY <1>1 DEF CapInv, LeafKnown, Nowhere
  <1>5. NoneReadyActive'
    BY <1>1, <1>2 DEF CapInv, NoneReadyActive, Ready
  <1>6. ActiveKnown'
    BY <1>1, <1>2, <1>3 DEF CapInv, ActiveKnown
  <1>7. TakenFit'
    <2>1. ASSUME NEW c \in Channel
          PROVE  Taken(c)' \subseteq Taken(c)
      BY <1>1, <1>2 DEF Taken, ActiveIn
    <2>. QED
      BY <2>1, TakenFewer DEF CapInv, TakenFit
  <1>. QED
    BY <1>4, <1>5, <1>6, <1>7 DEF CapInv

\* A notification.
LEMMA CapAfterRow ==
  ASSUME RnInv, CapInv, NEW j \in Job, ProcessNotification(j)
  PROVE  CapInv'
  <1>. USE DEF CapInv
  <1>1. /\ SameBut(j, queue, running, failed, queue', running', failed')
        /\ state[j] \in Active => LetGo(j, ChannelOf[j], queue', running', failed')
        /\ UNCHANGED <<state, phase>> /\ notes' = notes \ {j} /\ phase = "listen"
    BY RowEffect DEF ProcessNotification, HandleRow, dbState
  <1>2. /\ RowAttr(j) \in Attr /\ RowAttr(j).channel = ChannelOf[j] /\ state[j] \in States
        /\ Notify(j, RowAttr(j), state[j]) /\ ChannelOf[j] \in Channel
    BY RowTypesHold, RunnerAssumption DEF ProcessNotification, HandleRow, RowAttr
  <1>3. info' = [info EXCEPT ![j] = IF Nowhere(j, queue, running, failed)'
                                    THEN Blank ELSE RowAttr(j)]
    BY <1>2, PlacesTyped, NotifyEffect
  <1>4. LeafKnown'
    <2>1. info \in [Job -> Attr]
      BY PlacesTyped DEF ChTypeOK
    <2>2. ASSUME NEW i \in Job, i # j
          PROVE  Nowhere(i, queue', running', failed') \/ info'[i].channel = ChannelOf[i]
      <3>1. info'[i] = info[i]
        BY <1>3, <2>1, <2>2
      <3>. QED
        BY <1>1, <2>2, <3>1 DEF LeafKnown, SameBut, Nowhere
    <2>3. Nowhere(j, queue', running', failed') \/ info'[j].channel = ChannelOf[j]
      BY <1>2, <1>3, <2>1
    <2>. QED
      BY <2>2, <2>3 DEF LeafKnown
  <1>5. NoneReadyActive'
    BY <1>1, <1>2, ReadyAfterRow DEF NoneReadyActive, Active, Pending, Enqueued, Started
  <1>6. ActiveKnown'
    <2>1. \A c \in Above[ChannelOf[j]] : state[j] \in Active => j \in running'[c]
      BY <1>1, <1>2, AboveBasics DEF LetGo
    <2>2. ASSUME NEW i \in Job, i # j
          PROVE  \A c \in Above[ChannelOf[i]] : i \in running'[c] <=> i \in running[c]
      BY <1>1, <2>2, RunnerAssumption, AboveBasics DEF SameBut
    <2>. QED
      BY <1>1, <2>1, <2>2 DEF ActiveKnown
  <1>7. TakenFit'
    <2>1. ASSUME NEW c \in Channel
          PROVE  Taken(c)' \subseteq Taken(c)
      <3>1. \A i \in Job \ {j} : i \in running'[c] <=> i \in running[c]
        BY <1>1 DEF SameBut
      <3>2. j \in running'[c] => j \in running[c] \/ (state[j] \in Active /\ c \in Above[ChannelOf[j]])
        <4>1. CASE state[j] \in Active
          BY <1>1, <4>1 DEF LetGo
        <4>2. CASE state[j] = Pending
          <5>1. OnItsWay(j, ChannelOf[j], ChannelOf[j], queue', running', failed')
            BY <4>2, RowEffect
          <5>. QED
            BY <1>2, <5>1, AboveAntisymmetric DEF OnItsWay
        <4>3. CASE state[j] \in {Done, Cancelled, Failed, WaitDependencies}
          BY <4>3, RowEffect DEF Nowhere, InLeaf
        <4>. QED
          BY <1>2, <4>1, <4>2, <4>3 DEF States, Active
      <3>3. running'[c] \subseteq Job
        BY <1>2, PlacesTyped, NotifyEffect DEF Placements
      <3>. QED
        BY <1>1, <3>1, <3>2, <3>3 DEF Taken, ActiveIn
    <2>. QED
      BY <2>1, TakenFewer DEF TakenFit
  <1>. QED
    BY <1>4, <1>5, <1>6, <1>7

\* A generator lets a job through; the job the root lets go becomes enqueued.
LEMMA CapAfterLetThrough ==
  ASSUME RnInv, CapInv, phase = "pass", NEW c \in Channel, NEW j \in queue[c], LetThrough(c, j),
         IF c = Root THEN state' = [state EXCEPT ![j] = Enqueued] ELSE UNCHANGED state
  PROVE  CapInv'
  <1>. USE DEF CapInv
  <1>1. /\ j \in Job /\ j \in Ready /\ failed' = failed
        /\ SameBut(j, queue, running, failed, queue', running', failed')
        /\ \A d \in Channel : j \in running'[d] <=> d = c \/ j \in running[d]
        /\ info' = Ripened(c, passNow)
    BY PlacesTyped, LetThroughEffect, ReadyAfterPass
  <1>2. /\ info[j].channel = ChannelOf[j] /\ ChannelOf[j] \in Channel
        /\ state \in [Job -> States]
    BY <1>1, RowTypesHold, RunnerAssumption DEF LeafKnown, Nowhere
  <1>3. /\ state'[j] \in Active => c = Root
        /\ \A i \in Job \ {j} : state'[i] = state[i]
    BY <1>1, <1>2 DEF NoneReadyActive
  <1>4. LeafKnown'
    <2>1. \A i \in Job : info'[i].channel = info[i].channel
      BY <1>1, PlacesTyped DEF Ripened, ChTypeOK, Attr
    <2>. QED
      BY <1>1, <1>2, <2>1 DEF LeafKnown, SameBut, Nowhere
  <1>5. NoneReadyActive'
    <2>1. \A i \in Ready' : i \in Ready /\ (c = Root => i # j)
      BY ReadyAfterPass
    <2>2. \A i \in Ready' : i \in Job
      BY DEF Ready
    <2>. QED
      BY <1>3, <2>1, <2>2 DEF NoneReadyActive
  <1>6. ASSUME NEW i \in Job, state'[i] \in Active, NEW d \in Above[ChannelOf[i]]
        PROVE  i \in running'[d]
    <2>1. d \in Channel
      BY <1>6, RunnerAssumption, AboveBasics
    <2>2. CASE i # j
      <3>1. i \in running[d]
        BY <1>3, <1>6, <2>2 DEF ActiveKnown
      <3>. QED
        BY <1>1, <1>6, <2>1, <2>2, <3>1 DEF SameBut
    <2>3. CASE i = j
      <3>1. LetGo(j, info[j].channel, queue', running', failed')
        BY <1>3, <1>6, <2>3, PlacesTyped, LetThroughPlaces
      <3>. QED
        BY <1>2, <1>6, <2>1, <2>3, <3>1 DEF LetGo
    <2>. QED
      BY <2>2, <2>3
  <1>7. ActiveKnown'
    BY <1>6 DEF ActiveKnown
  <1>8. TakenFit'
    <2>. SUFFICES ASSUME NEW d \in Channel, Capacity[d] > 0
                  PROVE  Cardinality(Taken(d)') <= Capacity[d]
      BY DEF TakenFit
    <2>1. Taken(d)' = running'[d]
      BY <1>6 DEF Taken, ActiveIn
    <2>2. CASE d = c
      BY <2>1, <2>2, PlacesTyped, LetThroughFits
    <2>3. CASE d # c
      <3>1. running'[d] = running[d]
        BY <2>3 DEF LetThrough, With
      <3>2. running[d] \subseteq Taken(d)
        BY DEF Taken
      <3>. QED
        BY <2>1, <3>1, <3>2, TakenFewer
    <2>. QED
      BY <2>2, <2>3
  <1>. QED
    BY <1>4, <1>5, <1>7, <1>8

\* The other steps of the runner.
LEMMA CapAfterOthers ==
  ASSUME RnInv, CapInv,
         \/ InitializeDatabases \/ BeginRunJobs \/ WaitNotification \/ CloseDatabases \/ Time
         \/ (\E c \in Channel : Exhaust(c)) /\ phase = "pass" /\ UNCHANGED <<dbState, notes>>
         \/ UNCHANGED vars
  PROVE  CapInv'
  <1>. USE DEF CapInv
  <1>1. UNCHANGED state
    BY DEF InitializeDatabases, BeginRunJobs, WaitNotification, CloseDatabases, Time, vars, dbState
  <1>2. CASE CloseDatabases
    <2>1. /\ phase' = "down"
          /\ queue' = [c \in Channel |-> {}] /\ running' = [c \in Channel |-> {}]
          /\ failed' = [c \in Channel |-> {}]
      BY <1>2 DEF CloseDatabases, Close, RemoveDb
    <2>2. LeafKnown' /\ NoneReadyActive' /\ ActiveKnown'
      BY <2>1 DEF LeafKnown, NoneReadyActive, ActiveKnown, Nowhere, Ready
    <2>3. \A c \in Channel : Taken(c)' \subseteq Taken(c)
      BY <1>1, <2>1 DEF Taken, ActiveIn
    <2>. QED
      BY <2>2, <2>3, TakenFewer DEF TakenFit
  <1>3. CASE ~CloseDatabases
    <2>1. UNCHANGED <<queue, running, failed>>
      BY <1>3
      DEF InitializeDatabases, BeginRunJobs, WaitNotification, Time, Open, RunJobs, BeginPass,
          WakeUp, Tick, placement, Exhaust, vars, chState
    <2>2. \A i \in Job : info'[i].channel = info[i].channel
      <3>1. UNCHANGED info \/ \E c \in Channel : info' = Ripened(c, passNow)
        BY <1>3
        DEF InitializeDatabases, BeginRunJobs, WaitNotification, Time, Open, RunJobs, BeginPass,
            WakeUp, Tick, placement, Exhaust, vars, chState
      <3>. QED
        BY <3>1, PlacesTyped DEF Ripened, ChTypeOK, Attr
    <2>3. LeafKnown' /\ NoneReadyActive'
      BY <1>1, <2>1, <2>2 DEF LeafKnown, NoneReadyActive, Nowhere, Ready
    <2>4. ActiveKnown'
      <3>1. CASE InitializeDatabases
        BY <1>1, <3>1, RowTypesHold
        DEF InitializeDatabases, Open, ActiveKnown, NotDone, Active
      <3>2. CASE ~InitializeDatabases
        <4>1. /\ phase' # "down" => phase # "down"
              /\ phase' = "pass" => phase = "pass" \/ notes = {}
              /\ UNCHANGED notes
          BY <1>3, <3>2
          DEF BeginRunJobs, WaitNotification, Time, RunJobs, WakeUp, Tick, vars, chState
        <4>. QED
          BY <1>1, <2>1, <4>1 DEF ActiveKnown
      <3>. QED
        BY <3>1, <3>2
    <2>5. \A c \in Channel : Taken(c)' \subseteq Taken(c)
      BY <1>1, <2>1 DEF Taken, ActiveIn
    <2>. QED
      BY <2>3, <2>4, <2>5, TakenFewer DEF TakenFit
  <1>. QED
    BY <1>2, <1>3

LEMMA CapInit == RunnerInit => CapInv
  <1>. SUFFICES ASSUME RunnerInit
                PROVE  CapInv
    OBVIOUS
  <1>1. \A c \in Channel : queue[c] = {} /\ running[c] = {} /\ failed[c] = {}
    BY DEF RunnerInit, ChInit
  <1>2. \A j \in Job : state[j] \notin Active
    BY DEF RunnerInit, Jobs!QjInit, Jobs!SetPending, Jobs!Pending, Jobs!WaitDependencies,
       Active, Enqueued, Started
  <1>3. \A c \in Channel : Taken(c) = {}
    BY <1>1, <1>2 DEF Taken, ActiveIn
  <1>4. TakenFit
    BY <1>3, FS_EmptySet, ConfigAssumption DEF TakenFit
  <1>. QED
    BY <1>1, <1>2, <1>4 DEF CapInv, LeafKnown, NoneReadyActive, ActiveKnown, Nowhere, Ready

LEMMA CapNext == RnInv /\ CapInv /\ [RunnerNext]_vars => CapInv'
  <1>. SUFFICES ASSUME RnInv, CapInv, [RunnerNext]_vars
                PROVE  CapInv'
    OBVIOUS
  <1>1. CASE StepRunJobs
    <2>1. PICK c \in Channel : Exhaust(c) \/ (c # Root /\ \E j \in queue[c] : LetThrough(c, j))
      BY <1>1 DEF StepRunJobs
    <2>2. phase = "pass" /\ UNCHANGED <<dbState, notes, state>>
      BY <1>1 DEF StepRunJobs, dbState
    <2>3. CASE Exhaust(c)
      <3>1. phase' \in {"pass", "asleep"}
        BY <1>1 DEF StepRunJobs, AfterStep
      <3>. QED
        BY <2>2, <2>3, CapAfterOthers
    <2>. QED
      BY <2>1, <2>2, <2>3, CapAfterLetThrough
  <1>2. ASSUME NEW j \in Job, RunJob(j)
        PROVE  CapInv'
    <2>1. /\ phase = "pass" /\ LetThrough(Root, j)
          /\ state' = [state EXCEPT ![j] = Enqueued]
      BY <1>2 DEF RunJob, Jobs!SetJobEnqueued, Jobs!Enqueued, Enqueued
    <2>2. Root \in Channel /\ j \in queue[Root]
      BY <2>1, TreeAssumption DEF LetThrough, Pops, Due
    <2>. QED
      BY <2>1, <2>2, CapAfterLetThrough
  <1>. QED
    BY <1>1, <1>2, CapAfterRows, CapAfterRow, CapAfterOthers, AbandonCloses DEF RunnerNext

LEMMA CapInvariant == RunnerSpec => []CapInv
  BY CapInit, CapNext, RnInvariant, PTL DEF RunnerSpec

\* THEOREM: never more jobs enqueued or started than the capacity of a channel,
\* for every tree, every number of jobs, workers, crashes, sweeps and restarts.
THEOREM CapacityKept == RunnerSpec => []CapacityRespected
  <1>1. RnInv /\ CapInv => CapacityRespected
    <2>1. \A c \in Channel : ActiveIn(c) \subseteq Taken(c)
      BY DEF Taken
    <2>. QED
      BY <2>1, TakenFewer DEF CapInv, CapacityRespected
  <1>. QED
    BY <1>1, RnInvariant, CapInvariant, PTL

-----------------------------------------------------------------------------
(* The copy of the runner and the rows *)

\* Where a row wants the job in the channels.
Agrees(j) ==
  LET l == ChannelOf[j] IN
  CASE state[j] = Pending -> \E q \in Above[l] : OnItsWay(j, l, q, queue, running, failed)
    [] state[j] \in Active -> LetGo(j, l, queue, running, failed)
    [] state[j] = Failed -> InLeaf(j, l, queue, running, failed)
    [] OTHER -> Nowhere(j, queue, running, failed)

\* A connected runner is notified of what it does not know; a runner that is
\* not has no jobs; a job that waits for its parents is in no channel.
SyncInv ==
  \A j \in Job :
    /\ phase # "down" /\ j \notin notes => Agrees(j)
    /\ phase = "down" \/ state[j] = WaitDependencies => Nowhere(j, queue, running, failed)

\* A step after which no row has gone back to waiting for its parents.
NoneWaitsAgain ==
  \A j \in Job : state[j] # WaitDependencies => state'[j] # WaitDependencies

\* A job whose state and places are the same is as it was.
LEMMA StillAgrees ==
  ASSUME NEW j \in Job, state'[j] = state[j],
         \A c \in Channel : /\ j \in queue'[c] <=> j \in queue[c]
                            /\ j \in running'[c] <=> j \in running[c]
                            /\ j \in failed'[c] <=> j \in failed[c]
  PROVE  /\ Agrees(j) => Agrees(j)'
         /\ Nowhere(j, queue, running, failed) => Nowhere(j, queue', running', failed')
  BY DEF Agrees, Nowhere, OnItsWay, LetGo, InLeaf

LEMMA SyncAfterRows ==
  ASSUME RnInv, SyncInv, NoneWaitsAgain,
         ServeJobs \/ (\E w \in Worker : PostponeJob(w)) \/ RequeueDeadJobs
  PROVE  SyncInv'
  <1>1. UNCHANGED <<queue, running, failed, phase>>
    BY StepOfRows DEF chState, placement
  <1>2. \A j \in Job : phase # "down" /\ j \notin notes' => j \notin notes /\ state'[j] = state[j]
    BY DEF ServeJobs, PostponeJob, RequeueDeadJobs, Notifying
  <1>3. ASSUME NEW j \in Job, phase # "down", j \notin notes'
        PROVE  Agrees(j)'
    BY <1>1, <1>2, <1>3, StillAgrees DEF SyncInv
  <1>4. ASSUME NEW j \in Job, phase = "down" \/ state'[j] = WaitDependencies
        PROVE  Nowhere(j, queue', running', failed')
    BY <1>1, <1>4 DEF SyncInv, NoneWaitsAgain
  <1>. QED
    BY <1>1, <1>3, <1>4 DEF SyncInv

LEMMA SyncAfterRow ==
  ASSUME RnInv, CapInv, SyncInv, NEW j \in Job, ProcessNotification(j)
  PROVE  SyncInv'
  <1>1. /\ SameBut(j, queue, running, failed, queue', running', failed')
        /\ UNCHANGED <<state, phase>> /\ notes' = notes \ {j} /\ phase = "listen"
    BY RowEffect DEF CapInv, ProcessNotification, HandleRow, dbState
  <1>2. ASSUME NEW i \in Job, i # j
        PROVE  /\ Agrees(i) => Agrees(i)'
               /\ Nowhere(i, queue, running, failed) => Nowhere(i, queue', running', failed')
    BY <1>1, <1>2, StillAgrees DEF SameBut
  <1>3. state[j] \in States /\ ChannelOf[j] \in Channel
    BY RowTypesHold, RunnerAssumption
  <1>4. state[j] = WaitDependencies => Nowhere(j, queue', running', failed')
    BY RowEffect DEF CapInv, SyncInv
  <1>5. Agrees(j)'
    <2>1. CASE state[j] = Pending
      BY <1>1, <1>3, <2>1, RowEffect, AboveBasics DEF CapInv, Agrees
    <2>2. CASE state[j] \in Active
      BY <1>1, <2>2, RowEffect DEF CapInv, Agrees, Active, Pending, Enqueued, Started
    <2>3. CASE state[j] = Failed
      BY <1>1, <2>3, RowEffect DEF CapInv, Agrees, Active, Pending, Enqueued, Started, Failed
    <2>4. CASE state[j] \in {Done, Cancelled, WaitDependencies}
      BY <1>1, <1>4, <2>4, RowEffect
      DEF CapInv, Agrees, Active, Pending, Enqueued, Started, Failed, Done, Cancelled,
          WaitDependencies
    <2>. QED
      BY <1>3, <2>1, <2>2, <2>3, <2>4 DEF States, Active
  <1>. QED
    BY <1>1, <1>2, <1>4, <1>5 DEF SyncInv

LEMMA SyncAfterLetThrough ==
  ASSUME RnInv, CapInv, SyncInv, phase = "pass",
         NEW c \in Channel, NEW j \in queue[c], LetThrough(c, j), phase' \in {"pass", "asleep"},
         IF c = Root
         THEN state' = [state EXCEPT ![j] = Enqueued] /\ Notifying
         ELSE UNCHANGED <<state, notes>>
  PROVE  SyncInv'
  <1>1. /\ j \in Job /\ j \in Ready
        /\ SameBut(j, queue, running, failed, queue', running', failed')
    BY PlacesTyped, LetThroughEffect, ReadyAfterPass
  <1>2. /\ state \in [Job -> States]
        /\ info[j].channel = ChannelOf[j]
    BY <1>1, RowTypesHold DEF CapInv, LeafKnown, Nowhere
  <1>3. ASSUME NEW i \in Job, i # j
        PROVE  /\ Agrees(i) => Agrees(i)'
               /\ Nowhere(i, queue, running, failed) => Nowhere(i, queue', running', failed')
               /\ state'[i] = state[i]
    <2>1. state'[i] = state[i]
      BY <1>2, <1>3
    <2>. QED
      BY <1>1, <1>3, <2>1, StillAgrees DEF SameBut
  <1>4. notes \subseteq notes'
    BY DEF Notifying
  <1>5. state'[j] # WaitDependencies
    <2>1. state[j] # WaitDependencies
      BY <1>1 DEF SyncInv, Nowhere
    <2>. QED
      BY <1>1, <1>2, <2>1 DEF Enqueued, WaitDependencies
  <1>6. ASSUME j \notin notes'
        PROVE  Agrees(j)'
    <2>1. CASE c = Root
      <3>1. state[j] # Enqueued
        BY <1>1 DEF CapInv, NoneReadyActive, Active
      <3>2. state'[j] = Enqueued
        BY <1>1, <1>2, <2>1
      <3>. QED
        BY <1>1, <1>6, <2>1, <3>1, <3>2 DEF Notifying
    <2>2. CASE c # Root
      <3>1. /\ Parent[c] \in Above[info[j].channel]
            /\ OnItsWay(j, info[j].channel, Parent[c], queue', running', failed')
        BY <2>2, PlacesTyped, LetThroughPlaces
      <3>2. state[j] = Pending
        <4>1. Agrees(j) /\ state[j] \in States
          BY <1>1, <1>2, <1>4, <1>6 DEF SyncInv
        <4>2. state[j] \notin Active
          BY <1>1 DEF CapInv, NoneReadyActive
        <4>3. ~Nowhere(j, queue, running, failed) /\ ~InLeaf(j, ChannelOf[j], queue, running, failed)
          BY DEF Nowhere, InLeaf
        <4>. QED
          BY <4>1, <4>2, <4>3 DEF Agrees, States, Active
      <3>3. state'[j] = Pending
        BY <2>2, <3>2
      <3>4. \E q \in Above[ChannelOf[j]] : OnItsWay(j, ChannelOf[j], q, queue', running', failed')
        BY <1>2, <3>1
      <3>. QED
        BY <3>3, <3>4 DEF Agrees, Active, Pending, Enqueued, Started, Failed
    <2>. QED
      BY <2>1, <2>2
  <1>. QED
    BY <1>3, <1>4, <1>5, <1>6 DEF SyncInv

LEMMA SyncAfterOthers ==
  ASSUME RnInv, SyncInv,
         \/ InitializeDatabases \/ BeginRunJobs \/ WaitNotification \/ CloseDatabases \/ Time
         \/ /\ (\E c \in Channel : Exhaust(c)) /\ phase = "pass"
            /\ phase' \in {"pass", "asleep"} /\ UNCHANGED <<dbState, notes>>
         \/ UNCHANGED vars
  PROVE  SyncInv'
  <1>1. UNCHANGED state
    BY DEF InitializeDatabases, BeginRunJobs, WaitNotification, CloseDatabases, Time, vars, dbState
  <1>2. CASE CloseDatabases
    <2>1. /\ phase' = "down"
          /\ queue' = [c \in Channel |-> {}] /\ running' = [c \in Channel |-> {}]
          /\ failed' = [c \in Channel |-> {}]
      BY <1>2 DEF CloseDatabases, Close, RemoveDb
    <2>. QED
      BY <2>1 DEF SyncInv, Nowhere
  <1>3. CASE ~CloseDatabases
    <2>1. UNCHANGED <<queue, running, failed>>
      BY <1>3
      DEF InitializeDatabases, BeginRunJobs, WaitNotification, Time, Open, RunJobs, BeginPass,
          WakeUp, Tick, placement, Exhaust, vars, chState
    <2>2. ASSUME NEW j \in Job
          PROVE  /\ Agrees(j) => Agrees(j)'
                 /\ Nowhere(j, queue, running, failed) => Nowhere(j, queue', running', failed')
      BY <1>1, <2>1, StillAgrees
    <2>3. CASE InitializeDatabases
      <3>1. phase = "down" /\ phase' = "listen" /\ notes' = {j \in Job : state[j] \in NotDone}
        BY <2>3 DEF InitializeDatabases, Open
      <3>2. ASSUME NEW j \in Job, j \notin notes'
            PROVE  Agrees(j)
        <4>1. state[j] \in States /\ state[j] \notin NotDone
          BY <1>1, <3>1, <3>2, RowTypesHold
        <4>2. state[j] \in {Done, Cancelled} /\ Nowhere(j, queue, running, failed)
          BY <3>1, <4>1 DEF States, NotDone, SyncInv
        <4>. QED
          BY <4>2 DEF Agrees, Active, Pending, Enqueued, Started, Failed, Done, Cancelled
      <3>. QED
        BY <1>1, <2>2, <3>1, <3>2 DEF SyncInv
    <2>4. CASE ~InitializeDatabases
      <3>1. /\ phase' = "down" <=> phase = "down"
            /\ UNCHANGED notes
        BY <1>3, <2>4
        DEF BeginRunJobs, WaitNotification, Time, RunJobs, WakeUp, Tick, vars, chState
      <3>. QED
        BY <1>1, <2>2, <3>1 DEF SyncInv
    <2>. QED
      BY <2>3, <2>4
  <1>. QED
    BY <1>2, <1>3

LEMMA SyncInit == RunnerInit => SyncInv
  BY DEF RunnerInit, ChInit, SyncInv, Nowhere

LEMMA SyncNext == RnInv /\ CapInv /\ SyncInv /\ [RunnerNext /\ NoneWaitsAgain]_vars => SyncInv'
  <1>. SUFFICES ASSUME RnInv, CapInv, SyncInv, [RunnerNext /\ NoneWaitsAgain]_vars
                PROVE  SyncInv'
    OBVIOUS
  <1>1. CASE StepRunJobs
    <2>1. PICK c \in Channel : Exhaust(c) \/ (c # Root /\ \E j \in queue[c] : LetThrough(c, j))
      BY <1>1 DEF StepRunJobs
    <2>2. /\ phase = "pass" /\ UNCHANGED <<dbState, notes, state>>
          /\ phase' \in {"pass", "asleep"}
      BY <1>1 DEF StepRunJobs, AfterStep, dbState
    <2>. QED
      BY <2>1, <2>2, SyncAfterOthers, SyncAfterLetThrough
  <1>2. ASSUME NEW j \in Job, RunJob(j)
        PROVE  SyncInv'
    <2>1. /\ phase = "pass" /\ LetThrough(Root, j) /\ Notifying
          /\ phase' \in {"pass", "asleep"}
          /\ state' = [state EXCEPT ![j] = Enqueued]
      BY <1>2 DEF RunJob, AfterStep, Jobs!SetJobEnqueued, Jobs!Enqueued, Enqueued
    <2>2. Root \in Channel /\ j \in queue[Root]
      BY <2>1, TreeAssumption DEF LetThrough, Pops, Due
    <2>. QED
      BY <2>1, <2>2, SyncAfterLetThrough
  <1>3. CASE ServeJobs \/ (\E w \in Worker : PostponeJob(w)) \/ RequeueDeadJobs
    <2>1. CASE UNCHANGED vars
      BY <2>1, SyncAfterOthers
    <2>2. CASE NoneWaitsAgain
      BY <1>3, <2>2, SyncAfterRows
    <2>. QED
      BY <2>1, <2>2
  <1>. QED
    BY <1>1, <1>2, <1>3, SyncAfterRow, SyncAfterOthers, AbandonCloses DEF RunnerNext

\* An idle runner that agrees with the rows is in sync.
LEMMA AgreesIsSync == RnInv /\ SyncInv => InSync
  <1>. SUFFICES ASSUME RnInv, SyncInv, phase \in {"listen", "asleep"}, notes = {},
                       NEW j \in Job
                PROVE  /\ state[j] = Pending <=> j \in Ready
                       /\ state[j] \in Active <=> \A c \in Above[ChannelOf[j]] : j \in running[c]
                       /\ state[j] = Failed <=> j \in failed[ChannelOf[j]]
    BY DEF InSync
  <1>. DEFINE l == ChannelOf[j]
  <1>1. /\ Agrees(j) /\ l \in Channel /\ l \in Above[l] /\ Above[l] \subseteq Channel
        /\ j \in Ready <=> \E c \in Channel : j \in queue[c]
    BY PlacesTyped, RunnerAssumption, AboveBasics DEF SyncInv
  <1>. USE DEF Active, Pending, Enqueued, Started, Failed
  <1>2. CASE state[j] = Pending
    <2>1. PICK q \in Above[l] : OnItsWay(j, l, q, queue, running, failed)
      BY <1>1, <1>2 DEF Agrees
    <2>2. /\ q \in Channel /\ j \in queue[q] /\ j \notin running[q]
          /\ \A c \in Channel : j \notin failed[c]
      BY <1>1, <2>1 DEF OnItsWay
    <2>. QED
      BY <1>1, <1>2, <2>2
  <1>3. CASE state[j] \in Active
    <2>1. LetGo(j, l, queue, running, failed)
      BY <1>1, <1>3 DEF Agrees
    <2>. QED
      BY <1>1, <1>3, <2>1 DEF LetGo
  <1>4. CASE state[j] = Failed
    <2>1. InLeaf(j, l, queue, running, failed)
      BY <1>1, <1>4 DEF Agrees
    <2>. QED
      BY <1>1, <1>4, <2>1 DEF InLeaf
  <1>5. CASE state[j] \notin {Pending, Failed} \cup Active
    <2>1. Nowhere(j, queue, running, failed)
      BY <1>1, <1>5 DEF Agrees
    <2>. QED
      BY <1>1, <1>5, <2>1 DEF Nowhere
  <1>. QED
    BY <1>2, <1>3, <1>4, <1>5

\* THEOREM: so long as no job goes back to waiting for its parents, a runner with
\* nothing left to process agrees with the rows, whatever came between.
THEOREM CopyInSync == RunnerSpec /\ [][NoneWaitsAgain]_vars => []InSync
  <1>1. [RunnerNext]_vars /\ [NoneWaitsAgain]_vars => [RunnerNext /\ NoneWaitsAgain]_vars
    OBVIOUS
  <1>. QED
    BY <1>1, SyncInit, SyncNext, AgreesIsSync, RnInvariant, CapInvariant, PTL DEF RunnerSpec

-----------------------------------------------------------------------------
(* When users only cancel, and no live worker is taken for dead *)

\* Then the rows keep apart the workers that have a Job object.
LEMMA RowsAlone ==
  ASSUME Rows!Alone
  PROVE  RunnerSpec => []Rows!AloneInv
  BY RowsAreAssumed, RunnerRows, Rows!AloneInvariant, PTL

\* THEOREM: then no job goes back to waiting for its parents, and a runner with
\* nothing left to process agrees with the rows.
THEOREM CopyInSyncAlone == ASSUME Rows!Alone PROVE RunnerSpec => []InSync
  <1>1. ASSUME RnInv, Rows!AloneInv, [RunnerNext]_vars
        PROVE  [NoneWaitsAgain]_vars
    <2>1. CASE ServeJobs \/ (\E w \in Worker : PostponeJob(w)) \/ RequeueDeadJobs
      BY <1>1, <2>1, StepOfRows, RowsAreAssumed, Rows!NobodyWaitsAgain
      DEF NoneWaitsAgain, Rows!WaitDependencies, WaitDependencies
    <2>2. ASSUME NEW j \in Job, RunJob(j)
          PROVE  NoneWaitsAgain
      BY <1>1, <2>2, RowTypesHold
      DEF RunJob, Jobs!SetJobEnqueued, Jobs!Enqueued, NoneWaitsAgain, WaitDependencies
    <2>3. CASE UNCHANGED dbState
      BY <2>3 DEF dbState, NoneWaitsAgain
    <2>. QED
      BY <1>1, <2>1, <2>2, <2>3, StepOfRunner
  <1>. QED
    BY <1>1, RnInvariant, RowsAlone, CopyInSync, PTL DEF RunnerSpec

\* THEOREM: then the workers that have a Job object whose row they will write
\* keep to the capacities as well.
THEOREM PerformersKept == ASSUME Rows!Alone PROVE RunnerSpec => []PerformersWithinCapacity
  <1>1. ASSUME RnInv, CapInv, Rows!AloneInv, NEW c \in Channel, Capacity[c] > 0
        PROVE  Cardinality({w \in Worker : /\ tx[w].at \in Jobs!Holding
                                           /\ c \in Above[ChannelOf[tx[w].job]]}) <= Capacity[c]
    <2>. DEFINE W == {w \in Worker : /\ tx[w].at \in Jobs!Holding
                                     /\ c \in Above[ChannelOf[tx[w].job]]}
                f == [w \in W |-> tx[w].job]
    <2>1. ASSUME NEW w \in W
          PROVE  tx[w].job \in ActiveIn(c)
      <3>1. tx[w].job \in Job
        BY <1>1 DEF Rows!AloneInv, Rows!QjInv, Rows!QjTypeOK, Rows!Actor, Rows!Tx
      <3>2. state[tx[w].job] = Started
        BY <1>1
        DEF Rows!AloneInv, Rows!Holder, Rows!Holding, Jobs!Holding, Rows!Started, Started
      <3>. QED
        BY <3>1, <3>2 DEF ActiveIn, Active
    <2>2. \A v, w \in W : tx[v].job = tx[w].job => v = w
      BY <1>1 DEF Rows!AloneInv, Rows!Apart, Rows!Holding, Jobs!Holding
    <2>3. f \in Injection(W, ActiveIn(c))
      BY <2>1, <2>2 DEF Injection, IsInjective
    <2>. HIDE DEF W, f
    <2>4. ActiveIn(c) \subseteq Taken(c) /\ ActiveIn(c) \subseteq Job
      BY DEF Taken, ActiveIn
    <2>5. Cardinality(ActiveIn(c)) <= Capacity[c]
      BY <1>1, <2>4, TakenFewer DEF CapInv
    <2>6. IsFiniteSet(ActiveIn(c)) /\ Cardinality(ActiveIn(c)) \in Nat /\ Capacity[c] \in Nat
      BY <2>4, JobAssumption, ConfigAssumption, FS_Subset, FS_CardinalityType
    <2>7. IsFiniteSet(W) /\ Cardinality(W) <= Cardinality(ActiveIn(c))
      BY <2>3, <2>6, FS_Injection
    <2>8. Cardinality(W) \in Nat
      BY <2>7, FS_CardinalityType
    <2>. QED
      BY <2>5, <2>6, <2>7, <2>8 DEF W
  <1>2. RnInv /\ CapInv /\ Rows!AloneInv => PerformersWithinCapacity
    BY <1>1 DEF PerformersWithinCapacity
  <1>. QED
    BY <1>2, RnInvariant, CapInvariant, RowsAlone, PTL

-----------------------------------------------------------------------------
(* What is proved about the rows holds with the runner *)

\* THEOREM: with the tree, the notifications and the restarts of the runner
\* too, work is committed on started rows only.
THEOREM RowsGuarded == RunnerSpec => Rows!CommitsOnlyStarted
  BY RowsAreAssumed, RunnerRows, Rows!OnlyStartedCommitted, PTL

\* THEOREM: when users only cancel and no live worker is taken for dead, each
\* job has one owner, waits for its parents, is committed once and is tried a
\* bounded number of times, whatever the runner lets through and however often it starts over.
THEOREM RowsOwnedOnce ==
  ASSUME Rows!Alone
  PROVE  RunnerSpec => [](/\ Rows!SingleOwner /\ Rows!CommittedOnce
                          /\ Rows!ReleasedWhenDone /\ Rows!AttemptsBounded)
  BY RowsAreAssumed, RunnerRows, Rows!HolderIsSole, Rows!WorkCommittedOnce,
     Rows!ChildrenReleasedWhenDone, Rows!AttemptsAreBounded, PTL

\* THEOREM: then the rows live as JobLife says also with the whole runner: what
\* it reads, keeps, forgets and enqueues late never queues an ended job again.
THEOREM RowsLiveWithRunner ==
  ASSUME Rows!Alone
  PROVE  RunnerSpec => Rows!ImplementsJobLife
  BY RowsAreAssumed, RunnerRows, Rows!RowsLiveOn, PTL
=============================================================================
