--------------------------- MODULE QueueJobProofs ---------------------------
(* Proofs about the transactions on queue.job. *)
EXTENDS QueueJob, FiniteSetTheorems, TLAPS

(***************************************************************************)
(* Types                                                                   *)
(***************************************************************************)

\* The record a transaction is reset to is a transaction.
LEMMA IdleTxType == IdleTx \in Tx
  BY QueueJobAssumption DEF IdleTx, Tx, Steps

\* Marking snapshots as stale changes nothing else of the transactions.
LEMMA CommittedType ==
  ASSUME NEW T \in [Actor -> Tx], NEW S
  PROVE  /\ Committed(T, S) \in [Actor -> Tx]
         /\ \A a \in Actor :
              /\ Committed(T, S)[a].at = T[a].at
              /\ Committed(T, S)[a].job = T[a].job
              /\ Committed(T, S)[a].retry = T[a].retry
              /\ Committed(T, S)[a].ready = T[a].ready
              /\ Committed(T, S)[a].locked = T[a].locked
              /\ Committed(T, S)[a].wake = T[a].wake
              /\ Committed(T, S)[a].fresh <=> T[a].fresh /\ Watched(T[a]) \cap S = {}
  <1>1. ASSUME NEW a \in Actor
        PROVE  /\ Committed(T, S)[a] = [T[a] EXCEPT !.fresh = T[a].fresh /\ Watched(T[a]) \cap S = {}]
               /\ Committed(T, S)[a] \in Tx
    <2>1. T[a] \in Tx
      OBVIOUS
    <2>2. (T[a].fresh /\ Watched(T[a]) \cap S = {}) \in BOOLEAN
      BY <2>1 DEF Tx
    <2> QED
      BY <2>1, <2>2 DEF Committed, Tx
  <1>2. Committed(T, S) = [a \in Actor |-> Committed(T, S)[a]]
    BY DEF Committed
  <1> QED
    BY <1>1, <1>2 DEF Tx

\* The initial rows and transactions have their types.
LEMMA TypeInit == QjInit => QjTypeOK
  <1> USE QueueJobAssumption
  <1> SUFFICES ASSUME QjInit PROVE QjTypeOK
    OBVIOUS
  <1>1. \A b \in BOOLEAN : SetPending(b) \in States
    BY DEF SetPending, States
  <1>2. state \in [Job -> States]
    BY <1>1 DEF QjInit
  <1>3. tx \in [Actor -> Tx]
    BY IdleTxType DEF QjInit
  <1> QED
    BY <1>2, <1>3 DEF QjInit, QjTypeOK

\* The updates of the record of a transaction that its steps make.
LEMMA TxUpdates ==
  ASSUME NEW t \in Tx, NEW a \in Steps, NEW b \in BOOLEAN, NEW r \in Nat, NEW k \in SUBSET Job
  PROVE  /\ [t EXCEPT !.at = a] \in Tx
         /\ [t EXCEPT !.at = a, !.locked = b] \in Tx
         /\ [t EXCEPT !.fresh = b, !.at = a] \in Tx
         /\ [t EXCEPT !.at = a, !.locked = b, !.retry = r] \in Tx
         /\ [t EXCEPT !.at = a, !.retry = r] \in Tx
         /\ [t EXCEPT !.at = a, !.fresh = b, !.wake = k] \in Tx
  <1>1. [t EXCEPT !.at = a] \in Tx /\ [t EXCEPT !.at = a, !.locked = b] \in Tx
    BY DEF Tx
  <1>2. [t EXCEPT !.fresh = b, !.at = a] \in Tx
    BY DEF Tx
  <1>3. [t EXCEPT !.at = a, !.locked = b, !.retry = r] \in Tx
    BY DEF Tx
  <1>4. [t EXCEPT !.at = a, !.retry = r] \in Tx
    BY DEF Tx
  <1>5. [t EXCEPT !.at = a, !.fresh = b, !.wake = k] \in Tx
    BY DEF Tx
  <1> QED
    BY <1>1, <1>2, <1>3, <1>4, <1>5

\* perform counts the try before the method can give it back (ignore_retry).
TryCounted == \A w \in Worker : tx[w].at = "performing" => tx[w].retry > 0

\* Every step keeps the types.
LEMMA TypeNext ==
  ASSUME QjTypeOK, TryCounted, [QjNext]_qjVars
  PROVE  QjTypeOK'
  <1> USE QueueJobAssumption
  <1> USE DEF QjTypeOK
  <1>a. \A w \in Worker : w \in Actor /\ tx[w] \in Tx
    BY DEF Actor
  <1>b. Admin \in Actor /\ tx[Admin] \in Tx
    BY DEF Actor
  <1>c. /\ Pending \in States /\ Enqueued \in States /\ Started \in States
        /\ Done \in States /\ Cancelled \in States /\ Failed \in States
        /\ \A b : SetPending(b) \in States
    BY DEF States, SetPending
  <1>d. \A w \in Actor : [tx EXCEPT ![w] = IdleTx] \in [Actor -> Tx]
    BY IdleTxType
  <1>e. \A w \in Actor, t \in Tx : [tx EXCEPT ![w] = t] \in [Actor -> Tx]
    OBVIOUS
  <1>f. {"locking", "performing", "postpone", "fail", "done", "release"} \subseteq Steps
    BY DEF Steps
  <1>1. CASE UNCHANGED qjVars
    BY <1>1 DEF qjVars, dbVars, rows, history
  <1>2. ASSUME NEW w \in Worker, NEW j \in Job, StartJob(w, j), UNCHANGED noticed
        PROVE  QjTypeOK'
    <2> DEFINE t == [at |-> "started", job |-> j, retry |-> retry[j], ready |-> ParentsDone(j),
                     locked |-> FALSE, fresh |-> TRUE, wake |-> {}]
    <2>1. ParentsDone(j) \in BOOLEAN
      BY DEF ParentsDone
    <2>2. t \in Tx
      BY <2>1 DEF Tx, Steps
    <2>3. [tx EXCEPT ![w] = t] \in [Actor -> Tx]
      BY <1>a, <2>2
    <2>4. tx' = Committed([tx EXCEPT ![w] = t], {j})
      BY <1>2 DEF StartJob
    <2>5. tx' \in [Actor -> Tx]
      BY <2>3, <2>4, CommittedType
    <2>6. state' \in [Job -> States] /\ requests' \in [Job -> Nat] /\ runs' \in [Job -> Nat]
      BY <1>2, <1>c DEF StartJob
    <2>7. lockRow' \subseteq Job
      BY <1>2 DEF StartJob
    <2> QED
      BY <1>2, <2>5, <2>6, <2>7 DEF StartJob
  <1>3. ASSUME NEW j \in Job, RefuseJob(j) \/ LoseRequest(j), UNCHANGED noticed
        PROVE  QjTypeOK'
    BY <1>3 DEF RefuseJob, LoseRequest, rows, history
  <1>4. ASSUME NEW w \in Worker, TryLock(w), UNCHANGED noticed
        PROVE  QjTypeOK'
    <2>1. \A x \in {"locking", "postpone"} :
             [tx[w] EXCEPT !.fresh = TRUE, !.at = x] \in Tx
      BY <1>a, <1>f, TxUpdates
    <2>2. tx' \in [Actor -> Tx]
      BY <1>4, <1>a, <1>e, <2>1 DEF TryLock, Performing, Continue
    <2> QED
      BY <1>4, <2>2 DEF TryLock, rows, history
  <1>5. ASSUME NEW w \in Worker, Lock(w), UNCHANGED noticed
        PROVE  QjTypeOK'
    <2>0. tx[w].retry + 1 \in Nat
      BY <1>a DEF Tx
    <2>1. [tx[w] EXCEPT !.at = "performing", !.locked = TRUE, !.retry = tx[w].retry + 1] \in Tx
      BY <1>a, <1>f, TxUpdates, <2>0
    <2>2. tx' \in [Actor -> Tx]
      BY <1>5, <1>a, <1>e, <2>1 DEF Lock, Performing, Continue
    <2> QED
      BY <1>5, <2>2 DEF Lock, rows, history
  <1>6. ASSUME NEW w \in Worker, RaiseRetryable(w), UNCHANGED noticed
        PROVE  QjTypeOK'
    <2>1. \A x \in {"fail", "postpone"} : [tx[w] EXCEPT !.at = x] \in Tx
      BY <1>a, <1>f, TxUpdates
    <2>2. tx' \in [Actor -> Tx]
      BY <1>6, <1>a, <1>e, <2>1 DEF RaiseRetryable, Performing, Continue
    <2> QED
      BY <1>6, <2>2 DEF RaiseRetryable, rows, history
  <1>7. ASSUME NEW w \in Worker, RaiseConflict(w), UNCHANGED noticed
        PROVE  QjTypeOK'
    <2>1. [tx[w] EXCEPT !.at = "postpone", !.locked = FALSE] \in Tx
      BY <1>a, <1>f, TxUpdates
    <2>2. tx' \in [Actor -> Tx]
      BY <1>7, <1>a, <1>e, <2>1 DEF RaiseConflict, Performing, Continue
    <2> QED
      BY <1>7, <2>2 DEF RaiseConflict, rows, history
  <1>8. ASSUME NEW w \in Worker, RaiseOther(w), UNCHANGED noticed
        PROVE  QjTypeOK'
    <2>1. \A b \in BOOLEAN : [tx[w] EXCEPT !.at = "fail", !.locked = b] \in Tx
      BY <1>a, <1>f, TxUpdates
    <2>2. tx' \in [Actor -> Tx]
      <3>1. PICK b \in BOOLEAN : tx' = [tx EXCEPT ![w] = [tx[w] EXCEPT !.at = "fail", !.locked = b]]
        BY <1>8 DEF RaiseOther, Continue
      <3> DEFINE t == [tx[w] EXCEPT !.at = "fail", !.locked = b]
      <3>2. t \in Tx
        BY <2>1
      <3>3. tx' = [tx EXCEPT ![w] = t]
        BY <3>1
      <3> HIDE DEF t
      <3> QED
        BY <3>2, <3>3, <1>a, <1>e
    <2> QED
      BY <1>8, <2>2 DEF RaiseOther, rows, history
  <1>9. ASSUME NEW w \in Worker, RaiseIgnored(w), UNCHANGED noticed
        PROVE  QjTypeOK'
    <2>0. tx[w].retry - 1 \in Nat
      BY <1>9, <1>a DEF TryCounted, RaiseIgnored, Performing, Tx
    <2>1. [tx[w] EXCEPT !.at = "postpone", !.retry = tx[w].retry - 1] \in Tx
      BY <1>a, <1>f, TxUpdates, <2>0
    <2>2. tx' \in [Actor -> Tx]
      BY <1>9, <1>a, <1>e, <2>1 DEF RaiseIgnored, Performing, Continue
    <2> QED
      BY <1>9, <2>2 DEF RaiseIgnored, rows, history
  <1>10. ASSUME NEW w \in Worker, SelectDependents(w), UNCHANGED noticed
        PROVE  QjTypeOK'
    <2>1. \A x \in SUBSET Job :
             [tx[w] EXCEPT !.at = "release", !.fresh = TRUE, !.wake = x] \in Tx
      BY <1>a, <1>f, TxUpdates
    <2>2. tx' \in [Actor -> Tx]
      <3>1. {c \in Dependents(tx[w].job, Done) : state[tx[w].job] = Done} \in SUBSET Job
        BY DEF Dependents, Children
      <3> QED
        BY <1>10, <1>a, <1>e, <2>1, <3>1 DEF SelectDependents, Continue
    <2> QED
      BY <1>10, <2>2 DEF SelectDependents, rows, history
  <1>11. ASSUME NEW w \in Worker, CommitDone(w), UNCHANGED noticed
         PROVE  QjTypeOK'
    <2>1. [tx[w] EXCEPT !.at = "done", !.locked = FALSE] \in Tx
      BY <1>a, ZenonT(40) DEF Tx, Steps
    <2>2. tx' \in [Actor -> Tx]
      <3> DEFINE T == [tx EXCEPT ![w] = [tx[w] EXCEPT !.at = "done", !.locked = FALSE]]
      <3>1. T \in [Actor -> Tx]
        BY <1>a, <1>e, <2>1
      <3>2. tx' = Committed(T, {tx[w].job})
        BY <1>11 DEF CommitDone
      <3> HIDE DEF T
      <3> QED
        BY <3>1, <3>2, CommittedType
    <2>3. tx[w].job \in Job /\ tx[w].retry \in Nat
      BY <1>a DEF Tx
    <2>4. /\ state' \in [Job -> States] /\ retry' \in [Job -> Nat] /\ commits' \in [Job -> Nat]
      BY <1>11, <1>c, <2>3 DEF CommitDone
    <2> QED
      BY <1>11, <2>2, <2>4 DEF CommitDone
  <1>12. ASSUME NEW w \in Worker, Return(w) \/ NothingToDo(w), UNCHANGED noticed
         PROVE  QjTypeOK'
    <2>1. CASE CommitDone(w)
      BY <1>11, <1>12, <2>1
    <2>2. CASE ~CommitDone(w)
      <3>1. [tx[w] EXCEPT !.at = "postpone", !.locked = FALSE] \in Tx
        BY <1>a, ZenonT(40) DEF Tx, Steps
      <3>2. tx' \in [Actor -> Tx]
        BY <1>12, <2>2, <1>a, <1>d, <1>e, <3>1 DEF Return, NothingToDo, Continue
      <3> QED
        BY <1>12, <2>2, <3>2 DEF Return, NothingToDo, rows, history
    <2> QED
      BY <2>1, <2>2
  <1>13. ASSUME NEW w \in Worker, Postpone(w) \/ Fail(w), UNCHANGED noticed
         PROVE  QjTypeOK'
    <2>1. PICK s \in States : StoreAndLeave(w, s)
      BY <1>13, <1>c DEF Postpone, Fail
    <2>2. tx' \in [Actor -> Tx]
      <3> DEFINE T == [tx EXCEPT ![w] = IdleTx]
      <3>1. T \in [Actor -> Tx]
        BY <1>a, <1>d
      <3>2. tx' = Committed(T, {tx[w].job})
        BY <2>1 DEF StoreAndLeave
      <3> HIDE DEF T
      <3> QED
        BY <3>1, <3>2, CommittedType
    <2>3. tx[w].job \in Job /\ tx[w].retry \in Nat
      BY <1>a DEF Tx
    <2>4. state' \in [Job -> States] /\ retry' \in [Job -> Nat]
      BY <2>1, <2>3 DEF StoreAndLeave
    <2> QED
      BY <1>13, <2>1, <2>2, <2>4 DEF StoreAndLeave, history
  <1>14. ASSUME NEW w \in Worker, EnqueueWaiting(w), UNCHANGED noticed
         PROVE  QjTypeOK'
    <2>1. tx' \in [Actor -> Tx]
      <3> DEFINE T == [tx EXCEPT ![w] = IdleTx]
      <3>1. T \in [Actor -> Tx]
        BY <1>a, <1>d
      <3>2. tx' = Committed(T, IF tx[w].fresh THEN tx[w].wake ELSE {})
        BY <1>14 DEF EnqueueWaiting
      <3> HIDE DEF T
      <3> QED
        BY <3>1, <3>2, CommittedType
    <2>2. state' \in [Job -> States]
      BY <1>14, <1>c DEF EnqueueWaiting
    <2> QED
      BY <1>14, <2>1, <2>2 DEF EnqueueWaiting, history
  <1>15. ASSUME NEW w \in Worker, Crash(w), UNCHANGED noticed
         PROVE  QjTypeOK'
    BY <1>15, <1>a, <1>d DEF Crash, rows
  <1>16. ASSUME NEW op \in Buttons, NEW j \in Job, Press(op, j), UNCHANGED noticed
         PROVE  QjTypeOK'
    <2> DEFINE r == IF op = "set_pending" THEN 0 ELSE retry[j]
               k == CASE op = "set_done" -> Dependents(j, Done)
                      [] op = "set_cancelled" -> Dependents(j, Cancelled)
                      [] OTHER -> {}
               t == [at |-> op, job |-> j, retry |-> r, ready |-> ParentsDone(j),
                     locked |-> FALSE, fresh |-> TRUE, wake |-> k]
    <2>1. ParentsDone(j) \in BOOLEAN /\ r \in Nat /\ op \in Steps
      BY DEF ParentsDone, Steps
    <2>2. k \in SUBSET Job
      BY DEF Dependents, Children
    <2>3. t \in Tx
      BY <2>1, <2>2 DEF Tx
    <2>4. tx' = [tx EXCEPT ![Admin] = t]
      BY <1>16 DEF Press
    <2>5. tx' \in [Actor -> Tx]
      BY <2>3, <2>4, <1>b, <1>e
    <2> QED
      BY <1>16, <2>5 DEF Press, rows
  <1>17. ASSUME CommitPress, UNCHANGED noticed
         PROVE  QjTypeOK'
    <2>1. tx' \in [Actor -> Tx]
      <3> DEFINE T == [tx EXCEPT ![Admin] = IdleTx]
      <3>1. T \in [Actor -> Tx]
        BY <1>b, <1>d
      <3>2. tx' = Committed(T, {tx[Admin].job} \cup tx[Admin].wake)
        BY <1>17 DEF CommitPress
      <3> HIDE DEF T
      <3> QED
        BY <3>1, <3>2, CommittedType
    <2>2. tx[Admin].job \in Job /\ tx[Admin].retry \in Nat
      BY <1>b DEF Tx
    <2>3. state' \in [Job -> States]
      BY <1>17, <1>c DEF CommitPress
    <2>4. retry' \in [Job -> Nat]
      BY <1>17, <2>2 DEF CommitPress
    <2> QED
      BY <1>17, <2>1, <2>3, <2>4 DEF CommitPress, history
  <1>18. ASSUME RollBackPress, UNCHANGED noticed
         PROVE  QjTypeOK'
    BY <1>18, <1>b, <1>d DEF RollBackPress, rows, history
  <1>19. ASSUME NEW j \in Job, RequeueDeadJob(j), UNCHANGED noticed
         PROVE  QjTypeOK'
    <2>1. tx' \in [Actor -> Tx]
      BY <1>19, CommittedType DEF RequeueDeadJob
    <2>2. state' \in [Job -> States] /\ retry' \in [Job -> Nat]
      BY <1>19, <1>c DEF RequeueDeadJob
    <2> QED
      BY <1>19, <2>1, <2>2 DEF RequeueDeadJob, history
  <1>20. ASSUME NEW j \in Job, Notice(j) \/ (\E S \in SUBSET noticed : Forget(S))
         PROVE  QjTypeOK'
    BY <1>20 DEF Notice, Forget, dbVars, rows, history
  <1>21. ASSUME NEW j \in Job, Enqueue(j)
         PROVE  QjTypeOK'
    <2>1. tx' \in [Actor -> Tx]
      BY <1>21, CommittedType DEF Enqueue, SetJobEnqueued
    <2>2. state' \in [Job -> States] /\ requests' \in [Job -> Nat]
      BY <1>21, <1>c DEF Enqueue, SetJobEnqueued
    <2> QED
      BY <1>21, <2>1, <2>2 DEF Enqueue, SetJobEnqueued, history
  <1> QED
    BY <1>1, <1>2, <1>3, <1>4, <1>5, <1>6, <1>7, <1>8, <1>9, <1>10, <1>12, <1>13, <1>14, <1>15,
       <1>16, <1>17, <1>18, <1>19, <1>20, <1>21
       DEF QjNext, Database, Serve, Perform, Execute, User

(***************************************************************************)
(* What the steps do to the transactions                                   *)
(***************************************************************************)

\* The transactions other than that of w go on; a commit on the rows S made
\* the snapshots of some stale.
OthersGoOn(w, S) ==
  \A v \in Actor \ {w} :
    /\ tx'[v].at = tx[v].at /\ tx'[v].job = tx[v].job /\ tx'[v].retry = tx[v].retry
    /\ tx'[v].ready = tx[v].ready /\ tx'[v].locked = tx[v].locked /\ tx'[v].wake = tx[v].wake
    /\ tx'[v].fresh <=> tx[v].fresh /\ Watched(tx[v]) \cap S = {}

\* The transaction of w becomes t, then its snapshot is affected by S.
Becomes(w, t, S) ==
  /\ tx'[w].at = t.at /\ tx'[w].job = t.job /\ tx'[w].retry = t.retry
  /\ tx'[w].ready = t.ready /\ tx'[w].locked = t.locked /\ tx'[w].wake = t.wake
  /\ tx'[w].fresh <=> t.fresh /\ Watched(t) \cap S = {}

\* A step that replaces the record of one transaction and writes no row leaves
\* the others as they were.
LEMMA Continues ==
  ASSUME QjTypeOK, NEW w \in Actor, NEW t \in Tx, tx' = [tx EXCEPT ![w] = t]
  PROVE  OthersGoOn(w, {}) /\ Becomes(w, t, {})
  BY DEF OthersGoOn, Becomes, QjTypeOK, Tx

\* A step that replaces the record of one transaction and commits the rows S
\* only takes the freshness of the others away.
LEMMA Commits ==
  ASSUME QjTypeOK, NEW w \in Actor, NEW t \in Tx, NEW S,
         tx' = Committed([tx EXCEPT ![w] = t], S)
  PROVE  OthersGoOn(w, S) /\ Becomes(w, t, S)
  <1> DEFINE T == [tx EXCEPT ![w] = t]
  <1>1. T \in [Actor -> Tx] /\ T[w] = t /\ (\A v \in Actor \ {w} : T[v] = tx[v])
    BY DEF QjTypeOK
  <1>2. tx' = Committed(T, S)
    OBVIOUS
  <1> HIDE DEF T
  <1>3. \A a \in Actor :
              /\ tx'[a].at = T[a].at
              /\ tx'[a].job = T[a].job
              /\ tx'[a].retry = T[a].retry
              /\ tx'[a].ready = T[a].ready
              /\ tx'[a].locked = T[a].locked
              /\ tx'[a].wake = T[a].wake
              /\ tx'[a].fresh <=> T[a].fresh /\ Watched(T[a]) \cap S = {}
    BY <1>1, <1>2, CommittedType
  <1>4. Watched(T[w]) = Watched(t) /\ \A v \in Actor \ {w} : Watched(T[v]) = Watched(tx[v])
    BY <1>1
  <1>5. OthersGoOn(w, S)
    <2>1. ASSUME NEW v \in Actor \ {w}
          PROVE  /\ tx'[v].at = tx[v].at /\ tx'[v].job = tx[v].job /\ tx'[v].retry = tx[v].retry
                 /\ tx'[v].ready = tx[v].ready /\ tx'[v].locked = tx[v].locked
                 /\ tx'[v].wake = tx[v].wake
                 /\ tx'[v].fresh <=> tx[v].fresh /\ Watched(tx[v]) \cap S = {}
      <3>1. v \in Actor /\ T[v] = tx[v]
        BY <1>1
      <3> QED
        BY <1>3, <3>1
    <2> QED
      BY <2>1 DEF OthersGoOn
  <1>6. Becomes(w, t, S)
    BY <1>1, <1>3, <1>4 DEF Becomes
  <1> QED
    BY <1>5, <1>6

\* A commit of the runner, whose transactions are single statements.
LEMMA CommitsAlone ==
  ASSUME QjTypeOK, NEW S, tx' = Committed(tx, S)
  PROVE  /\ \A w \in Actor : OthersGoOn(w, S)
         /\ \A w \in Actor : Becomes(w, tx[w], S)
  BY CommittedType DEF OthersGoOn, Becomes, QjTypeOK

\* The record of a transaction after each of its steps (see TxUpdates).
LEMMA Records ==
  ASSUME NEW t \in Tx, NEW a \in Steps, NEW b \in BOOLEAN, NEW r \in Nat, NEW k \in SUBSET Job
  PROVE  /\ LET u == [t EXCEPT !.at = a] IN
            /\ u.at = a /\ u.job = t.job /\ u.retry = t.retry /\ u.ready = t.ready
            /\ u.locked = t.locked /\ u.fresh = t.fresh
         /\ LET u == [t EXCEPT !.at = a, !.locked = b] IN
            /\ u.at = a /\ u.job = t.job /\ u.retry = t.retry /\ u.ready = t.ready
            /\ u.locked = b /\ u.fresh = t.fresh
         /\ LET u == [t EXCEPT !.fresh = b, !.at = a] IN
            /\ u.at = a /\ u.job = t.job /\ u.retry = t.retry /\ u.ready = t.ready
            /\ u.locked = t.locked /\ u.fresh = b
         /\ LET u == [t EXCEPT !.at = a, !.locked = b, !.retry = r] IN
            /\ u.at = a /\ u.job = t.job /\ u.retry = r /\ u.ready = t.ready
            /\ u.locked = b /\ u.fresh = t.fresh
         /\ LET u == [t EXCEPT !.at = a, !.retry = r] IN
            /\ u.at = a /\ u.job = t.job /\ u.retry = r /\ u.ready = t.ready
            /\ u.locked = t.locked /\ u.fresh = t.fresh
         /\ LET u == [t EXCEPT !.at = a, !.fresh = b, !.wake = k] IN
            /\ u.at = a /\ u.job = t.job /\ u.retry = t.retry /\ u.ready = t.ready
            /\ u.locked = t.locked /\ u.fresh = b /\ u.wake = k
  BY DEF Tx

\* Job.lock takes its snapshot: the worker finds the row started and waits for
\* the lock, or goes on to postpone the job.
LEMMA TryLockEffect ==
  ASSUME QjTypeOK, NEW w \in Worker, TryLock(w)
  PROVE  /\ OthersGoOn(w, {})
         /\ tx'[w].at = IF state[tx[w].job] = Started THEN "locking" ELSE "postpone"
         /\ tx'[w].job = tx[w].job /\ tx'[w].fresh
         /\ tx'[w].ready = tx[w].ready /\ tx'[w].locked = tx[w].locked
         /\ tx'[w].retry = tx[w].retry
  <1> DEFINE x == IF state[tx[w].job] = Started THEN "locking" ELSE "postpone"
             u == [tx[w] EXCEPT !.fresh = TRUE, !.at = x]
  <1>1. w \in Actor /\ tx[w] \in Tx /\ x \in Steps
    BY DEF QjTypeOK, Actor, Steps
  <1>2. u \in Tx
    BY <1>1, TxUpdates
  <1>3. /\ u.at = x /\ u.job = tx[w].job /\ u.ready = tx[w].ready
        /\ u.locked = tx[w].locked /\ u.fresh = TRUE /\ u.retry = tx[w].retry
    BY <1>1, Records
  <1>4. tx' = [tx EXCEPT ![w] = u]
    BY DEF TryLock, Continue
  <1> HIDE DEF u, x
  <1>5. OthersGoOn(w, {}) /\ Becomes(w, u, {})
    BY <1>1, <1>2, <1>4, Continues
  <1> QED
    BY <1>3, <1>5 DEF Becomes, x

\* The worker that gets the lock performs the job, one try later.
LEMMA LockEffect ==
  ASSUME QjTypeOK, NEW w \in Worker, Lock(w)
  PROVE  /\ OthersGoOn(w, {})
         /\ tx'[w].at = "performing"
         /\ tx'[w].job = tx[w].job /\ (tx'[w].fresh <=> tx[w].fresh)
         /\ tx'[w].ready = tx[w].ready /\ tx'[w].locked /\ tx'[w].retry > 0
         /\ tx'[w].retry = tx[w].retry + 1
  <1> DEFINE u == [tx[w] EXCEPT !.at = "performing", !.locked = TRUE, !.retry = tx[w].retry + 1]
  <1>1. w \in Actor /\ tx[w] \in Tx /\ "performing" \in Steps
    BY DEF QjTypeOK, Actor, Steps
  <1>2. tx[w].retry + 1 \in Nat /\ tx[w].retry + 1 > 0
    BY <1>1 DEF Tx
  <1>3. u \in Tx
    BY <1>1, <1>2, TxUpdates
  <1>4. /\ u.at = "performing" /\ u.job = tx[w].job /\ u.ready = tx[w].ready
        /\ u.locked = TRUE /\ u.fresh = tx[w].fresh /\ u.retry > 0
        /\ u.retry = tx[w].retry + 1
    BY <1>1, <1>2, Records
  <1>5. tx' = [tx EXCEPT ![w] = u]
    BY DEF Lock, Continue
  <1> HIDE DEF u
  <1>6. OthersGoOn(w, {}) /\ Becomes(w, u, {})
    BY <1>1, <1>3, <1>5, Continues
  <1> QED
    BY <1>4, <1>6 DEF Becomes

\* The exceptions raised by the method, and an update that fails.
LEMMA RaiseEffect ==
  ASSUME QjTypeOK, TryCounted, NEW w \in Worker,
         \/ RaiseRetryable(w) \/ RaiseIgnored(w) \/ RaiseConflict(w) \/ RaiseOther(w)
         \/ Return(w) /\ ~tx[w].fresh
  PROVE  /\ OthersGoOn(w, {})
         /\ tx[w].at = "performing"
         /\ tx'[w].at \in {"postpone", "fail"}
         /\ tx'[w].job = tx[w].job /\ (tx'[w].fresh <=> tx[w].fresh)
         /\ tx'[w].ready = tx[w].ready
         /\ UNCHANGED <<state, retry, lockRow, requests, runs, commits, crashes, presses>>
  <1>1. w \in Actor /\ tx[w] \in Tx /\ {"postpone", "fail"} \subseteq Steps
    BY DEF QjTypeOK, Actor, Steps
  <1>2. tx[w].at = "performing"
    BY DEF RaiseRetryable, RaiseIgnored, RaiseConflict, RaiseOther, Return, Performing
  <1>3. PICK u \in Tx : /\ tx' = [tx EXCEPT ![w] = u]
                        /\ u.at \in {"postpone", "fail"} /\ u.job = tx[w].job
                        /\ u.ready = tx[w].ready /\ u.fresh = tx[w].fresh
    <2>1. CASE RaiseRetryable(w)
      <3>1. PICK x \in {"postpone", "fail"} : tx' = [tx EXCEPT ![w] = [tx[w] EXCEPT !.at = x]]
        BY <2>1 DEF RaiseRetryable, Continue
      <3> DEFINE u == [tx[w] EXCEPT !.at = x]
      <3>2. u \in Tx /\ u.at = x /\ u.job = tx[w].job /\ u.ready = tx[w].ready
            /\ u.fresh = tx[w].fresh
        <4>1. u \in Tx
          BY <1>1, TxUpdates
        <4>2. u.at = x /\ u.job = tx[w].job /\ u.ready = tx[w].ready
              /\ u.fresh = tx[w].fresh
          BY <1>1, Records
        <4> QED
          BY <4>1, <4>2
      <3>3. tx' = [tx EXCEPT ![w] = u]
        BY <3>1
      <3> HIDE DEF u
      <3> QED
        BY <3>2, <3>3
    <2>2. CASE RaiseIgnored(w)
      <3> DEFINE u == [tx[w] EXCEPT !.at = "postpone", !.retry = tx[w].retry - 1]
      <3>1. tx[w].retry - 1 \in Nat
        BY <1>1, <1>2 DEF TryCounted, Tx
      <3>2. u \in Tx /\ u.at = "postpone" /\ u.job = tx[w].job /\ u.ready = tx[w].ready
            /\ u.fresh = tx[w].fresh
        <4>1. u \in Tx
          BY <1>1, <3>1, TxUpdates
        <4>2. u.at = "postpone" /\ u.job = tx[w].job /\ u.ready = tx[w].ready
              /\ u.fresh = tx[w].fresh
          BY <1>1, <3>1, Records
        <4> QED
          BY <4>1, <4>2
      <3>3. tx' = [tx EXCEPT ![w] = u]
        BY <2>2 DEF RaiseIgnored, Continue
      <3> HIDE DEF u
      <3> QED
        BY <3>2, <3>3
    <2>3. CASE RaiseConflict(w) \/ (Return(w) /\ ~tx[w].fresh)
      <3> DEFINE u == [tx[w] EXCEPT !.at = "postpone", !.locked = FALSE]
      <3>1. u \in Tx /\ u.at = "postpone" /\ u.job = tx[w].job /\ u.ready = tx[w].ready
            /\ u.fresh = tx[w].fresh
        <4>1. u \in Tx
          BY <1>1, TxUpdates
        <4>2. u.at = "postpone" /\ u.job = tx[w].job /\ u.ready = tx[w].ready
              /\ u.fresh = tx[w].fresh
          BY <1>1, Records
        <4> QED
          BY <4>1, <4>2
      <3>2. tx' = [tx EXCEPT ![w] = u]
        BY <2>3 DEF RaiseConflict, Return, Continue
      <3> HIDE DEF u
      <3> QED
        BY <3>1, <3>2
    <2>4. CASE RaiseOther(w)
      <3>1. PICK b \in BOOLEAN :
              tx' = [tx EXCEPT ![w] = [tx[w] EXCEPT !.at = "fail", !.locked = b]]
        BY <2>4 DEF RaiseOther, Continue
      <3> DEFINE u == [tx[w] EXCEPT !.at = "fail", !.locked = b]
      <3>2. u \in Tx /\ u.at = "fail" /\ u.job = tx[w].job /\ u.ready = tx[w].ready
            /\ u.fresh = tx[w].fresh
        <4>1. u \in Tx
          BY <1>1, TxUpdates
        <4>2. u.at = "fail" /\ u.job = tx[w].job /\ u.ready = tx[w].ready
              /\ u.fresh = tx[w].fresh
          BY <1>1, Records
        <4> QED
          BY <4>1, <4>2
      <3>3. tx' = [tx EXCEPT ![w] = u]
        BY <3>1
      <3> HIDE DEF u
      <3> QED
        BY <3>2, <3>3
    <2> QED
      BY <2>1, <2>2, <2>3, <2>4
  <1>4. OthersGoOn(w, {}) /\ Becomes(w, u, {})
    BY <1>1, <1>3, Continues
  <1>5. UNCHANGED <<state, retry, lockRow, requests, runs, commits, crashes, presses>>
    BY DEF RaiseRetryable, RaiseIgnored, RaiseConflict, RaiseOther, Return, rows, history
  <1> QED
    BY <1>2, <1>3, <1>4, <1>5 DEF Becomes

\* Storing the job as done commits its row and releases the lock.
LEMMA CommitDoneEffect ==
  ASSUME QjTypeOK, NEW w \in Worker, CommitDone(w)
  PROVE  /\ OthersGoOn(w, {tx[w].job})
         /\ tx'[w].at = "done" /\ tx'[w].job = tx[w].job /\ ~tx'[w].locked
  <1> DEFINE u == [tx[w] EXCEPT !.at = "done", !.locked = FALSE]
  <1>1. w \in Actor /\ tx[w] \in Tx /\ "done" \in Steps
    BY DEF QjTypeOK, Actor, Steps
  <1>2. u \in Tx /\ u.at = "done" /\ u.job = tx[w].job /\ u.locked = FALSE
    <2>1. u \in Tx
      BY <1>1, TxUpdates
    <2>2. u.at = "done" /\ u.job = tx[w].job /\ u.locked = FALSE
      BY <1>1, Records
    <2> QED
      BY <2>1, <2>2
  <1>3. tx' = Committed([tx EXCEPT ![w] = u], {tx[w].job})
    BY DEF CommitDone
  <1> HIDE DEF u
  <1>4. OthersGoOn(w, {tx[w].job}) /\ Becomes(w, u, {tx[w].job})
    BY <1>1, <1>2, <1>3, Commits
  <1> QED
    BY <1>2, <1>4 DEF Becomes

\* The steps after which a worker is idle again.
LEMMA LeaveEffect ==
  ASSUME QjTypeOK, NEW w \in Actor, NEW S,
         \/ tx' = Committed([tx EXCEPT ![w] = IdleTx], S)
         \/ tx' = [tx EXCEPT ![w] = IdleTx] /\ S = {}
  PROVE  /\ OthersGoOn(w, S)
         /\ tx'[w].at = "idle" /\ ~tx'[w].locked
  <1>1. IdleTx \in Tx /\ IdleTx.at = "idle" /\ IdleTx.locked = FALSE
    BY IdleTxType DEF IdleTx
  <1>2. CASE tx' = Committed([tx EXCEPT ![w] = IdleTx], S)
    <2>1. OthersGoOn(w, S) /\ Becomes(w, IdleTx, S)
      BY <1>1, <1>2, Commits
    <2> QED
      BY <1>1, <2>1 DEF Becomes
  <1>3. CASE tx' = [tx EXCEPT ![w] = IdleTx] /\ S = {}
    <2>1. OthersGoOn(w, {}) /\ Becomes(w, IdleTx, {})
      BY <1>1, <1>3, Continues
    <2> QED
      BY <1>1, <1>3, <2>1 DEF Becomes
  <1> QED
    BY <1>2, <1>3

\* enqueue_waiting takes its snapshot: the worker holds the dependents to
\* release.
LEMMA SelectEffect ==
  ASSUME QjTypeOK, NEW w \in Worker, SelectDependents(w)
  PROVE  /\ OthersGoOn(w, {})
         /\ tx'[w].at = "release" /\ tx'[w].locked = tx[w].locked
         /\ tx'[w].job = tx[w].job
         /\ tx'[w].wake = {c \in Dependents(tx[w].job, Done) : state[tx[w].job] = Done}
  <1> DEFINE k == {c \in Dependents(tx[w].job, Done) : state[tx[w].job] = Done}
             u == [tx[w] EXCEPT !.at = "release", !.fresh = TRUE, !.wake = k]
  <1>1. w \in Actor /\ tx[w] \in Tx /\ "release" \in Steps
    BY DEF QjTypeOK, Actor, Steps
  <1>2. k \in SUBSET Job
    BY DEF Dependents, Children
  <1>3. tx' = [tx EXCEPT ![w] = u]
    BY DEF SelectDependents, Continue
  <1>4. u \in Tx /\ u.at = "release" /\ u.wake = k /\ u.locked = tx[w].locked
        /\ u.job = tx[w].job
    <2> HIDE DEF k
    <2>1. u \in Tx
      BY <1>1, <1>2, TxUpdates
    <2>2. u.at = "release" /\ u.wake = k /\ u.locked = tx[w].locked
          /\ u.job = tx[w].job
      BY <1>1, <1>2, Records
    <2> QED
      BY <2>1, <2>2
  <1> HIDE DEF u
  <1>5. OthersGoOn(w, {}) /\ Becomes(w, u, {})
    BY <1>1, <1>3, <1>4, Continues
  <1> QED
    BY <1>4, <1>5 DEF Becomes

\* A request that finds its job enqueued makes the row started and its worker
\* the holder of the Job object.
LEMMA StartEffect ==
  ASSUME QjTypeOK, NEW w \in Worker, NEW j \in Job, StartJob(w, j)
  PROVE  /\ OthersGoOn(w, {j})
         /\ tx'[w].at = "started" /\ tx'[w].job = j /\ tx'[w].fresh /\ ~tx'[w].locked
         /\ tx'[w].ready = ParentsDone(j) /\ tx'[w].retry = retry[j]
  <1> DEFINE t == [at |-> "started", job |-> j, retry |-> retry[j], ready |-> ParentsDone(j),
                   locked |-> FALSE, fresh |-> TRUE, wake |-> {}]
  <1>1. w \in Actor
    BY DEF Actor
  <1>2. t \in Tx /\ Watched(t) = {}
    BY DEF Tx, Steps, ParentsDone, QjTypeOK, Watched
  <1>3. /\ t.at = "started" /\ t.job = j /\ t.ready = ParentsDone(j)
        /\ t.locked = FALSE /\ t.fresh = TRUE /\ t.retry = retry[j]
    OBVIOUS
  <1>4. tx' = Committed([tx EXCEPT ![w] = t], {j})
    BY DEF StartJob
  <1> HIDE DEF t
  <1>5. OthersGoOn(w, {j}) /\ Becomes(w, t, {j})
    BY <1>1, <1>2, <1>4, Commits
  <1> QED
    BY <1>2, <1>3, <1>5 DEF Becomes

(***************************************************************************)
(* Work is only committed on a started row                                 *)
(***************************************************************************)

\* The snapshot of Job.lock saw the row started; while it is not stale, it is.
FreshIsStarted ==
  \A w \in Worker :
    tx[w].at \in {"locking", "performing"} /\ tx[w].fresh => state[tx[w].job] = Started

QjInv == QjTypeOK /\ TryCounted /\ FreshIsStarted

\* A step of the transaction of w that only writes the rows S keeps QjInv for
\* the others.
LEMMA QjInvOthers ==
  ASSUME QjInv, NEW w \in Actor, NEW S, OthersGoOn(w, S),
         \A i \in Job \ S : state'[i] = state[i],
         w \in Worker =>
           /\ tx'[w].at = "performing" => tx'[w].retry > 0
           /\ tx'[w].at \in {"locking", "performing"} /\ tx'[w].fresh
                => state'[tx'[w].job] = Started
  PROVE  TryCounted' /\ FreshIsStarted'
  <1>1. ASSUME NEW v \in Worker, v # w
        PROVE  /\ tx'[v].at = "performing" => tx'[v].retry > 0
               /\ tx'[v].at \in {"locking", "performing"} /\ tx'[v].fresh
                    => state'[tx'[v].job] = Started
    <2>1. v \in Actor /\ tx[v] \in Tx /\ tx[v].job \in Job
      BY DEF Actor, QjInv, QjTypeOK, Tx
    <2>2. /\ tx'[v].at = tx[v].at /\ tx'[v].retry = tx[v].retry /\ tx'[v].job = tx[v].job
          /\ tx'[v].fresh => tx[v].fresh /\ Watched(tx[v]) \cap S = {}
      BY <1>1, <2>1 DEF OthersGoOn
    <2>3. tx[v].at \in {"locking", "performing"} => Watched(tx[v]) = {tx[v].job}
      BY DEF Watched
    <2> QED
      BY <2>1, <2>2, <2>3 DEF QjInv, TryCounted, FreshIsStarted
  <1> QED
    BY <1>1 DEF TryCounted, FreshIsStarted

\* Every step keeps the inductive invariant.
LEMMA QjInvNext ==
  ASSUME QjInv, [QjNext]_qjVars
  PROVE  QjInv'
  <1>a. QjTypeOK'
    BY TypeNext DEF QjInv
  <1>b. QjTypeOK /\ TryCounted /\ FreshIsStarted
    BY DEF QjInv
  <1>c. /\ Admin \in Actor /\ Admin \notin Worker
        /\ \A w \in Worker : w \in Actor /\ tx[w].job \in Job /\ tx[w].wake \subseteq Job
    BY <1>b, QueueJobAssumption DEF Actor, QjTypeOK, Tx
  <1> SUFFICES TryCounted' /\ FreshIsStarted'
    BY <1>a DEF QjInv
  <1>d. ASSUME UNCHANGED <<tx, state>>
        PROVE  TryCounted' /\ FreshIsStarted'
    BY <1>b, <1>d DEF TryCounted, FreshIsStarted
  \* The steps of the worker w that leave the rows alone.
  <1>e. ASSUME NEW w \in Worker, OthersGoOn(w, {}), UNCHANGED state,
               tx'[w].at = "performing" => tx'[w].retry > 0,
               tx'[w].at \in {"locking", "performing"} /\ tx'[w].fresh
                 => state[tx'[w].job] = Started
        PROVE  TryCounted' /\ FreshIsStarted'
    BY <1>c, <1>e, QjInvOthers
  \* The steps after which w is out of the critical part.
  <1>f. ASSUME NEW w \in Actor, NEW S, OthersGoOn(w, S), \A i \in Job \ S : state'[i] = state[i],
               tx'[w].at \notin {"locking", "performing"}
        PROVE  TryCounted' /\ FreshIsStarted'
    BY <1>f, QjInvOthers
  <1>1. CASE UNCHANGED qjVars
    BY <1>1, <1>d DEF qjVars, dbVars, rows
  <1>2. ASSUME NEW w \in Worker, NEW j \in Job, StartJob(w, j)
        PROVE  TryCounted' /\ FreshIsStarted'
    <2>1. OthersGoOn(w, {j}) /\ tx'[w].at = "started"
      BY <1>2, <1>b, StartEffect
    <2>2. \A i \in Job \ {j} : state'[i] = state[i]
      BY <1>2, <1>b DEF StartJob, QjTypeOK
    <2> QED
      BY <1>c, <1>f, <2>1, <2>2
  <1>3. ASSUME NEW j \in Job, RefuseJob(j) \/ LoseRequest(j)
        PROVE  TryCounted' /\ FreshIsStarted'
    BY <1>3, <1>d DEF RefuseJob, LoseRequest, rows
  <1>4. ASSUME NEW w \in Worker, TryLock(w)
        PROVE  TryCounted' /\ FreshIsStarted'
    <2>1. /\ OthersGoOn(w, {}) /\ tx'[w].job = tx[w].job
          /\ tx'[w].at = IF state[tx[w].job] = Started THEN "locking" ELSE "postpone"
      BY <1>4, <1>b, TryLockEffect
    <2>2. UNCHANGED state
      BY <1>4 DEF TryLock, rows
    <2> QED
      BY <1>e, <2>1, <2>2
  <1>5. ASSUME NEW w \in Worker, Lock(w)
        PROVE  TryCounted' /\ FreshIsStarted'
    <2>1. /\ OthersGoOn(w, {}) /\ tx'[w].job = tx[w].job /\ tx'[w].retry > 0
          /\ tx'[w].fresh <=> tx[w].fresh
      BY <1>5, <1>b, LockEffect
    <2>2. UNCHANGED state /\ tx[w].at = "locking"
      BY <1>5 DEF Lock, rows
    <2> QED
      BY <1>b, <1>e, <2>1, <2>2 DEF FreshIsStarted
  <1>6. ASSUME NEW w \in Worker,
               \/ RaiseRetryable(w) \/ RaiseIgnored(w) \/ RaiseConflict(w) \/ RaiseOther(w)
               \/ Return(w) /\ ~tx[w].fresh
        PROVE  TryCounted' /\ FreshIsStarted'
    <2>1. OthersGoOn(w, {}) /\ tx'[w].at \in {"postpone", "fail"} /\ UNCHANGED state
      BY <1>6, <1>b, RaiseEffect
    <2> QED
      BY <1>e, <2>1
  <1>7. ASSUME NEW w \in Worker, CommitDone(w)
        PROVE  TryCounted' /\ FreshIsStarted'
    <2>1. OthersGoOn(w, {tx[w].job}) /\ tx'[w].at = "done"
      BY <1>7, <1>b, CommitDoneEffect
    <2>2. \A i \in Job \ {tx[w].job} : state'[i] = state[i]
      BY <1>7, <1>b DEF CommitDone, QjTypeOK
    <2> QED
      BY <1>c, <1>f, <2>1, <2>2
  <1>8. ASSUME NEW w \in Worker, Return(w) \/ NothingToDo(w)
        PROVE  TryCounted' /\ FreshIsStarted'
    <2>1. CASE CommitDone(w)
      BY <2>1, <1>7
    <2>2. CASE Return(w) /\ ~CommitDone(w)
      BY <2>2, <1>6 DEF Return
    <2>3. CASE NothingToDo(w) /\ ~CommitDone(w)
      <3>1. tx' = [tx EXCEPT ![w] = IdleTx] /\ UNCHANGED state
        BY <2>3 DEF NothingToDo, rows
      <3>2. OthersGoOn(w, {}) /\ tx'[w].at = "idle"
        BY <3>1, <1>b, <1>c, LeaveEffect
      <3> QED
        BY <3>1, <3>2, <1>e
    <2> QED
      BY <1>8, <2>1, <2>2, <2>3
  <1>9. ASSUME NEW w \in Worker, Postpone(w) \/ Fail(w)
        PROVE  TryCounted' /\ FreshIsStarted'
    <2>1. /\ tx' = Committed([tx EXCEPT ![w] = IdleTx], {tx[w].job})
          /\ \A i \in Job \ {tx[w].job} : state'[i] = state[i]
      BY <1>9, <1>b DEF Postpone, Fail, StoreAndLeave, QjTypeOK
    <2>2. OthersGoOn(w, {tx[w].job}) /\ tx'[w].at = "idle"
      BY <2>1, <1>b, <1>c, LeaveEffect
    <2> QED
      BY <1>c, <1>f, <2>1, <2>2
  <1>10. ASSUME NEW w \in Worker, SelectDependents(w)
         PROVE  TryCounted' /\ FreshIsStarted'
    <2>1. OthersGoOn(w, {}) /\ tx'[w].at = "release"
      BY <1>10, <1>b, SelectEffect
    <2>2. UNCHANGED state
      BY <1>10 DEF SelectDependents, rows
    <2> QED
      BY <1>e, <2>1, <2>2
  <1>11. ASSUME NEW w \in Worker, EnqueueWaiting(w)
         PROVE  TryCounted' /\ FreshIsStarted'
    <2> DEFINE S == IF tx[w].fresh THEN tx[w].wake ELSE {}
    <2>1. tx' = Committed([tx EXCEPT ![w] = IdleTx], S)
      BY <1>11 DEF EnqueueWaiting
    <2>2. \A i \in Job \ S : state'[i] = state[i]
      BY <1>11 DEF EnqueueWaiting
    <2> HIDE DEF S
    <2>3. OthersGoOn(w, S) /\ tx'[w].at = "idle"
      BY <2>1, <1>b, <1>c, LeaveEffect
    <2> QED
      BY <1>c, <1>f, <2>2, <2>3
  <1>12. ASSUME NEW w \in Worker, Crash(w)
         PROVE  TryCounted' /\ FreshIsStarted'
    <2>1. tx' = [tx EXCEPT ![w] = IdleTx] /\ UNCHANGED state
      BY <1>12 DEF Crash, rows
    <2>2. OthersGoOn(w, {}) /\ tx'[w].at = "idle"
      BY <2>1, <1>b, <1>c, LeaveEffect
    <2> QED
      BY <1>e, <2>1, <2>2
  <1>13. ASSUME NEW op \in Buttons, NEW j \in Job, Press(op, j)
         PROVE  TryCounted' /\ FreshIsStarted'
    <2>1. \A v \in Worker : tx'[v] = tx[v]
      BY <1>13, <1>b, <1>c DEF Press, QjTypeOK
    <2>2. UNCHANGED state
      BY <1>13 DEF Press, rows
    <2> QED
      BY <1>b, <2>1, <2>2 DEF TryCounted, FreshIsStarted
  <1>14. ASSUME CommitPress
         PROVE  TryCounted' /\ FreshIsStarted'
    <2> DEFINE S == {tx[Admin].job} \cup tx[Admin].wake
    <2>1. tx' = Committed([tx EXCEPT ![Admin] = IdleTx], S)
      BY <1>14 DEF CommitPress
    <2>2. \A i \in Job \ S : state'[i] = state[i]
      BY <1>14 DEF CommitPress
    <2> HIDE DEF S
    <2>3. OthersGoOn(Admin, S) /\ tx'[Admin].at = "idle"
      BY <2>1, <1>b, <1>c, LeaveEffect
    <2> QED
      BY <1>c, <1>f, <2>2, <2>3
  <1>15. ASSUME RollBackPress
         PROVE  TryCounted' /\ FreshIsStarted'
    <2>1. \A v \in Worker : tx'[v] = tx[v]
      BY <1>15, <1>b, <1>c DEF RollBackPress, QjTypeOK
    <2>2. UNCHANGED state
      BY <1>15 DEF RollBackPress, rows
    <2> QED
      BY <1>b, <2>1, <2>2 DEF TryCounted, FreshIsStarted
  <1>16. ASSUME NEW j \in Job, RequeueDeadJob(j) \/ SetJobEnqueued(j)
         PROVE  TryCounted' /\ FreshIsStarted'
    <2>1. tx' = Committed(tx, {j})
      BY <1>16 DEF RequeueDeadJob, SetJobEnqueued
    <2>2. \A i \in Job \ {j} : state'[i] = state[i]
      BY <1>16, <1>b DEF RequeueDeadJob, SetJobEnqueued, QjTypeOK
    <2>3. OthersGoOn(Admin, {j})
      BY <2>1, <1>b, <1>c, CommitsAlone
    <2> QED
      BY <1>c, <2>2, <2>3, QjInvOthers
  <1>17. ASSUME NEW j \in Job, Notice(j) \/ (\E S \in SUBSET noticed : Forget(S))
         PROVE  TryCounted' /\ FreshIsStarted'
    BY <1>17, <1>d DEF Notice, Forget, dbVars, rows
  <1> QED
    BY <1>1, <1>2, <1>3, <1>4, <1>5, <1>6, <1>8, <1>9, <1>10, <1>11, <1>12, <1>13, <1>14, <1>15,
       <1>16, <1>17, QueueJobAssumption
       DEF QjNext, Database, Serve, Perform, Execute, User, Enqueue

LEMMA QjInvInit == QjInit => QjInv
  BY TypeInit DEF QjInv, TryCounted, FreshIsStarted, QjInit, IdleTx, Actor

\* The inductive invariant of all workers, users and runners: types, tries that
\* are counted before the method runs, and a fresh snapshot of a started row.
THEOREM QjInvariant == QjSpec => []QjInv
  <1>1. QjInv /\ [QjNext]_qjVars => QjInv'
    BY QjInvNext
  <1> QED
    BY <1>1, QjInvInit, PTL DEF QjSpec

\* Type correctness.
THEOREM QjTypeCorrect == QjSpec => []QjTypeOK
  BY QjInvariant, PTL DEF QjInv

\* For every set of jobs, workers, dependencies, bounds and buttons: the work
\* of a method is committed only on a row that is still started.
THEOREM OnlyStartedCommitted == QjSpec => CommitsOnlyStarted
  <1> DEFINE OnStarted == \A j \in Job : commits'[j] # commits[j] =>
                            /\ state[j] = Started
                            /\ commits'[j] = commits[j] + 1
  <1>1. ASSUME QjInv, QjNext, NEW j \in Job, commits'[j] # commits[j]
        PROVE  state[j] = Started /\ commits'[j] = commits[j] + 1
    <2>1. PICK w \in Worker : Return(w) \/ NothingToDo(w)
      BY <1>1
         DEF QjNext, Database, Serve, Perform, Execute, User, StartJob, RefuseJob, LoseRequest,
             TryLock, Lock, RaiseRetryable, RaiseIgnored, RaiseConflict, RaiseOther, Postpone,
             Fail, StoreAndLeave, SelectDependents, EnqueueWaiting, Crash,
             Press, CommitPress, RollBackPress, RequeueDeadJob, Notice, Forget, Enqueue,
             SetJobEnqueued, dbVars, history
    <2>2. tx[w].at = "performing" /\ tx[w].job \in Job
      BY <1>1, <2>1 DEF Return, NothingToDo, Performing, QjInv, QjTypeOK, Actor, Tx
    <2>3. tx[w].fresh /\ CommitDone(w)
      BY <1>1, <2>1 DEF Return, NothingToDo, history
    <2>4. commits' = [commits EXCEPT ![tx[w].job] = @ + 1] /\ commits \in [Job -> Nat]
      BY <1>1, <2>3 DEF CommitDone, QjInv, QjTypeOK
    <2>5. tx[w].job = j /\ commits'[j] = commits[j] + 1
      BY <1>1, <2>2, <2>4
    <2> QED
      BY <1>1, <2>2, <2>3, <2>5 DEF QjInv, FreshIsStarted
  <1>2. QjInv /\ [QjNext]_qjVars => [OnStarted]_qjVars
    BY <1>1
  <1> QED
    BY <1>2, QjInvariant, PTL DEF QjSpec, CommitsOnlyStarted, OnStarted
\* Of the workers, the users and the sweep, none makes a job active that was not.
LEMMA NobodyActivates ==
  ASSUME QjTypeOK, Database, NEW j \in Job, state'[j] \in Active
  PROVE  state[j] \in Active
  <1>. USE DEF QjTypeOK, Active, Enqueued, Started, Done, Pending, Failed, Cancelled,
               WaitDependencies
  <1>1. ASSUME NEW i \in Job, Serve(i) \/ RequeueDeadJob(i) \/ LoseRequest(i)
        PROVE  state[j] \in Active
    BY <1>1 DEF Serve, StartJob, RefuseJob, RequeueDeadJob, LoseRequest, rows
  <1>2. ASSUME NEW w \in Worker, Return(w) \/ NothingToDo(w)
        PROVE  state[j] \in Active
    BY <1>2 DEF Return, NothingToDo, CommitDone, rows
  <1>3. ASSUME NEW w \in Worker, Postpone(w) \/ Fail(w)
        PROVE  state[j] \in Active
    BY <1>3 DEF Postpone, Fail, StoreAndLeave, SetPending
  <1>4. ASSUME NEW w \in Worker, EnqueueWaiting(w)
        PROVE  state[j] \in Active
    BY <1>4 DEF EnqueueWaiting
  <1>5. CASE UNCHANGED state
    BY <1>5
  <1>6. CASE CommitPress
    BY <1>6 DEF CommitPress, SetPending
  <1>. QED
    BY <1>1, <1>2, <1>3, <1>4, <1>5, <1>6
    DEF Database, Perform, Execute, TryLock, Lock, RaiseRetryable, RaiseIgnored, RaiseConflict,
        RaiseOther, SelectDependents, Crash, User, RollBackPress, Press, rows
=============================================================================
