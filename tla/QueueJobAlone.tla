--------------------------- MODULE QueueJobAlone ---------------------------
(***************************************************************************)
(* Proofs about the jobs when users press no button but cancel and no live *)
(* worker is taken for dead: whoever holds a job is alone with it, its     *)
(* work is committed once, children are released by their parents, and a   *)
(* job is started at most max_retries + 2 times.                           *)
(***************************************************************************)
EXTENDS QueueJobProofs

\* A worker with a Job object: its row is started, its snapshot is good, and
\* its parents were done when it was loaded.
Holder(w) ==
  tx[w].at \in Holding =>
    state[tx[w].job] = Started /\ tx[w].fresh /\ tx[w].ready

\* A worker about to release children: their parents are done, and they still
\* wait unless somebody else released them, which makes its snapshot stale.
Releaser(w) ==
  tx[w].at = "release" =>
    \A c \in tx[w].wake :
      ParentsDone(c) /\ (tx[w].fresh => state[c] = WaitDependencies)

Apart(v, w) ==
  tx[v].at \in Holding /\ tx[w].at \in Holding /\ tx[v].job = tx[w].job => v = w

\* A row: what the runner noticed is pending, or was and is cancelled; it left
\* wait_dependencies because its parents are done, or is cancelled; its work was
\* committed if it is done.
Row(j) ==
  /\ j \in noticed => state[j] \in {Pending, Cancelled}
  /\ j \in noticed \/ state[j] \notin {WaitDependencies, Cancelled} => ParentsDone(j)
  /\ commits[j] = IF state[j] = Done THEN 1 ELSE 0

\* A user about to cancel: nobody works on the rows, unless a commit made the
\* snapshot stale.
Canceller ==
  /\ tx[Admin].at \in {"idle"} \cup ({"set_cancelled"} \cap Buttons)
  /\ tx[Admin].at = "set_cancelled" /\ tx[Admin].fresh =>
       /\ state[tx[Admin].job] \in {Pending, Failed, Enqueued}
       /\ \A c \in tx[Admin].wake :
            state[c] = WaitDependencies /\ tx[Admin].job \in Parents[c]

AloneInv ==
  /\ QjInv
  /\ Canceller
  /\ \A w \in Worker : Holder(w) /\ Releaser(w)
  /\ \A v, w \in Worker : Apart(v, w)
  /\ \A j \in Job : Row(j)

\* Nobody holds a job at first.
LEMMA AloneInit == QjInit => AloneInv
  <1> SUFFICES ASSUME QjInit PROVE AloneInv
    OBVIOUS
  <1>1. QjInv
    BY TypeInit DEF QjInv, TryCounted, FreshIsStarted, QjInit, IdleTx, Actor
  <1>2. \A a \in Actor : tx[a].at = "idle"
    BY DEF QjInit, IdleTx
  <1>3. ASSUME NEW j \in Job
        PROVE  Row(j)
    <2>1. Parents[j] = {} => ParentsDone(j)
      BY DEF ParentsDone
    <2> QED
      BY <2>1 DEF Row, QjInit, SetPending, Done, Pending, Cancelled, WaitDependencies
  <1> QED
    BY <1>1, <1>2, <1>3 DEF AloneInv, Holder, Releaser, Canceller, Apart, Holding, Actor

\* The transaction of w makes a step that writes the rows S: none of them is
\* done, leaves wait_dependencies too early or belongs to another worker.
LEMMA AloneStep ==
  ASSUME AloneInv, QjInv', NEW w \in Actor, NEW S \in SUBSET Job, OthersGoOn(w, S),
         \A i \in Job \ S : state'[i] = state[i] /\ commits'[i] = commits[i],
         \A i \in S :
           /\ state[i] # Done
           /\ i \in noticed' => state'[i] \in {Pending, Cancelled}
           /\ state'[i] \notin {WaitDependencies, Cancelled} => ParentsDone(i)
           /\ commits'[i] = IF state'[i] = Done THEN 1 ELSE 0
           /\ \A v \in Worker \ {w} : tx[v].at \in Holding => tx[v].job # i,
         noticed' \subseteq noticed,
         w = Admin => Canceller',
         w \in Worker =>
           /\ Holder(w)' /\ Releaser(w)'
           /\ \A v \in Worker \ {w} :
                tx'[w].at \in Holding /\ tx[v].at \in Holding => tx[v].job # tx'[w].job
  PROVE  AloneInv'
  <1>1. Admin \in Actor /\ Admin \notin Worker
    BY QueueJobAssumption DEF Actor
  <1>2. \A j \in Job : Parents[j] \subseteq Job
    BY QueueJobAssumption
  <1>3. \A j \in Job : ParentsDone(j) => ParentsDone(j)'
    BY <1>2 DEF ParentsDone
  <1>4. ASSUME NEW v \in Worker \ {w}
        PROVE  /\ Holder(v)' /\ Releaser(v)'
               /\ tx'[v].at = tx[v].at /\ tx'[v].job = tx[v].job
    <2>1. v \in Actor \ {w} /\ v \in Worker /\ tx[v].job \in Job /\ tx[v].wake \subseteq Job
      BY DEF Actor, AloneInv, QjInv, QjTypeOK, Tx
    <2>2. /\ tx'[v].at = tx[v].at /\ tx'[v].job = tx[v].job /\ tx'[v].ready = tx[v].ready
          /\ tx'[v].wake = tx[v].wake
          /\ tx'[v].fresh <=> tx[v].fresh /\ Watched(tx[v]) \cap S = {}
      BY <2>1 DEF OthersGoOn
    <2>3. Holder(v) /\ Releaser(v)
      BY <2>1 DEF AloneInv
    <2>4. Holder(v)'
      <3>1. SUFFICES ASSUME tx[v].at \in Holding
                     PROVE  state'[tx[v].job] = Started /\ tx'[v].fresh /\ tx'[v].ready
        BY <2>2 DEF Holder
      <3>2. tx[v].job \notin S
        BY <2>1, <3>1
      <3>3. Watched(tx[v]) \subseteq {tx[v].job}
        BY <3>1 DEF Watched, Holding
      <3> QED
        BY <2>1, <2>2, <2>3, <3>1, <3>2, <3>3 DEF Holder
    <2>5. Releaser(v)'
      <3>1. SUFFICES ASSUME tx[v].at = "release", NEW c \in tx[v].wake
                     PROVE  /\ ParentsDone(c)'
                            /\ tx'[v].fresh => state'[c] = WaitDependencies
        BY <2>2 DEF Releaser
      <3>2. Watched(tx[v]) = tx[v].wake
        BY <3>1 DEF Watched
      <3>3. ParentsDone(c) /\ (tx[v].fresh => state[c] = WaitDependencies) /\ c \in Job
        BY <2>1, <2>3, <3>1 DEF Releaser
      <3> QED
        BY <1>3, <2>2, <3>1, <3>2, <3>3
    <2> QED
      BY <2>2, <2>4, <2>5
  <1>5. Canceller'
    <2>. SUFFICES ASSUME w # Admin
                  PROVE  Canceller'
      OBVIOUS
    <2>1. Admin \in Actor \ {w} /\ Canceller /\ tx[Admin].job \in Job /\ tx[Admin].wake \subseteq Job
      BY <1>1 DEF AloneInv, QjInv, QjTypeOK, Tx
    <2>2. /\ tx'[Admin].at = tx[Admin].at /\ tx'[Admin].job = tx[Admin].job
          /\ tx'[Admin].wake = tx[Admin].wake
          /\ tx'[Admin].fresh <=> tx[Admin].fresh /\ Watched(tx[Admin]) \cap S = {}
      BY <2>1 DEF OthersGoOn
    <2>3. tx[Admin].at = "set_cancelled"
            => Watched(tx[Admin]) = {tx[Admin].job} \cup tx[Admin].wake
      BY DEF Watched
    <2>. QED
      BY <2>1, <2>2, <2>3 DEF Canceller
  <1>6. \A v \in Worker : Holder(v)' /\ Releaser(v)'
    BY <1>4
  <1>7. \A u, v \in Worker : Apart(u, v)'
    <2>1. ASSUME NEW u \in Worker, NEW v \in Worker
          PROVE  Apart(u, v)'
      <3>1. Apart(u, v)
        BY DEF AloneInv
      <3> QED
        BY <1>4, <3>1 DEF Apart
    <2> QED
      BY <2>1
  <1>8. ASSUME NEW j \in Job
        PROVE  Row(j)'
    <2>1. Row(j)
      BY DEF AloneInv
    <2>2. CASE j \in S
      BY <1>3, <2>1, <2>2 DEF Row
    <2>3. CASE j \notin S
      BY <1>3, <2>1, <2>3 DEF Row
    <2> QED
      BY <2>2, <2>3
  <1> QED
    BY <1>5, <1>6, <1>7, <1>8 DEF AloneInv

\* The conditions: users only cancel, and no live worker is taken for dead.
Alone == Prompt /\ Buttons \subseteq {"set_cancelled"}

\* The worker w goes on with its job, or leaves it, without writing a row.
LEMMA AloneInside ==
  ASSUME AloneInv, QjInv', NEW w \in Worker, OthersGoOn(w, {}),
         UNCHANGED <<state, commits, noticed>>,
         tx'[w].at # "release",
         tx'[w].at \in Holding =>
           /\ tx[w].at \in Holding
           /\ tx'[w].job = tx[w].job
           /\ tx'[w].ready = tx[w].ready
           /\ tx[w].fresh => tx'[w].fresh
  PROVE  AloneInv'
  <1>1. w \in Actor /\ w # Admin
    BY QueueJobAssumption DEF Actor
  <1>2. Holder(w)' /\ Releaser(w)'
    BY DEF AloneInv, Holder, Releaser
  <1>3. \A v \in Worker \ {w} :
          tx'[w].at \in Holding /\ tx[v].at \in Holding => tx[v].job # tx'[w].job
    BY DEF AloneInv, Apart
  <1> QED
    BY <1>1, <1>2, <1>3, AloneStep

\* A user presses cancel.
LEMMA CancelEffect ==
  ASSUME QjTypeOK, NEW j \in Job, Press("set_cancelled", j)
  PROVE  /\ OthersGoOn(Admin, {}) /\ tx'[Admin].at = "set_cancelled"
         /\ tx'[Admin].job = j /\ tx'[Admin].wake = Dependents(j, Cancelled)
         /\ tx'[Admin].retry = retry[j]
         /\ UNCHANGED <<state, retry, runs, commits>>
         /\ state[j] \in {Pending, Failed, Enqueued}
  <1>. DEFINE k == Dependents(j, Cancelled)
              t == [at |-> "set_cancelled", job |-> j, retry |-> retry[j],
                    ready |-> ParentsDone(j), locked |-> FALSE, fresh |-> TRUE, wake |-> k]
  <1>1. Admin \in Actor /\ k \in SUBSET Job
    BY DEF Actor, Dependents, Children
  <1>2. ParentsDone(j) \in BOOLEAN /\ retry[j] \in Nat
    BY DEF ParentsDone, QjTypeOK
  <1>3. t \in Tx
    BY <1>1, <1>2 DEF Tx, Steps
  <1>4. tx' = [tx EXCEPT ![Admin] = t]
    BY DEF Press
  <1>5. OthersGoOn(Admin, {}) /\ Becomes(Admin, t, {})
    <2>. HIDE DEF t
    <2>. QED
      BY <1>1, <1>3, <1>4, Continues
  <1>6. tx'[Admin].at = "set_cancelled" /\ tx'[Admin].job = j /\ tx'[Admin].wake = k
        /\ tx'[Admin].retry = retry[j]
    BY <1>5 DEF Becomes
  <1>. QED
    BY <1>5, <1>6 DEF Press, rows

\* Every step keeps workers apart, when users only cancel and no live worker is
\* taken for dead.
LEMMA AloneNext ==
  ASSUME Alone, AloneInv, [QjNext]_qjVars
  PROVE  AloneInv'
  <1>a. QjInv' /\ QjInv /\ QjTypeOK /\ TryCounted
    BY QjInvNext DEF AloneInv, QjInv
  <1>b. /\ Admin \in Actor /\ Admin \notin Worker
        /\ \A w \in Worker :
             w \in Actor /\ tx[w].job \in Job /\ tx[w].wake \subseteq Job /\ w # Admin
    BY <1>a, QueueJobAssumption DEF Actor, QjTypeOK, Tx
  \* The worker that holds the row of its job.
  <1>c. ASSUME NEW w \in Worker, tx[w].at \in Holding
        PROVE  /\ state[tx[w].job] = Started /\ tx[w].fresh /\ tx[w].ready
               /\ tx[w].job \notin noticed /\ commits[tx[w].job] = 0 /\ ParentsDone(tx[w].job)
               /\ \A v \in Worker \ {w} : tx[v].at \in Holding => tx[v].job # tx[w].job
    BY <1>b, <1>c
    DEF AloneInv, Holder, Apart, Row, Started, Pending, Done, Cancelled, WaitDependencies
  <1>d. ASSUME UNCHANGED <<tx, state, commits>>, noticed' \subseteq noticed
        PROVE  AloneInv'
    <2>1. \A v, w \in Worker : Apart(v, w)' /\ Holder(w)' /\ Releaser(w)'
      BY <1>d DEF AloneInv, Apart, Holder, Releaser, ParentsDone
    <2>2. \A j \in Job : Row(j)'
      BY <1>d DEF AloneInv, Row, ParentsDone
    <2>3. Canceller'
      BY <1>d DEF AloneInv, Canceller
    <2> QED
      BY <1>a, <1>d, <2>1, <2>2, <2>3 DEF AloneInv
  \* The worker w writes its row and leaves it.
  <1>e. ASSUME NEW w \in Worker, tx[w].at \in Holding, OthersGoOn(w, {tx[w].job}),
               \A i \in Job \ {tx[w].job} : state'[i] = state[i] /\ commits'[i] = commits[i],
               commits'[tx[w].job] = IF state'[tx[w].job] = Done THEN 1 ELSE 0,
               noticed' = noticed,
               tx'[w].at \in {"done", "idle"}
        PROVE  AloneInv'
    <2>1. Holder(w)' /\ Releaser(w)' /\ tx'[w].at \notin Holding
      BY <1>e DEF Holder, Releaser, Holding
    <2>2. Started # Done /\ Started # WaitDependencies
      BY DEF Started, Done, WaitDependencies
    <2> DEFINE S == {tx[w].job}
    <2>3. \A i \in S :
           /\ state[i] # Done
           /\ i \in noticed' => state'[i] \in {Pending, Cancelled}
           /\ state'[i] \notin {WaitDependencies, Cancelled} => ParentsDone(i)
           /\ commits'[i] = IF state'[i] = Done THEN 1 ELSE 0
           /\ \A v \in Worker \ {w} : tx[v].at \in Holding => tx[v].job # i
      BY <1>c, <1>e, <2>2
    <2>4. S \in SUBSET Job /\ OthersGoOn(w, S)
          /\ \A i \in Job \ S : state'[i] = state[i] /\ commits'[i] = commits[i]
      BY <1>b, <1>e
    <2> HIDE DEF S
    <2> QED
      BY <1>a, <1>b, <1>e, <2>1, <2>3, <2>4, AloneStep
  \* The runner writes the row j, which nobody holds.
  <1>f. ASSUME NEW j \in Job, tx' = Committed(tx, {j}),
               \A i \in Job \ {j} : state'[i] = state[i],
               commits' = commits, state[j] # Done, ParentsDone(j), state'[j] # Done,
               noticed' \subseteq noticed \ {j},
               \A v \in Worker : tx[v].at \in Holding => tx[v].job # j
        PROVE  AloneInv'
    <2>1. OthersGoOn(Admin, {j}) /\ Becomes(Admin, tx[Admin], {j})
      BY <1>a, <1>b, <1>f, CommitsAlone
    <2>3. Canceller'
      <3>1. Canceller /\ tx[Admin].job \in Job /\ tx[Admin].wake \subseteq Job
        BY <1>a, <1>b DEF AloneInv, QjTypeOK, Tx
      <3>2. tx[Admin].at = "set_cancelled"
              => Watched(tx[Admin]) = {tx[Admin].job} \cup tx[Admin].wake
        BY DEF Watched
      <3> QED
        BY <1>f, <2>1, <3>1, <3>2, ZenonT(40) DEF Becomes, Canceller
    <2>2. commits[j] = 0
      BY <1>f DEF AloneInv, Row
    <2> QED
      BY <1>a, <1>b, <1>f, <2>1, <2>2, <2>3, AloneStep
  <1>1. CASE UNCHANGED qjVars
    BY <1>1, <1>d DEF qjVars, dbVars, rows, history
  <1>2. ASSUME NEW w \in Worker, NEW j \in Job, StartJob(w, j), noticed' = noticed
        PROVE  AloneInv'
    <2>1. /\ OthersGoOn(w, {j})
          /\ tx'[w].at = "started" /\ tx'[w].job = j /\ tx'[w].fresh
          /\ tx'[w].ready = ParentsDone(j)
      BY <1>2, <1>a, StartEffect
    <2>2. state[j] = Enqueued /\ state'[j] = Started /\ commits' = commits
          /\ \A i \in Job \ {j} : state'[i] = state[i]
      BY <1>2, <1>a DEF StartJob, QjTypeOK
    <2>3. Row(j) /\ ParentsDone(j) /\ j \notin noticed /\ commits[j] = 0
      BY <2>2 DEF AloneInv, Row, Enqueued, WaitDependencies, Pending, Done, Cancelled
    <2>4. \A v \in Worker : tx[v].at \in Holding => tx[v].job # j
      BY <1>c, <2>2 DEF Enqueued, Started
    <2>5. Holder(w)' /\ Releaser(w)'
      BY <2>1, <2>2, <2>3 DEF Holder, Releaser
    <2>6. Enqueued # Done /\ Enqueued # WaitDependencies /\ Started # Done
      BY DEF Enqueued, Done, WaitDependencies, Started
    <2> QED
      BY <1>2, <1>a, <1>b, <2>1, <2>2, <2>3, <2>4, <2>5, <2>6, AloneStep
  <1>3. ASSUME NEW j \in Job, RefuseJob(j) \/ LoseRequest(j), noticed' = noticed
        PROVE  AloneInv'
    BY <1>3, <1>d DEF RefuseJob, LoseRequest, rows, history
  <1>4. ASSUME NEW w \in Worker, TryLock(w), noticed' = noticed
        PROVE  AloneInv'
    <2>1. /\ OthersGoOn(w, {})
          /\ tx'[w].at = IF state[tx[w].job] = Started THEN "locking" ELSE "postpone"
          /\ tx'[w].job = tx[w].job /\ tx'[w].fresh
          /\ tx'[w].ready = tx[w].ready
      BY <1>4, <1>a, TryLockEffect
    <2>2. UNCHANGED <<state, commits>> /\ tx[w].at \in Holding
      BY <1>4 DEF TryLock, rows, history, Holding
    <2> QED
      BY <1>4, <1>a, <2>1, <2>2, AloneInside
  <1>5. ASSUME NEW w \in Worker, Lock(w), noticed' = noticed
        PROVE  AloneInv'
    <2>1. /\ OthersGoOn(w, {}) /\ tx'[w].at = "performing"
          /\ tx'[w].job = tx[w].job /\ (tx'[w].fresh <=> tx[w].fresh)
          /\ tx'[w].ready = tx[w].ready
      BY <1>5, <1>a, LockEffect
    <2>2. UNCHANGED <<state, commits>> /\ tx[w].at \in Holding
      BY <1>5 DEF Lock, rows, history, Holding
    <2> QED
      BY <1>5, <1>a, <2>1, <2>2, AloneInside
  <1>6. ASSUME NEW w \in Worker,
               \/ RaiseRetryable(w) \/ RaiseIgnored(w) \/ RaiseConflict(w) \/ RaiseOther(w)
               \/ Return(w) /\ ~tx[w].fresh,
               noticed' = noticed
        PROVE  AloneInv'
    <2>1. /\ OthersGoOn(w, {}) /\ tx[w].at = "performing"
          /\ tx'[w].at \in {"postpone", "fail"}
          /\ tx'[w].job = tx[w].job /\ (tx'[w].fresh <=> tx[w].fresh)
          /\ tx'[w].ready = tx[w].ready
          /\ UNCHANGED <<state, commits>>
      BY <1>6, <1>a, RaiseEffect
    <2>2. tx[w].at \in Holding
      BY <2>1 DEF Holding
    <2> QED
      BY <1>6, <1>a, <2>1, <2>2, AloneInside
  <1>7. ASSUME NEW w \in Worker, CommitDone(w), tx[w].at = "performing", noticed' = noticed
        PROVE  AloneInv'
    <2>1. OthersGoOn(w, {tx[w].job}) /\ tx'[w].at = "done"
      BY <1>7, <1>a, CommitDoneEffect
    <2>2. tx[w].at \in Holding
      BY <1>7 DEF Holding
    <2>3. /\ state'[tx[w].job] = Done /\ commits'[tx[w].job] = 1
          /\ \A i \in Job \ {tx[w].job} : state'[i] = state[i] /\ commits'[i] = commits[i]
      BY <1>7, <1>a, <1>b, <1>c, <2>2 DEF CommitDone, QjTypeOK
    <2> QED
      BY <1>7, <1>e, <2>1, <2>2, <2>3
  <1>8. ASSUME NEW w \in Worker, Return(w) \/ NothingToDo(w), noticed' = noticed
        PROVE  AloneInv'
    <2>1. tx[w].at = "performing"
      BY <1>8 DEF Return, NothingToDo, Performing
    <2>2. tx[w].fresh
      BY <1>c, <2>1 DEF Holding
    <2> QED
      BY <1>7, <1>8, <2>1, <2>2 DEF Return, NothingToDo
  <1>9. ASSUME NEW w \in Worker, Postpone(w) \/ Fail(w), noticed' = noticed
        PROVE  AloneInv'
    <2>1. tx[w].at \in Holding
      BY <1>9 DEF Postpone, Fail, Holding
    <2>2. tx[w].ready /\ commits[tx[w].job] = 0
      BY <1>c, <2>1
    <2>3. /\ tx' = Committed([tx EXCEPT ![w] = IdleTx], {tx[w].job})
          /\ \A i \in Job \ {tx[w].job} : state'[i] = state[i]
          /\ state'[tx[w].job] # Done
          /\ commits' = commits
      BY <1>9, <1>a, <1>b
         DEF Postpone, Fail, StoreAndLeave, QjTypeOK, SetPending, history,
             Pending, WaitDependencies, Failed, Done
    <2>4. OthersGoOn(w, {tx[w].job}) /\ tx'[w].at = "idle"
      BY <2>3, <1>a, <1>b, LeaveEffect
    <2> QED
      BY <1>9, <1>e, <2>1, <2>2, <2>3, <2>4
  <1>10. ASSUME NEW w \in Worker, SelectDependents(w), noticed' = noticed
         PROVE  AloneInv'
    <2>1. /\ OthersGoOn(w, {}) /\ tx'[w].at = "release"
          /\ tx'[w].wake = {c \in Dependents(tx[w].job, Done) : state[tx[w].job] = Done}
      BY <1>10, <1>a, SelectEffect
    <2>2. UNCHANGED <<state, commits>>
      BY <1>10 DEF SelectDependents, rows, history
    <2>3. ASSUME NEW c \in tx'[w].wake
          PROVE  ParentsDone(c) /\ state[c] = WaitDependencies
      BY <2>1, <2>3 DEF Dependents, ParentsDone
    <2>4. Releaser(w)' /\ Holder(w)' /\ tx'[w].at \notin Holding
      BY <2>1, <2>2, <2>3 DEF Releaser, Holder, Holding, ParentsDone
    <2> QED
      BY <1>10, <1>a, <1>b, <2>1, <2>2, <2>4, AloneStep
  <1>11. ASSUME NEW w \in Worker, EnqueueWaiting(w), noticed' = noticed
         PROVE  AloneInv'
    <2> DEFINE S == IF tx[w].fresh THEN tx[w].wake ELSE {}
    <2>1. tx' = Committed([tx EXCEPT ![w] = IdleTx], S) /\ S \in SUBSET Job
      BY <1>11, <1>b DEF EnqueueWaiting
    <2>2. /\ \A i \in Job \ S : state'[i] = state[i]
          /\ \A i \in S : state'[i] = Pending
          /\ commits' = commits
      BY <1>11, <1>b DEF EnqueueWaiting, history
    <2>3. ASSUME NEW i \in S
          PROVE  state[i] = WaitDependencies /\ ParentsDone(i)
      BY <1>11, <2>3 DEF AloneInv, Releaser, EnqueueWaiting
    <2> HIDE DEF S
    <2>4. ASSUME NEW i \in S
          PROVE  /\ state[i] # Done
                 /\ i \notin noticed'
                 /\ commits'[i] = IF state'[i] = Done THEN 1 ELSE 0
                 /\ \A v \in Worker \ {w} : tx[v].at \in Holding => tx[v].job # i
      <3>1. i \in Job /\ state[i] = WaitDependencies /\ state'[i] = Pending
        BY <2>1, <2>2, <2>3
      <3>2. commits[i] = 0 /\ i \notin noticed
        BY <3>1 DEF AloneInv, Row, WaitDependencies, Pending, Done, Cancelled
      <3>3. \A v \in Worker : tx[v].at \in Holding => tx[v].job # i
        BY <1>c, <3>1 DEF WaitDependencies, Started
      <3> QED
        BY <1>11, <2>2, <3>1, <3>2, <3>3 DEF WaitDependencies, Pending, Done
    <2>5. OthersGoOn(w, S) /\ tx'[w].at = "idle"
      BY <2>1, <1>a, <1>b, LeaveEffect
    <2>6. Releaser(w)' /\ Holder(w)' /\ tx'[w].at \notin Holding
      BY <2>5 DEF Releaser, Holder, Holding
    <2> QED
      <3>1. \A i \in S :
              /\ state[i] # Done
              /\ i \in noticed' => state'[i] \in {Pending, Cancelled}
              /\ state'[i] \notin {WaitDependencies, Cancelled} => ParentsDone(i)
              /\ commits'[i] = IF state'[i] = Done THEN 1 ELSE 0
              /\ \A v \in Worker \ {w} : tx[v].at \in Holding => tx[v].job # i
        BY <2>3, <2>4
      <3>2. \A i \in Job \ S : state'[i] = state[i] /\ commits'[i] = commits[i]
        BY <2>2
      <3>3. noticed' \subseteq noticed /\ w \in Actor /\ S \in SUBSET Job
        BY <1>11, <1>b, <2>1
      <3>4. w # Admin
        BY <1>b
      <3>5. w \in Worker =>
              /\ Holder(w)' /\ Releaser(w)'
              /\ \A v \in Worker \ {w} :
                   tx'[w].at \in Holding /\ tx[v].at \in Holding => tx[v].job # tx'[w].job
        BY <2>6
      <3> QED
        BY <1>a, <2>5, <3>1, <3>2, <3>3, <3>4, <3>5, AloneStep
  <1>12. ASSUME NEW w \in Worker, Crash(w), noticed' = noticed
         PROVE  AloneInv'
    <2>1. tx' = [tx EXCEPT ![w] = IdleTx] /\ UNCHANGED <<state, commits>>
      BY <1>12 DEF Crash, rows
    <2>2. OthersGoOn(w, {}) /\ tx'[w].at = "idle"
      BY <2>1, <1>a, <1>b, LeaveEffect
    <2> QED
      BY <1>12, <1>a, <2>1, <2>2, AloneInside DEF Holding
  <1>18. ASSUME NEW j \in Job, Press("set_cancelled", j), noticed' = noticed
         PROVE  AloneInv'
    <2>1. /\ OthersGoOn(Admin, {}) /\ tx'[Admin].at = "set_cancelled"
          /\ tx'[Admin].job = j /\ tx'[Admin].wake = Dependents(j, Cancelled)
          /\ UNCHANGED <<state, commits>> /\ state[j] \in {Pending, Failed, Enqueued}
          /\ "set_cancelled" \in Buttons
      BY <1>18, <1>a, CancelEffect DEF Press
    <2>2. Canceller'
      BY <2>1 DEF Canceller, Dependents, Children
    <2> QED
      BY <1>18, <1>a, <1>b, <2>1, <2>2, AloneStep
  <1>19. ASSUME CommitPress, noticed' = noticed
         PROVE  AloneInv'
    <2>. DEFINE t == tx[Admin]
                S == {t.job} \cup t.wake
    <2>1. /\ t.at = "set_cancelled" /\ t.fresh /\ S \in SUBSET Job /\ t.job \in Job
          /\ state[t.job] \in {Pending, Failed, Enqueued}
          /\ \A c \in t.wake : state[c] = WaitDependencies
      BY <1>19, <1>a, <1>b DEF CommitPress, AloneInv, Canceller, QjTypeOK, Tx
    <2>2. /\ OthersGoOn(Admin, S) /\ tx'[Admin].at = "idle"
          /\ \A i \in S : state'[i] = Cancelled
          /\ \A i \in Job \ S : state'[i] = state[i]
          /\ commits' = commits
      BY <1>19, <1>a, <1>b, <2>1, LeaveEffect DEF CommitPress, history
    <2>3. \A i \in S : state[i] \in {Pending, Failed, Enqueued, WaitDependencies}
      BY <2>1
    <2>. HIDE DEF S
    <2>4. ASSUME NEW i \in S
          PROVE  /\ state[i] # Done
                 /\ commits'[i] = IF state'[i] = Done THEN 1 ELSE 0
                 /\ \A v \in Worker : tx[v].at \in Holding => tx[v].job # i
      BY <1>c, <2>1, <2>2, <2>3
      DEF AloneInv, Row, Pending, Failed, Enqueued, WaitDependencies, Done, Started, Cancelled
    <2>5. Canceller'
      BY <2>2 DEF Canceller
    <2> QED
      BY <1>19, <1>a, <1>b, <2>1, <2>2, <2>4, <2>5, AloneStep
  <1>20. ASSUME RollBackPress, noticed' = noticed
         PROVE  AloneInv'
    <2>1. /\ OthersGoOn(Admin, {}) /\ tx'[Admin].at = "idle"
          /\ UNCHANGED <<state, commits>>
      BY <1>20, <1>a, <1>b, LeaveEffect DEF RollBackPress, rows, history
    <2>2. Canceller'
      BY <2>1 DEF Canceller
    <2> QED
      BY <1>20, <1>a, <1>b, <2>1, <2>2, AloneStep
  <1>13. ASSUME User, noticed' = noticed
         PROVE  AloneInv'
    <2>1. ASSUME NEW op \in Buttons, NEW j \in Job, Press(op, j)
          PROVE  AloneInv'
      <3>1. op = "set_cancelled"
        BY DEF Alone
      <3> QED
        BY <1>13, <1>18, <2>1, <3>1
    <2> QED
      BY <1>13, <1>19, <1>20, <2>1 DEF User
  <1>14. ASSUME NEW j \in Job, RequeueDeadJob(j), noticed' = noticed
         PROVE  AloneInv'
    <2>1. /\ tx' = Committed(tx, {j}) /\ state[j] \in Active /\ commits' = commits
          /\ \A i \in Job \ {j} : state'[i] = state[i]
          /\ state'[j] \in {Failed, Pending}
      BY <1>14, <1>a DEF RequeueDeadJob, QjTypeOK, history
    <2>2. ASSUME NEW v \in Worker, tx[v].at \in Holding, tx[v].job = j
          PROVE  FALSE
      <3>1. tx[v].locked /\ LockedBy(j) = {}
        BY <1>14, <2>2 DEF RequeueDeadJob, Owners, Alone
      <3> QED
        BY <1>b, <2>2, <3>1 DEF LockedBy
    <2>3. j \notin noticed /\ ParentsDone(j)
      BY <2>1
      DEF AloneInv, Row, Active, Pending, Enqueued, Started, Cancelled, WaitDependencies
    <2>4. state[j] # Done /\ state'[j] # Done
      BY <2>1 DEF Active, Enqueued, Started, Done, Failed, Pending
    <2> QED
      BY <1>14, <1>f, <2>1, <2>2, <2>3, <2>4
  <1>15. ASSUME NEW j \in Job, Enqueue(j)
         PROVE  AloneInv'
    <2>1. /\ tx' = Committed(tx, {j}) /\ commits' = commits
          /\ \A i \in Job \ {j} : state'[i] = state[i]
          /\ state'[j] = Enqueued /\ noticed' = noticed \ {j} /\ j \in noticed
      BY <1>15, <1>a DEF Enqueue, SetJobEnqueued, QjTypeOK, history
    <2>2. state[j] \in {Pending, Cancelled} /\ ParentsDone(j)
      BY <2>1 DEF AloneInv, Row
    <2>3. \A v \in Worker : tx[v].at \in Holding => tx[v].job # j
      BY <1>c, <2>2 DEF Pending, Cancelled, Started
    <2>4. state[j] # Done /\ state'[j] # Done
      BY <2>1, <2>2 DEF Enqueued, Done, Cancelled, Pending
    <2> QED
      BY <1>f, <2>1, <2>2, <2>3, <2>4
  <1>16. ASSUME NEW j \in Job, Notice(j)
         PROVE  AloneInv'
    <2>1. UNCHANGED <<tx, state, commits>> /\ noticed' = noticed \cup {j} /\ state[j] = Pending
      BY <1>16 DEF Notice, dbVars, rows, history
    <2>2. \A v, w \in Worker : Apart(v, w)' /\ Holder(w)' /\ Releaser(w)'
      BY <2>1 DEF AloneInv, Apart, Holder, Releaser, ParentsDone
    <2>3. \A i \in Job : Row(i)'
      BY <2>1 DEF AloneInv, Row, ParentsDone, Pending, Cancelled, WaitDependencies
    <2>4. Canceller'
      BY <2>1 DEF AloneInv, Canceller
    <2> QED
      BY <1>a, <2>1, <2>2, <2>3, <2>4 DEF AloneInv
  <1>17. ASSUME NEW S \in SUBSET noticed, Forget(S)
         PROVE  AloneInv'
    BY <1>17, <1>d DEF Forget, dbVars, rows, history
  <1> QED
    BY <1>1, <1>2, <1>3, <1>4, <1>5, <1>6, <1>8, <1>9, <1>10, <1>11, <1>12, <1>13, <1>14, <1>15,
       <1>16, <1>17
       DEF QjNext, Database, Serve, Perform, Execute

\* Workers of Job.perform are apart, and rows, commits and parents agree.
THEOREM AloneInvariant == ASSUME Alone PROVE QjSpec => []AloneInv
  <1>1. AloneInv /\ [QjNext]_qjVars => AloneInv'
    BY AloneNext
  <1> QED
    BY <1>1, AloneInit, PTL DEF QjSpec

\* Whoever has a Job object whose row it will write is alone with it, whatever
\* the number of workers, crashes, requests and dependencies.
THEOREM HolderIsSole == ASSUME Alone PROVE QjSpec => []SingleOwner
  <1>1. AloneInv => SingleOwner
    BY DEF AloneInv, SingleOwner, Owners, Holder, Apart
  <1> QED
    BY <1>1, AloneInvariant, PTL

\* The work of a job is committed once, exactly when its row says done.
THEOREM WorkCommittedOnce == ASSUME Alone PROVE QjSpec => []CommittedOnce
  <1>1. AloneInv => CommittedOnce
    BY DEF AloneInv, CommittedOnce, Row
  <1> QED
    BY <1>1, AloneInvariant, PTL

-----------------------------------------------------------------------------
(* JobLife *)

\* JobLife has the same states and parents.
LEMMA LifeStates ==
  /\ Life!WaitDependencies = WaitDependencies /\ Life!Pending = Pending
  /\ Life!Enqueued = Enqueued /\ Life!Started = Started /\ Life!Done = Done
  /\ Life!Cancelled = Cancelled /\ Life!Failed = Failed /\ Life!Active = Active
  /\ \A j \in Job : Life!AllDone(Parents[j]) <=> ParentsDone(j)
  BY DEF Life!WaitDependencies, Life!Pending, Life!Enqueued, Life!Started, Life!Done,
         Life!Cancelled, Life!Failed, Life!Active, Life!AllDone, ParentsDone,
         WaitDependencies, Pending, Enqueued, Started, Done, Cancelled, Failed, Active

\* One row is written.
LEMMA OneRow ==
  ASSUME state \in [Job -> States], NEW j \in Job, NEW s, state' = [state EXCEPT ![j] = s]
  PROVE  Life!Become({j}, s)
  BY DEF Life!Become

\* The row of the worker w is written by its holder.
LEMMA HolderLives ==
  ASSUME AloneInv, NEW w \in Worker,
         \/ CommitDone(w) /\ tx[w].at = "performing"
         \/ Postpone(w) \/ Fail(w)
  PROVE  Life!LifeNext
  <1>. DEFINE j == tx[w].job
  <1>1. /\ j \in Job /\ state \in [Job -> States]
        /\ state[j] = Started /\ tx[w].ready
    <2>1. tx[w].at \in Holding
      BY DEF Postpone, Fail, Holding
    <2>2. w \in Actor /\ Holder(w)
      BY DEF AloneInv, Actor
    <2> QED
      BY <2>1, <2>2 DEF AloneInv, Holder, QjInv, QjTypeOK, Tx
  <1>2. state[j] \in Active
    BY <1>1 DEF Active
  <1>3. CASE CommitDone(w)
    <2>1. Life!Become({j}, Done) /\ commits' = [commits EXCEPT ![j] = @ + 1]
      BY <1>1, <1>3, OneRow DEF CommitDone
    <2> QED
      BY <1>1, <2>1, LifeStates DEF Life!LifeNext, Life!Complete
  <1>4. CASE Postpone(w)
    <2>1. Life!Become({j}, Pending) /\ commits' = commits
      BY <1>1, <1>4, OneRow DEF Postpone, StoreAndLeave, SetPending, history
    <2> QED
      BY <1>1, <1>2, <2>1, LifeStates DEF Life!LifeNext, Life!TryAgain
  <1>5. CASE Fail(w)
    <2>1. Life!Become({j}, Failed) /\ commits' = commits
      BY <1>1, <1>5, OneRow DEF Fail, StoreAndLeave, history
    <2> QED
      BY <1>1, <1>2, <2>1, LifeStates DEF Life!LifeNext, Life!GiveUp
  <1> QED
    BY <1>3, <1>4, <1>5

\* The other steps of workers: children are released when their parents are done.
LEMMA ReleaserLives ==
  ASSUME AloneInv, NEW w \in Worker, EnqueueWaiting(w)
  PROVE  Life!LifeNext
  <1>. DEFINE S == IF tx[w].fresh THEN tx[w].wake ELSE {}
  <1>1. w \in Actor /\ tx[w].wake \subseteq Job /\ Releaser(w) /\ tx[w].at = "release"
    BY DEF AloneInv, Actor, QjInv, QjTypeOK, Tx, EnqueueWaiting
  <1>2. S \in SUBSET Job
    BY <1>1
  <1>3. \A c \in S : state[c] = WaitDependencies /\ Life!AllDone(Parents[c])
    BY <1>1, LifeStates DEF Releaser
  <1>4. Life!Become(S, Pending) /\ UNCHANGED commits
    BY DEF EnqueueWaiting, Life!Become, history
  <1>5. Life!Release(S)
    BY <1>3, <1>4, LifeStates DEF Life!Release
  <1>. HIDE DEF S
  <1> QED
    BY <1>2, <1>5 DEF Life!LifeNext

\* The runner and the requests.
LEMMA RunnerLives ==
  ASSUME AloneInv, NEW j \in Job,
         \/ \E w \in Worker : StartJob(w, j)
         \/ RequeueDeadJob(j) \/ Enqueue(j)
  PROVE  Life!LifeNext
  <1>1. state \in [Job -> States] /\ Row(j)
    BY DEF AloneInv, QjInv, QjTypeOK
  <1>2. ASSUME NEW w \in Worker, StartJob(w, j) PROVE Life!LifeNext
    <2>1. state[j] = Enqueued /\ Life!Become({j}, Started) /\ UNCHANGED commits
      BY <1>1, <1>2, OneRow DEF StartJob
    <2> QED
      BY <2>1, LifeStates DEF Life!LifeNext, Life!Take
  <1>3. CASE RequeueDeadJob(j)
    <2>1. PICK s \in {Failed, Pending} : state' = [state EXCEPT ![j] = s]
      BY <1>3 DEF RequeueDeadJob
    <2>2. state[j] \in Active /\ Life!Become({j}, s) /\ UNCHANGED commits
      BY <1>1, <1>3, <2>1, OneRow DEF RequeueDeadJob, history
    <2> QED
      BY <2>1, <2>2, LifeStates DEF Life!LifeNext, Life!TryAgain, Life!GiveUp
  <1>4. CASE Enqueue(j)
    <2>1. j \in noticed /\ Life!Become({j}, Enqueued) /\ UNCHANGED commits
      BY <1>1, <1>4, OneRow DEF Enqueue, SetJobEnqueued, history
    <2>2. state[j] \in {Pending, Cancelled} /\ Life!AllDone(Parents[j])
      BY <1>1, <2>1, LifeStates DEF Row
    <2> QED
      BY <2>1, <2>2, LifeStates DEF Life!LifeNext, Life!Hand
  <1> QED
    BY <1>2, <1>3, <1>4

\* A user cancels.
LEMMA CancelLives ==
  ASSUME AloneInv, CommitPress
  PROVE  Life!LifeNext
  <1>. DEFINE t == tx[Admin]
              S == t.wake \ {t.job}
  <1>1. /\ t.at = "set_cancelled" /\ t.fresh /\ t.job \in Job /\ t.wake \subseteq Job
        /\ state[t.job] \in {Pending, Failed, Enqueued}
        /\ \A c \in t.wake : state[c] = WaitDependencies
    BY DEF CommitPress, AloneInv, Canceller, QjInv, QjTypeOK, Tx, Actor
  <1>2. \A c \in t.wake : t.job \in Parents[c]
    BY <1>1 DEF AloneInv, Canceller
  <1>3. Life!Become({t.job} \cup S, Cancelled) /\ UNCHANGED commits
    BY <1>1 DEF CommitPress, Life!Become, history
  <1>4. S \in SUBSET Job /\ Life!Cancel(t.job, S)
    BY <1>1, <1>2, <1>3, LifeStates DEF Life!Cancel
  <1>. HIDE DEF S, t
  <1> QED
    BY <1>1, <1>4 DEF Life!LifeNext

\* Every step moves the rows as JobLife does, or leaves them.
LEMMA EveryoneLives ==
  ASSUME Alone, AloneInv, [QjNext]_qjVars
  PROVE  [Life!LifeNext]_(Life!lifeVars)
  <1>1. CASE UNCHANGED <<state, commits>>
    BY <1>1 DEF Life!lifeVars
  <1>2. ASSUME NEW w \in Worker, Return(w) \/ NothingToDo(w)
        PROVE  UNCHANGED <<state, commits>> \/ Life!LifeNext
    BY <1>2, HolderLives DEF Return, NothingToDo, Performing, rows, history
  <1>3. ASSUME NEW w \in Worker, Postpone(w) \/ Fail(w)
        PROVE  Life!LifeNext
    BY <1>3, HolderLives
  <1>4. ASSUME NEW w \in Worker, EnqueueWaiting(w)
        PROVE  Life!LifeNext
    BY <1>4, ReleaserLives
  <1>5. ASSUME NEW j \in Job, (\E w \in Worker : StartJob(w, j)) \/ RequeueDeadJob(j) \/ Enqueue(j)
        PROVE  Life!LifeNext
    BY <1>5, RunnerLives
  <1>6. CASE CommitPress
    BY <1>6, CancelLives
  <1>7. ASSUME NEW w \in Worker,
               \/ TryLock(w) \/ Lock(w) \/ RaiseRetryable(w) \/ RaiseIgnored(w)
               \/ RaiseConflict(w) \/ RaiseOther(w) \/ SelectDependents(w) \/ Crash(w)
        PROVE  UNCHANGED <<state, commits>>
    BY <1>7 DEF TryLock, Lock, RaiseRetryable, RaiseIgnored, RaiseConflict, RaiseOther,
                SelectDependents, Crash, rows, history
  <1>8. ASSUME NEW j \in Job, RefuseJob(j) \/ LoseRequest(j) \/ Notice(j)
        PROVE  UNCHANGED <<state, commits>>
    BY <1>8 DEF RefuseJob, LoseRequest, Notice, dbVars, rows, history
  <1>9. RollBackPress \/ (\E op \in Buttons, j \in Job : Press(op, j))
          => UNCHANGED <<state, commits>>
    BY DEF RollBackPress, Press, rows, history
  <1>10. (\E S \in SUBSET noticed : Forget(S)) \/ UNCHANGED qjVars
           => UNCHANGED <<state, commits>>
    BY DEF Forget, qjVars, dbVars, rows, history
  <1>11. Life!LifeNext => [Life!LifeNext]_(Life!lifeVars)
    OBVIOUS
  <1> QED
    BY <1>1, <1>2, <1>3, <1>4, <1>5, <1>6, <1>7, <1>8, <1>9, <1>10, <1>11
    DEF QjNext, Database, Serve, Perform, Execute, User

\* When no live worker is taken for dead and users at most cancel, the rows live
\* as JobLife says, for every graph of jobs, number of workers, crash, repeated
\* or lost request, and stale copy of the runner.
THEOREM RowsLiveOn == ASSUME Alone PROVE QjSpec => ImplementsJobLife
  <1>1. QjInit => Life!LifeInit
    BY LifeStates DEF QjInit, SetPending, Life!LifeInit
  <1>2. AloneInv /\ [QjNext]_qjVars => [Life!LifeNext]_(Life!lifeVars)
    BY EveryoneLives
  <1> QED
    BY <1>1, <1>2, AloneInvariant, PTL DEF QjSpec, ImplementsJobLife, Life!LifeSpec

\* No job goes back to waiting for its parents: a worker that postpones it found
\* them done, and nobody requeues it by hand.
LEMMA NobodyWaitsAgain ==
  ASSUME Alone, AloneInv, Database, NEW j \in Job, state[j] # WaitDependencies
  PROVE  state'[j] # WaitDependencies
  <1>. USE DEF Pending, Enqueued, Started, Done, Failed, Cancelled, WaitDependencies
  <1>1. state \in [Job -> States] /\ tx[Admin].at \in {"idle", "set_cancelled"}
    BY DEF AloneInv, QjInv, QjTypeOK, Canceller
  <1>2. ASSUME NEW i \in Job, Serve(i) \/ RequeueDeadJob(i) \/ LoseRequest(i)
        PROVE  state'[j] # WaitDependencies
    BY <1>1, <1>2 DEF Serve, StartJob, RefuseJob, RequeueDeadJob, LoseRequest, rows
  <1>3. ASSUME NEW w \in Worker, Return(w) \/ NothingToDo(w)
        PROVE  state'[j] # WaitDependencies
    BY <1>1, <1>3 DEF Return, NothingToDo, CommitDone, rows
  <1>4. ASSUME NEW w \in Worker, Postpone(w) \/ Fail(w)
        PROVE  state'[j] # WaitDependencies
    <2>1. Postpone(w) => tx[w].ready
      BY DEF Postpone, AloneInv, Holder, Holding
    <2>. QED
      BY <1>1, <1>4, <2>1 DEF Postpone, Fail, StoreAndLeave, SetPending
  <1>5. ASSUME NEW w \in Worker, EnqueueWaiting(w)
        PROVE  state'[j] # WaitDependencies
    BY <1>1, <1>5 DEF EnqueueWaiting
  <1>6. CASE UNCHANGED state
    BY <1>6
  <1>7. CASE CommitPress
    BY <1>1, <1>7 DEF CommitPress
  <1>. QED
    BY <1>2, <1>3, <1>4, <1>5, <1>6, <1>7
    DEF Database, Perform, Execute, TryLock, Lock, RaiseRetryable, RaiseIgnored, RaiseConflict,
        RaiseOther, SelectDependents, Crash, User, RollBackPress, Press, rows

\* A child leaves wait_dependencies only once all its parents are done, or when a
\* user cancels it.
THEOREM ChildrenReleasedWhenDone == ASSUME Alone PROVE QjSpec => []ReleasedWhenDone
  <1>1. AloneInv => ReleasedWhenDone
    BY DEF AloneInv, ReleasedWhenDone, Row
  <1> QED
    BY <1>1, AloneInvariant, PTL

-----------------------------------------------------------------------------
(* The number of attempts *)

Bounded(j) ==
  MaxRetries[j] > 0 /\ Outcomes[j] \subseteq {"ok", "nothing", "retry", "fail"}

\* The tries in the row are behind the starts by the start in progress; they
\* are at most one over the limit while the job may start again.
Counted(j) ==
  /\ runs[j] <= MaxRetries[j] + 2
  /\ runs[j] <= retry[j] + IF state[j] = Started THEN 1 ELSE 0
  /\ state[j] \notin {Done, Failed, Cancelled} \/ j \in noticed => retry[j] <= MaxRetries[j] + 1

\* The Job object counts the try when it has the lock; a job is postponed only
\* below its limit.
Counting(w) ==
  LET j == tx[w].job IN
  /\ tx[w].at \in {"started", "locking"} => tx[w].retry = retry[j]
  /\ tx[w].at \in {"performing", "postpone", "fail"} => tx[w].retry = retry[j] + 1
  /\ tx[w].at = "postpone" => tx[w].retry < MaxRetries[j]

\* Cancelling a job stores the tries that were read.
Uncounting ==
  tx[Admin].at = "set_cancelled" /\ tx[Admin].fresh => tx[Admin].retry = retry[tx[Admin].job]

AttemptsInv ==
  /\ Uncounting
  /\ \A j \in Job : Bounded(j) => Counted(j)
  /\ \A w \in Worker : Bounded(tx[w].job) => Counting(w)

\* The exceptions of a method that is bounded.
LEMMA RaiseCounts ==
  ASSUME QjTypeOK, NEW w \in Worker, RaiseRetryable(w) \/ RaiseOther(w)
  PROVE  /\ tx'[w].retry = tx[w].retry
         /\ tx'[w].at = "postpone" =>
              MaxRetries[tx[w].job] = 0 \/ tx[w].retry < MaxRetries[tx[w].job]
         /\ tx'[w].at \in {"postpone", "fail"}
  <1>1. w \in Actor /\ tx[w] \in Tx /\ {"postpone", "fail"} \subseteq Steps
    BY DEF QjTypeOK, Actor, Steps
  <1>2. MaxRetries[tx[w].job] \in Nat /\ tx[w].retry \in Nat
    BY <1>1, QueueJobAssumption DEF Tx
  <1>3. CASE RaiseRetryable(w)
    <2> DEFINE m == MaxRetries[tx[w].job]
               x == IF m # 0 /\ tx[w].retry >= m THEN "fail" ELSE "postpone"
               u == [tx[w] EXCEPT !.at = x]
    <2>1. x \in Steps
      BY <1>1
    <2>2. u \in Tx
      BY <1>1, <2>1, TxUpdates
    <2>3. u.at = x /\ u.retry = tx[w].retry
      BY <1>1, <2>1, Records
    <2>4. tx' = [tx EXCEPT ![w] = u]
      BY <1>3 DEF RaiseRetryable, Continue
    <2>5. x \in {"postpone", "fail"} /\ (x = "postpone" => m = 0 \/ tx[w].retry < m)
      BY <1>2
    <2> HIDE DEF u, x
    <2>6. Becomes(w, u, {})
      BY <1>1, <2>2, <2>4, Continues
    <2> QED
      BY <2>3, <2>5, <2>6 DEF Becomes
  <1>4. CASE RaiseOther(w)
    <2>1. PICK b \in BOOLEAN :
            tx' = [tx EXCEPT ![w] = [tx[w] EXCEPT !.at = "fail", !.locked = b]]
      BY <1>4 DEF RaiseOther, Continue
    <2> DEFINE u == [tx[w] EXCEPT !.at = "fail", !.locked = b]
    <2>2. u \in Tx
      BY <1>1, TxUpdates
    <2>3. u.at = "fail" /\ u.retry = tx[w].retry
      BY <1>1, Records
    <2>4. tx' = [tx EXCEPT ![w] = u]
      BY <2>1
    <2> HIDE DEF u
    <2>5. Becomes(w, u, {})
      BY <1>1, <2>2, <2>4, Continues
    <2> QED
      BY <2>3, <2>5 DEF Becomes
  <1> QED
    BY <1>3, <1>4

\* The transaction of w makes a step that writes the rows S, none of which
\* belongs to another worker.
LEMMA AttemptsStep ==
  ASSUME AttemptsInv, QjTypeOK, NEW w \in Actor, NEW S \in SUBSET Job, OthersGoOn(w, S),
         \A i \in Job \ S : state'[i] = state[i] /\ retry'[i] = retry[i] /\ runs'[i] = runs[i],
         \A i \in S : Bounded(i) => Counted(i)',
         noticed' \subseteq noticed,
         w = Admin => Uncounting',
         \A i \in S, v \in Worker \ {w} : tx[v].at \in Holding => tx[v].job # i,
         w \in Worker /\ Bounded(tx'[w].job) => Counting(w)'
  PROVE  AttemptsInv'
  <1>1. ASSUME NEW j \in Job, Bounded(j)
        PROVE  Counted(j)'
    <2>1. CASE j \in S
      BY <1>1, <2>1
    <2>2. CASE j \notin S
      BY <1>1, <2>2 DEF AttemptsInv, Counted
    <2> QED
      BY <2>1, <2>2
  <1>2. ASSUME NEW v \in Worker, v # w, Bounded(tx'[v].job)
        PROVE  Counting(v)'
    <2>1. v \in Actor \ {w} /\ tx[v].job \in Job
      BY <1>2 DEF Actor, QjTypeOK, Tx
    <2>2. tx'[v].at = tx[v].at /\ tx'[v].job = tx[v].job /\ tx'[v].retry = tx[v].retry
      BY <2>1 DEF OthersGoOn
    <2>3. tx[v].at \in Holding => retry'[tx[v].job] = retry[tx[v].job]
      BY <1>2, <2>1
    <2>4. Counting(v)
      BY <1>2, <2>2 DEF AttemptsInv
    <2> QED
      BY <2>2, <2>3, <2>4 DEF Counting, Holding
  <1>3. Uncounting'
    <2>. SUFFICES ASSUME w # Admin
                  PROVE  Uncounting'
      OBVIOUS
    <2>1. Admin \in Actor \ {w} /\ Uncounting /\ tx[Admin].job \in Job
      BY DEF AttemptsInv, QjTypeOK, Tx, Actor
    <2>2. /\ tx'[Admin].at = tx[Admin].at /\ tx'[Admin].job = tx[Admin].job
          /\ tx'[Admin].retry = tx[Admin].retry
          /\ tx'[Admin].fresh <=> tx[Admin].fresh /\ Watched(tx[Admin]) \cap S = {}
      BY <2>1 DEF OthersGoOn
    <2>3. tx[Admin].at = "set_cancelled" => tx[Admin].job \in Watched(tx[Admin])
      BY DEF Watched
    <2>. QED
      BY <2>1, <2>2, <2>3 DEF Uncounting
  <1> QED
    BY <1>1, <1>2, <1>3 DEF AttemptsInv, Bounded

\* Every step keeps the count of the starts below the tries it was given.
LEMMA AttemptsNext ==
  ASSUME Alone, AloneInv, AttemptsInv, [QjNext]_qjVars
  PROVE  AttemptsInv'
  <1>a. QjInv /\ QjTypeOK /\ TryCounted
    BY DEF AloneInv, QjInv
  <1>b. /\ Admin \in Actor /\ Admin \notin Worker
        /\ \A w \in Worker :
             w \in Actor /\ tx[w].job \in Job /\ tx[w].wake \subseteq Job /\ tx[w].retry \in Nat
    BY <1>a, QueueJobAssumption DEF Actor, QjTypeOK, Tx
  <1>c. \A j \in Job : MaxRetries[j] \in Nat /\ retry[j] \in Nat /\ runs[j] \in Nat
    BY <1>a, QueueJobAssumption DEF QjTypeOK
  <1>d. ASSUME NEW w \in Worker, tx[w].at \in Holding
        PROVE  /\ state[tx[w].job] = Started /\ tx[w].fresh /\ tx[w].job \notin noticed
               /\ \A v \in Worker \ {w} : tx[v].at \in Holding => tx[v].job # tx[w].job
    BY <1>b, <1>d DEF AloneInv, Holder, Apart, Row, Started, Pending, Cancelled
  <1>e. ASSUME UNCHANGED <<tx, state, retry, runs>>, noticed' \subseteq noticed
        PROVE  AttemptsInv'
    BY <1>e DEF AttemptsInv, Counted, Counting, Uncounting
  \* The worker w writes no row.
  <1>f. ASSUME NEW w \in Worker, OthersGoOn(w, {}), UNCHANGED <<state, retry, runs, noticed>>,
               Bounded(tx'[w].job) => Counting(w)'
        PROVE  AttemptsInv'
    BY <1>a, <1>b, <1>f, QueueJobAssumption, AttemptsStep
  \* The worker w writes its row and leaves it.
  <1>g. ASSUME NEW w \in Worker, tx[w].at \in {"performing", "postpone", "fail"},
               OthersGoOn(w, {tx[w].job}),
               \A i \in Job \ {tx[w].job} :
                 state'[i] = state[i] /\ retry'[i] = retry[i] /\ runs'[i] = runs[i],
               runs'[tx[w].job] = runs[tx[w].job],
               retry'[tx[w].job] = tx[w].retry,
               state'[tx[w].job] \in {Done, Failed} \/ tx[w].at = "postpone",
               tx'[w].at \in {"done", "idle"}, noticed' = noticed
        PROVE  AttemptsInv'
    <2>1. PICK j \in Job : j = tx[w].job
      BY <1>b
    <2>2. tx[w].at \in Holding
      BY <1>g DEF Holding
    <2>3. ASSUME Bounded(j)
          PROVE  Counted(j)'
      <3>1. Counted(j) /\ Counting(w)
        BY <2>1, <2>3 DEF AttemptsInv
      <3>2. retry'[j] = retry[j] + 1 /\ runs'[j] = runs[j]
        BY <1>g, <2>1, <3>1 DEF Counting
      <3>3. runs[j] <= MaxRetries[j] + 2 /\ runs[j] <= retry[j] + 1
        BY <1>c, <2>1, <3>1 DEF Counted
      <3>4. tx[w].at = "postpone" => retry[j] + 1 < MaxRetries[j]
        BY <1>g, <2>1, <3>1, <3>2 DEF Counting
      <3>5. runs'[j] <= retry'[j] + IF state'[j] = Started THEN 1 ELSE 0
        BY <1>c, <2>1, <3>2, <3>3
      <3>6. state'[j] \notin {Done, Failed} => retry'[j] <= MaxRetries[j] + 1
        BY <1>c, <1>g, <2>1, <3>2, <3>4
      <3>7. j \notin noticed'
        BY <1>d, <1>g, <2>1, <2>2
      <3> QED
        BY <3>2, <3>3, <3>5, <3>6, <3>7 DEF Counted
    <2>4. \A v \in Worker \ {w} : tx[v].at \in Holding => tx[v].job # j
      BY <1>d, <2>1, <2>2
    <2>5. Counting(w)'
      BY <1>g DEF Counting
    <2>6. OthersGoOn(w, {j})
      BY <1>g, <2>1
    <2> QED
      BY <1>a, <1>b, <1>g, <2>1, <2>3, <2>4, <2>5, <2>6, AttemptsStep
  \* The runner writes the row j, which nobody holds.
  <1>h. ASSUME NEW j \in Job, tx' = Committed(tx, {j}),
               \A i \in Job \ {j} : state'[i] = state[i] /\ retry'[i] = retry[i],
               runs' = runs, Bounded(j) => Counted(j)', noticed' \subseteq noticed,
               \A v \in Worker : tx[v].at \in Holding => tx[v].job # j
        PROVE  AttemptsInv'
    <2>1. OthersGoOn(Admin, {j}) /\ Becomes(Admin, tx[Admin], {j}) /\ Admin \notin Worker
      BY <1>a, <1>b, <1>h, CommitsAlone, QueueJobAssumption
    <2>2. Uncounting'
      <3>1. Uncounting /\ tx[Admin].job \in Job
        BY <1>a, <1>b DEF AttemptsInv, QjTypeOK, Tx
      <3>2. tx[Admin].at = "set_cancelled" => tx[Admin].job \in Watched(tx[Admin])
        BY DEF Watched
      <3>. QED
        BY <1>h, <2>1, <3>1, <3>2 DEF Becomes, Uncounting
    <2> QED
      BY <1>a, <1>b, <1>h, <2>1, <2>2, AttemptsStep
  <1>1. CASE UNCHANGED qjVars
    BY <1>1, <1>e DEF qjVars, dbVars, rows, history
  <1>2. ASSUME NEW w \in Worker, NEW j \in Job, StartJob(w, j), noticed' = noticed
        PROVE  AttemptsInv'
    <2>1. /\ OthersGoOn(w, {j})
          /\ tx'[w].at = "started" /\ tx'[w].job = j /\ tx'[w].retry = retry[j]
      BY <1>2, <1>a, StartEffect
    <2>2. /\ state[j] = Enqueued /\ state'[j] = Started
          /\ retry' = retry /\ runs'[j] = runs[j] + 1
          /\ \A i \in Job \ {j} : state'[i] = state[i] /\ runs'[i] = runs[i]
      BY <1>2, <1>a DEF StartJob, QjTypeOK
    <2>3. \A v \in Worker : tx[v].at \in Holding => tx[v].job # j
      BY <1>d, <2>2 DEF Enqueued, Started
    <2>4. ASSUME Bounded(j)
          PROVE  Counted(j)'
      <3>1. runs[j] <= retry[j] /\ retry[j] <= MaxRetries[j] + 1
        BY <1>c, <2>2, <2>4 DEF AttemptsInv, Counted, Enqueued, Started, Done, Failed, Cancelled
      <3> QED
        BY <1>2, <1>c, <2>2, <3>1 DEF Counted
    <2>5. Counting(w)'
      BY <2>1, <2>2 DEF Counting
    <2> QED
      BY <1>2, <1>a, <1>b, <2>1, <2>2, <2>3, <2>4, <2>5, AttemptsStep
  <1>3. ASSUME NEW j \in Job, RefuseJob(j) \/ LoseRequest(j), noticed' = noticed
        PROVE  AttemptsInv'
    BY <1>3, <1>e DEF RefuseJob, LoseRequest, rows, history
  <1>4. ASSUME NEW w \in Worker, TryLock(w), noticed' = noticed
        PROVE  AttemptsInv'
    <2>1. tx[w].at = "started" /\ UNCHANGED <<state, retry, runs>>
      BY <1>4 DEF TryLock, rows, history
    <2>2. /\ OthersGoOn(w, {})
          /\ tx'[w].at = IF state[tx[w].job] = Started THEN "locking" ELSE "postpone"
          /\ tx'[w].job = tx[w].job /\ tx'[w].retry = tx[w].retry
      BY <1>4, <1>a, TryLockEffect
    <2>3. tx'[w].at = "locking"
      BY <1>d, <2>1, <2>2 DEF Holding
    <2>4. Bounded(tx'[w].job) => Counting(w)'
      BY <2>1, <2>2, <2>3 DEF AttemptsInv, Counting
    <2> QED
      BY <1>4, <1>f, <2>1, <2>2, <2>4
  <1>5. ASSUME NEW w \in Worker, Lock(w), noticed' = noticed
        PROVE  AttemptsInv'
    <2>1. tx[w].at = "locking" /\ UNCHANGED <<state, retry, runs>>
      BY <1>5 DEF Lock, rows, history
    <2>2. /\ OthersGoOn(w, {}) /\ tx'[w].at = "performing"
          /\ tx'[w].job = tx[w].job /\ tx'[w].retry = tx[w].retry + 1
      BY <1>5, <1>a, LockEffect
    <2>3. Bounded(tx'[w].job) => Counting(w)'
      BY <2>1, <2>2 DEF AttemptsInv, Counting
    <2> QED
      BY <1>5, <1>f, <2>1, <2>2, <2>3
  <1>6. ASSUME NEW w \in Worker,
               \/ RaiseRetryable(w) \/ RaiseIgnored(w) \/ RaiseConflict(w) \/ RaiseOther(w)
               \/ Return(w) /\ ~tx[w].fresh,
               noticed' = noticed
        PROVE  AttemptsInv'
    <2>1. /\ OthersGoOn(w, {}) /\ tx[w].at = "performing"
          /\ tx'[w].job = tx[w].job
          /\ UNCHANGED <<state, retry, runs>>
      BY <1>6, <1>a, RaiseEffect
    <2>2. ASSUME Bounded(tx[w].job)
          PROVE  Counting(w)'
      <3>1. RaiseRetryable(w) \/ RaiseOther(w)
        <4>1. tx[w].fresh
          BY <1>d, <2>1 DEF Holding
        <4>2. ~RaiseIgnored(w) /\ ~RaiseConflict(w)
          BY <2>2 DEF RaiseIgnored, RaiseConflict, Performing, Bounded
        <4> QED
          BY <1>6, <4>1, <4>2
      <3>2. /\ tx'[w].retry = tx[w].retry
            /\ tx'[w].at = "postpone" =>
                 MaxRetries[tx[w].job] = 0 \/ tx[w].retry < MaxRetries[tx[w].job]
            /\ tx'[w].at \in {"postpone", "fail"}
        BY <1>a, <3>1, RaiseCounts
      <3>3. Counting(w) /\ MaxRetries[tx[w].job] # 0
        BY <1>b, <1>c, <2>2 DEF AttemptsInv, Bounded
      <3> QED
        BY <2>1, <3>2, <3>3 DEF Counting
    <2> QED
      BY <1>6, <1>f, <2>1, <2>2
  <1>7. ASSUME NEW w \in Worker, Return(w) \/ NothingToDo(w), noticed' = noticed
        PROVE  AttemptsInv'
    <2>1. tx[w].at = "performing"
      BY <1>7 DEF Return, NothingToDo, Performing
    <2>2. tx[w].fresh
      BY <1>d, <2>1 DEF Holding
    <2>3. CommitDone(w)
      BY <1>7, <2>2 DEF Return, NothingToDo
    <2>4. OthersGoOn(w, {tx[w].job}) /\ tx'[w].at = "done"
      BY <1>a, <2>3, CommitDoneEffect
    <2>5. /\ state'[tx[w].job] = Done /\ retry'[tx[w].job] = tx[w].retry /\ runs' = runs
          /\ \A i \in Job \ {tx[w].job} : state'[i] = state[i] /\ retry'[i] = retry[i]
      BY <1>a, <1>b, <2>3 DEF CommitDone, QjTypeOK
    <2> QED
      BY <1>7, <1>g, <2>1, <2>4, <2>5
  <1>8. ASSUME NEW w \in Worker, Postpone(w) \/ Fail(w), noticed' = noticed
        PROVE  AttemptsInv'
    <2>1. tx[w].at \in {"postpone", "fail"}
      BY <1>8 DEF Postpone, Fail
    <2>2. /\ tx' = Committed([tx EXCEPT ![w] = IdleTx], {tx[w].job})
          /\ retry'[tx[w].job] = tx[w].retry /\ runs' = runs
          /\ \A i \in Job \ {tx[w].job} : state'[i] = state[i] /\ retry'[i] = retry[i]
          /\ state'[tx[w].job] = Failed \/ tx[w].at = "postpone"
      BY <1>8, <1>a, <1>b DEF Postpone, Fail, StoreAndLeave, QjTypeOK, history
    <2>3. OthersGoOn(w, {tx[w].job}) /\ tx'[w].at = "idle"
      BY <2>2, <1>a, <1>b, LeaveEffect
    <2> QED
      BY <1>8, <1>g, <2>1, <2>2, <2>3
  <1>9. ASSUME NEW w \in Worker, SelectDependents(w), noticed' = noticed
        PROVE  AttemptsInv'
    <2>1. OthersGoOn(w, {}) /\ tx'[w].at = "release" /\ UNCHANGED <<state, retry, runs>>
      BY <1>9, <1>a, SelectEffect DEF SelectDependents, rows, history
    <2> QED
      BY <1>9, <1>f, <2>1 DEF Counting
  <1>10. ASSUME NEW w \in Worker, EnqueueWaiting(w), noticed' = noticed
         PROVE  AttemptsInv'
    <2> DEFINE S == IF tx[w].fresh THEN tx[w].wake ELSE {}
    <2>1. tx' = Committed([tx EXCEPT ![w] = IdleTx], S) /\ S \in SUBSET Job
      BY <1>10, <1>b DEF EnqueueWaiting
    <2>2. /\ \A i \in Job \ S : state'[i] = state[i]
          /\ \A i \in S : state'[i] = Pending
          /\ UNCHANGED <<retry, runs>>
      BY <1>10, <1>b DEF EnqueueWaiting, history
    <2>3. \A i \in S : state[i] = WaitDependencies
      BY <1>10 DEF AloneInv, Releaser, EnqueueWaiting
    <2> HIDE DEF S
    <2>4. \A i \in S : Bounded(i) => Counted(i)'
      BY <1>c, <2>1, <2>2, <2>3
         DEF AttemptsInv, Counted, WaitDependencies, Pending, Started, Done, Failed, Cancelled
    <2>5. \A i \in S, v \in Worker \ {w} : tx[v].at \in Holding => tx[v].job # i
      BY <1>d, <2>3 DEF WaitDependencies, Started
    <2>6. OthersGoOn(w, S) /\ tx'[w].at = "idle"
      BY <2>1, <1>a, <1>b, LeaveEffect
    <2>7. Counting(w)'
      BY <2>6 DEF Counting
    <2> QED
      BY <1>10, <1>a, <1>b, <2>1, <2>2, <2>4, <2>5, <2>6, <2>7, AttemptsStep
  <1>11. ASSUME NEW w \in Worker, Crash(w), noticed' = noticed
         PROVE  AttemptsInv'
    <2>1. tx' = [tx EXCEPT ![w] = IdleTx] /\ UNCHANGED <<state, retry, runs>>
      BY <1>11 DEF Crash, rows
    <2>2. OthersGoOn(w, {}) /\ tx'[w].at = "idle"
      BY <2>1, <1>a, <1>b, LeaveEffect
    <2> QED
      BY <1>11, <1>f, <2>1, <2>2 DEF Counting
  <1>18. ASSUME NEW j \in Job, Press("set_cancelled", j), noticed' = noticed
         PROVE  AttemptsInv'
    <2>1. /\ OthersGoOn(Admin, {}) /\ tx'[Admin].job = j /\ tx'[Admin].retry = retry[j]
          /\ UNCHANGED <<state, retry, runs>>
      BY <1>18, <1>a, CancelEffect
    <2>2. Uncounting'
      BY <2>1 DEF Uncounting
    <2> QED
      BY <1>18, <1>a, <1>b, <2>1, <2>2, AttemptsStep
  <1>19. ASSUME CommitPress, noticed' = noticed
         PROVE  AttemptsInv'
    <2>. DEFINE t == tx[Admin]
                S == {t.job} \cup t.wake
    <2>1. /\ t.at = "set_cancelled" /\ t.fresh /\ S \in SUBSET Job /\ t.job \in Job
          /\ state[t.job] \in {Pending, Failed, Enqueued}
          /\ \A c \in t.wake : state[c] = WaitDependencies
          /\ t.retry = retry[t.job]
      BY <1>19, <1>a, <1>b DEF CommitPress, AloneInv, Canceller, QjTypeOK, Tx, AttemptsInv, Uncounting
    <2>2. /\ OthersGoOn(Admin, S) /\ tx'[Admin].at = "idle"
          /\ \A i \in S : state'[i] = Cancelled
          /\ \A i \in Job \ S : state'[i] = state[i]
          /\ runs' = runs
      BY <1>19, <1>a, <1>b, <2>1, LeaveEffect DEF CommitPress, history
    <2>3. \A i \in Job : retry'[i] = retry[i]
      BY <1>19, <1>a, <2>1 DEF CommitPress, QjTypeOK
    <2>4. \A i \in S : state[i] \in {Pending, Failed, Enqueued, WaitDependencies}
      BY <2>1
    <2>. HIDE DEF S
    <2>5. ASSUME NEW i \in S, Bounded(i)
          PROVE  Counted(i)'
      BY <1>19, <1>c, <2>1, <2>2, <2>3, <2>4, <2>5
      DEF AttemptsInv, Counted, Pending, Failed, Enqueued, WaitDependencies, Started, Cancelled
    <2>6. ASSUME NEW i \in S, NEW v \in Worker, tx[v].at \in Holding
          PROVE  tx[v].job # i
      BY <1>d, <2>4, <2>6 DEF Pending, Failed, Enqueued, WaitDependencies, Started
    <2>7. Uncounting'
      BY <2>2 DEF Uncounting
    <2> QED
      BY <1>19, <1>a, <1>b, <2>1, <2>2, <2>3, <2>5, <2>6, <2>7, AttemptsStep
  <1>20. ASSUME RollBackPress, noticed' = noticed
         PROVE  AttemptsInv'
    <2>1. /\ OthersGoOn(Admin, {}) /\ tx'[Admin].at = "idle"
          /\ UNCHANGED <<state, retry, runs>>
      BY <1>20, <1>a, <1>b, LeaveEffect DEF RollBackPress, rows, history
    <2>2. Uncounting'
      BY <2>1 DEF Uncounting
    <2> QED
      BY <1>20, <1>a, <1>b, <2>1, <2>2, AttemptsStep
  <1>12. ASSUME User, noticed' = noticed
         PROVE  AttemptsInv'
    <2>1. ASSUME NEW op \in Buttons, NEW j \in Job, Press(op, j)
          PROVE  AttemptsInv'
      <3>1. op = "set_cancelled"
        BY DEF Alone
      <3> QED
        BY <1>12, <1>18, <2>1, <3>1
    <2> QED
      BY <1>12, <1>19, <1>20, <2>1 DEF User
  <1>13. ASSUME NEW j \in Job, RequeueDeadJob(j), noticed' = noticed
         PROVE  AttemptsInv'
    <2>1. /\ tx' = Committed(tx, {j}) /\ state[j] \in Active /\ runs' = runs
          /\ \A i \in Job \ {j} : state'[i] = state[i] /\ retry'[i] = retry[i]
          /\ state'[j] = IF retry[j] > MaxRetries[j] THEN Failed ELSE Pending
          /\ retry'[j] = IF state[j] = Started THEN retry[j] + 1 ELSE retry[j]
      BY <1>13, <1>a DEF RequeueDeadJob, QjTypeOK, history
    <2>2. ASSUME NEW v \in Worker, tx[v].at \in Holding, tx[v].job = j
          PROVE  FALSE
      <3>1. tx[v].locked /\ LockedBy(j) = {}
        BY <1>13, <2>2 DEF RequeueDeadJob, Owners, Alone
      <3> QED
        BY <1>b, <2>2, <3>1 DEF LockedBy
    <2>3. ASSUME Bounded(j)
          PROVE  Counted(j)'
      <3>1. /\ runs[j] <= MaxRetries[j] + 2
            /\ runs[j] <= retry[j] + IF state[j] = Started THEN 1 ELSE 0
        BY <2>3 DEF AttemptsInv, Counted
      <3>2. runs[j] <= retry'[j] /\ (retry[j] <= MaxRetries[j] => retry'[j] <= MaxRetries[j] + 1)
        BY <1>c, <2>1, <3>1
      <3>3. Pending # Started /\ Failed # Started
        BY DEF Pending, Failed, Started
      <3>4. j \notin noticed'
        BY <1>13, <2>1 DEF AloneInv, Row, Active, Pending, Enqueued, Started, Cancelled
      <3> QED
        BY <1>c, <2>1, <3>1, <3>2, <3>3, <3>4 DEF Counted
    <2> QED
      BY <1>13, <1>h, <2>1, <2>2, <2>3
  <1>14. ASSUME NEW j \in Job, Enqueue(j)
         PROVE  AttemptsInv'
    <2>1. /\ tx' = Committed(tx, {j}) /\ UNCHANGED <<retry, runs>>
          /\ \A i \in Job \ {j} : state'[i] = state[i]
          /\ state'[j] = Enqueued /\ j \in noticed /\ noticed' = noticed \ {j}
      BY <1>14, <1>a DEF Enqueue, SetJobEnqueued, QjTypeOK, history
    <2>2. state[j] \in {Pending, Cancelled}
      BY <2>1 DEF AloneInv, Row
    <2>3. \A v \in Worker : tx[v].at \in Holding => tx[v].job # j
      BY <1>d, <2>2 DEF Pending, Cancelled, Started
    <2>4. Bounded(j) => Counted(j)'
      BY <2>1, <2>2 DEF AttemptsInv, Counted, Enqueued, Pending, Cancelled, Started
    <2> QED
      BY <1>h, <2>1, <2>3, <2>4
  <1>15. ASSUME NEW S \in SUBSET noticed, Forget(S)
         PROVE  AttemptsInv'
    BY <1>15, <1>e DEF Forget, dbVars, rows, history
  <1>17. ASSUME NEW j \in Job, Notice(j)
         PROVE  AttemptsInv'
    <2>1. /\ UNCHANGED <<tx, state, retry, runs>> /\ state[j] = Pending
          /\ noticed' = noticed \cup {j}
      BY <1>17 DEF Notice, dbVars, rows, history
    <2>2. \A i \in Job : Bounded(i) => Counted(i)'
      BY <2>1 DEF AttemptsInv, Counted, Pending, Done, Failed, Cancelled
    <2>3. Uncounting' /\ \A w \in Worker : Bounded(tx[w].job) => Counting(w)'
      BY <2>1 DEF AttemptsInv, Uncounting, Counting
    <2> QED
      BY <2>1, <2>2, <2>3 DEF AttemptsInv, Bounded
  <1>16. ASSUME NEW w \in Worker, Perform(w) \/ Crash(w), noticed' = noticed
         PROVE  AttemptsInv'
    BY <1>16, <1>4, <1>5, <1>6, <1>7, <1>8, <1>9, <1>10, <1>11 DEF Perform, Execute
  <1> QED
    BY <1>1, <1>2, <1>3, <1>12, <1>13, <1>14, <1>15, <1>16, <1>17 DEF QjNext, Database, Serve

\* The starts of a job are accounted for by its tries and its state.
THEOREM AttemptsInvariant == ASSUME Alone PROVE QjSpec => []AttemptsInv
  <1>1. QjInit => AttemptsInv
    <2> SUFFICES ASSUME QjInit PROVE AttemptsInv
      OBVIOUS
    <2>1. \A j \in Job : Counted(j)
      BY QueueJobAssumption DEF QjInit, Counted
    <2>2. \A w \in Worker : tx[w].at = "idle"
      BY DEF QjInit, IdleTx, Actor
    <2>3. Uncounting
      BY DEF QjInit, IdleTx, Actor, Uncounting
    <2> QED
      BY <2>1, <2>2, <2>3 DEF AttemptsInv, Counting
  <1>2. AloneInv /\ AttemptsInv /\ [QjNext]_qjVars => AttemptsInv'
    BY AttemptsNext
  <1> QED
    BY <1>1, <1>2, AloneInvariant, PTL DEF QjSpec

\* A job whose method only succeeds, fails or asks for a retry is started at
\* most max_retries + 2 times.
THEOREM AttemptsAreBounded == ASSUME Alone PROVE QjSpec => []AttemptsBounded
  <1>1. AttemptsInv => AttemptsBounded
    BY DEF AttemptsInv, AttemptsBounded, Bounded, Counted
  <1> QED
    BY <1>1, AttemptsInvariant, PTL
=============================================================================
