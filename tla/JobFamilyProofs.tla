-------------------------- MODULE JobFamilyProofs --------------------------
(***************************************************************************)
(* A graph of jobs from delay() to the deletion of its rows (JobFamily):   *)
(* its direct execution keeps its order, no job is queued before those it  *)
(* depends on, none waits when all of them are done unless a release is    *)
(* due, was lost, or was missed by transactions that overlap, and an       *)
(* identity key is queued once unless transactions overlap.  The graph is  *)
(* one that delay() connects, by DelayablesProofs.                         *)
(***************************************************************************)
EXTENDS JobFamily, DelayablesProofs

-----------------------------------------------------------------------------
(* The graph that delay() connects *)

LEMMA PlanSteps == PlanInv /\ [JfNext]_jfVars => PlanInv'
<1> SUFFICES ASSUME PlanInv, [JfNext]_jfVars PROVE PlanInv'
  OBVIOUS
<1>1. ASSUME NEW s \in Session, Begin(s) PROVE PlanInv'
  <2>1. UNCHANGED <<made, graph, after>> /\ plan'.node = plan.node /\ plan'.edge = plan.edge
    BY <1>1 DEF Begin
  <2>2. StoredInOrder'
    <3>1. CASE s = Caller
      <4>1. plan'.meant = {}
        BY <1>1, <3>1 DEF Begin
      <4> QED
        BY <4>1 DEF StoredInOrder
    <3>2. CASE s # Caller
      BY <1>1, <3>2 DEF Begin, PlanInv, StoredInOrder, Before
    <3> QED
      BY <3>1, <3>2
  <2>3. GraphOfLeaves' /\ GraphInv'
    BY <2>1 DEF PlanInv, GraphOfLeaves, GraphInv, Existing, Sources
  <2> QED
    BY <2>2, <2>3 DEF PlanInv
<1>2. ASSUME NEW s \in Session, Store(s) \/ RollBack(s) PROVE UNCHANGED dyVars
  BY <1>2 DEF Store, RollBack
<1>3. ASSUME NEW j \in Job, Live(j) PROVE UNCHANGED dyVars
  BY <1>3 DEF Live, Start, Finish, Release, LoseRelease, Fail, PressDone, PressCancelled,
              PressRequeue, Press, Autovacuum
<1>5. ASSUME NEW r \in pressed, CommitPress(r) PROVE UNCHANGED dyVars
  BY <1>5 DEF CommitPress
<1>4. CASE UNCHANGED jfVars
  BY <1>4, PlanNext DEF jfVars
<1> QED
  BY <1>1, <1>2, <1>3, <1>4, <1>5, PlanNext DEF JfNext

LEMMA PlanAlways == JfSpec => []PlanInv
<1>1. JfInit => PlanInv
  BY PlanInit DEF JfInit
<1> QED
  BY <1>1, PlanSteps, PTL DEF JfSpec

LEMMA LeavesAlways == JfSpec => []GraphOfLeaves
<1>1. PlanInv => GraphOfLeaves
  BY DEF PlanInv
<1> QED
  BY <1>1, PlanAlways, PTL

\* The graph that is stored keeps the order the caller meant when no chain begins
\* or ends with another, for chains, groups and on_done nested to any depth
\* (_connect_graphs, delay.py:188).
THEOREM MeantIsStored == JfSpec => []StoredInOrder
<1>1. PlanInv => StoredInOrder
  BY DEF PlanInv
<1> QED
  BY <1>1, PlanAlways, PTL

-----------------------------------------------------------------------------
(* The invariant of the rows *)

AllStates == States \cup {Absent, Deleted}

Rows == [Job -> [state : AllStates, parents : SUBSET Leaf, dated : BOOLEAN]]

\* A parent that has no row any more was done, or deleted without: a graph is
\* stored as a whole, so it is not one that has no row yet.
ParentsKnown ==
  \A j \in Stored : \A p \in row[j].parents :
    p \in Stored \/ p \in finished \cup lost

DoneIsFinished == \A j \in Stored : row[j].state = Done => j \in finished

Presses == [job : Job, new : States, along : SUBSET Job, changed : SUBSET Job]

\* What the snapshot of a user's transaction says of the rows it writes.
SnapshotOfWrites(r) ==
  /\ Writes(r) \cap r.changed = {}
  /\ r.job \in Stored
  /\ r.new \in {Done, Cancelled, Pending, WaitDependencies}
  /\ \A c \in r.along : c \in Stored /\ row[c].state = WaitDependencies
  /\ r.new \notin {Done, Cancelled} => r.along = {}
  /\ r.new \in {Cancelled, WaitDependencies} => row[r.job].state # r.new
  /\ r.new = Pending => row[r.job].parents \subseteq finished \cup lost
  /\ r.new = Done => \A c \in r.along : row[c].parents \subseteq finished \cup lost \cup {r.job}

\* A parent of c, not one of P, was not in the state s for the snapshot of r: it
\* still is not, or it was written since.
Withheld(r, c, P, s) ==
  \E p \in row[c].parents \ P : p \in r.changed \/ (p \in Stored /\ row[p].state # s)

\* What it says of the rows it does not write: a child that is not taken along
\* had a parent that held it back, and a job that is made to wait has one.
SnapshotOfOthers(r) ==
  /\ r.new \in {Done, Cancelled} =>
       \A c \in Stored \ (r.along \cup r.changed) :
         row[c].state = WaitDependencies /\ r.job \in row[c].parents
           => Withheld(r, c, {r.job}, r.new)
  /\ r.new = WaitDependencies => Withheld(r, r.job, {}, Done)

PressedInv == \A r \in pressed : r \in Presses /\ SnapshotOfWrites(r) /\ SnapshotOfOthers(r)

\* Rows are known to be done, or deleted, from the history: then what decides
\* on the state of a child, its existing parents, is enough.
FamilyInv ==
  /\ row \in Rows
  /\ ParentsKnown
  /\ DoneIsFinished
  /\ RunsAfterParents
  /\ WaitsForSomeone
  /\ PressedInv

LEMMA StateNames ==
  /\ States = {"wait_dependencies", "pending", "enqueued", "started", "done",
               "cancelled", "failed"}
  /\ WaitDependencies = "wait_dependencies" /\ Pending = "pending" /\ Started = "started"
  /\ Done = "done" /\ Cancelled = "cancelled" /\ Failed = "failed"
  /\ Absent = "absent" /\ Deleted = "deleted"
  BY DEF States, WaitDependencies, Pending, Enqueued, Started, Done, Cancelled, Failed,
         Absent, Deleted

LEMMA FamilyInit == JfInit => FamilyInv
<1> SUFFICES ASSUME JfInit PROVE FamilyInv
  OBVIOUS
<1>1. row = [j \in Job |-> NoRow] /\ NoRow = [state |-> Absent, parents |-> {}, dated |-> FALSE]
  BY DEF JfInit, NoRow
<1>2. row \in Rows
  BY <1>1 DEF Rows, AllStates
<1>3. Stored = {}
  BY <1>1, StateNames DEF Stored
<1> QED
  BY <1>2, <1>3 DEF JfInit, FamilyInv, ParentsKnown, DoneIsFinished, RunsAfterParents,
                    WaitsForSomeone, PressedInv

-----------------------------------------------------------------------------
(* The transactions of the users *)

\* A commit that writes the rows S leaves what the snapshots of the others say:
\* who writes one of these rows cannot commit any more, and the others know it.
LEMMA PressedKept ==
  ASSUME PressedInv, NEW S \in SUBSET Job, NEW open \in SUBSET pressed, Written(open, S),
         \A c \in Job \ S : row'[c] = row[c],
         finished \subseteq finished', lost \subseteq lost'
  PROVE  PressedInv'
<1> SUFFICES ASSUME NEW r \in pressed'
             PROVE  r \in Presses /\ SnapshotOfWrites(r)' /\ SnapshotOfOthers(r)'
  BY DEF PressedInv, SnapshotOfWrites, SnapshotOfOthers
<1>1. PICK q \in pressed : r = [q EXCEPT !.changed = @ \cup S] /\ Writes(q) \cap S = {}
  BY DEF Written
<1>2. q \in Presses /\ SnapshotOfWrites(q) /\ SnapshotOfOthers(q)
  BY DEF PressedInv
<1>3. /\ r.job = q.job /\ r.new = q.new /\ r.along = q.along
      /\ r.changed = q.changed \cup S
      /\ r \in Presses
  BY <1>1, <1>2 DEF Presses
<1>4. Writes(r) = Writes(q) /\ Writes(r) \cap S = {} /\ Writes(r) \subseteq Job
  BY <1>1, <1>2, <1>3 DEF Writes, Presses
<1>5. \A c \in Job \ S : c \in Stored' <=> c \in Stored
  BY DEF Stored
<1>6. SnapshotOfWrites(r)'
  <2>1. \A c \in Writes(r) : row'[c] = row[c] /\ (c \in Stored' <=> c \in Stored)
    BY <1>4, <1>5
  <2>2. Writes(r) \cap r.changed = {}
    BY <1>2, <1>3, <1>4 DEF SnapshotOfWrites
  <2>3. r.job \in Writes(r) /\ \A c \in r.along : c \in Writes(r)
    BY DEF Writes
  <2> QED
    BY <1>2, <1>3, <2>1, <2>2, <2>3 DEF SnapshotOfWrites, Writes
<1>7. ASSUME NEW c \in Job \ S, NEW P, NEW s, Withheld(q, c, P, s)
      PROVE  Withheld(r, c, P, s)'
  <2>1. PICK p \in row[c].parents \ P : p \in q.changed \/ (p \in Stored /\ row[p].state # s)
    BY <1>7 DEF Withheld
  <2>2. p \in row'[c].parents \ P
    BY <2>1
  <2>3. p \in r.changed \/ (p \in Stored' /\ row'[p].state # s)
    BY <1>3, <1>5, <2>1 DEF Stored
  <2> QED
    BY <2>2, <2>3 DEF Withheld
<1>8. SnapshotOfOthers(r)'
  <2>1. ASSUME r.new \in {Done, Cancelled}, NEW c \in Stored' \ (r.along \cup r.changed),
               row'[c].state = WaitDependencies, r.job \in row'[c].parents
        PROVE  Withheld(r, c, {r.job}, r.new)'
    <3>1. c \in Job \ S /\ c \in Stored \ (q.along \cup q.changed)
      BY <1>3, <1>5, <2>1 DEF Stored
    <3>2. Withheld(q, c, {q.job}, q.new)
      BY <1>2, <1>3, <2>1, <3>1 DEF SnapshotOfOthers
    <3> QED
      BY <1>3, <1>7, <3>1, <3>2
  <2>2. ASSUME r.new = WaitDependencies PROVE Withheld(r, r.job, {}, Done)'
    <3>1. r.job \in Job \ S
      BY <1>4 DEF Writes
    <3>2. Withheld(q, r.job, {}, Done)
      BY <1>2, <1>3, <2>2 DEF SnapshotOfOthers
    <3> QED
      BY <1>7, <3>1, <3>2
  <2> QED
    BY <2>1, <2>2 DEF SnapshotOfOthers, Withheld
<1> QED
  BY <1>3, <1>6, <1>8

\* The rows did not change.
LEMMA PressedSame ==
  ASSUME PressedInv, pressed' = pressed, row' = row,
         finished \subseteq finished', lost \subseteq lost'
  PROVE  PressedInv'
  BY DEF PressedInv, SnapshotOfWrites, SnapshotOfOthers, Withheld, Stored

-----------------------------------------------------------------------------
(* A graph, or the job of a cron, is stored *)

LEMMA StoreKeeps ==
  ASSUME FamilyInv, GraphOfLeaves, NEW s \in Session, Store(s)
  PROVE  FamilyInv'
<1> DEFINE W == Wanted(s)
<1>1. UNCHANGED <<finished, lost, releasing, unreleased, skewed>>
  BY DEF Store, history
<1>2. CASE UNCHANGED <<row, pressed>>
  <2>1. PressedInv'
    BY <1>1, <1>2, PressedSame DEF FamilyInv
  <2> QED
    BY <1>1, <1>2, <2>1 DEF FamilyInv, ParentsKnown, DoneIsFinished, RunsAfterParents,
                            WaitsForSomeone, Stored, ExistingParents
<1>3. CASE /\ row' = [j \in Job |-> IF j \in W THEN NewRow(j) ELSE row[j]]
           /\ Written(pressed, W)
  <2>1. W \subseteq Job
    BY DEF Wanted, Session, GraphOfLeaves, Job
  <2>2. ASSUME NEW j \in W
        PROVE  /\ NewRow(j).parents \subseteq W \cap Leaf
               /\ NewRow(j).dated = FALSE
               /\ NewRow(j).state = IF NewRow(j).parents = {} THEN Pending ELSE WaitDependencies
    <3>1. CASE j \in Leaf
      <4>1. s = Caller
        BY <3>1, JobFamilyAssumption DEF Session, Wanted
      <4>2. W = plan.node
        BY <4>1 DEF Wanted
      <4> QED
        BY <3>1, <4>2 DEF NewRow, ParentsIn, GraphOfLeaves
    <3>2. CASE j \notin Leaf
      BY <3>2 DEF NewRow
    <3> QED
      BY <3>1, <3>2
  <2>3. \A j \in W : row'[j] = NewRow(j)
    BY <1>3, <2>1
  <2>4. \A j \in Job \ W : row'[j] = row[j]
    BY <1>3
  <2>5. \A j \in W : NewRow(j) \in [state : AllStates, parents : SUBSET Leaf, dated : BOOLEAN]
    <3> SUFFICES ASSUME NEW j \in W
                 PROVE  NewRow(j) \in [state : AllStates, parents : SUBSET Leaf, dated : BOOLEAN]
      OBVIOUS
    <3>1. NewRow(j).parents \subseteq Leaf
      BY <2>2
    <3> QED
      BY <3>1, StateNames DEF NewRow, AllStates
  <2> HIDE DEF W
  <2>6. row' \in Rows
    BY <1>3, <2>5 DEF FamilyInv, Rows
  <2>7. W \subseteq Stored' /\ Stored' = Stored \cup W
    BY <2>1, <2>2, <2>3, <2>4, StateNames DEF Stored
  <2>8. ParentsKnown'
    <3> SUFFICES ASSUME NEW j \in Stored', NEW p \in row'[j].parents
                 PROVE  p \in Stored' \/ p \in finished \cup lost
      BY <1>1 DEF ParentsKnown
    <3>1. CASE j \in W
      BY <2>2, <2>3, <2>7, <3>1
    <3>2. CASE j \notin W
      BY <2>4, <2>7, <3>2 DEF FamilyInv, ParentsKnown, Stored
    <3> QED
      BY <3>1, <3>2
  <2>9. DoneIsFinished'
    BY <1>1, <2>2, <2>3, <2>4, <2>7, StateNames DEF FamilyInv, DoneIsFinished, Stored
  <2>10. RunsAfterParents'
    <3> SUFFICES ASSUME NEW j \in Stored', row'[j].state \in {Pending, Started, Failed}
                 PROVE  row'[j].parents \subseteq finished \cup lost
      BY <1>1 DEF RunsAfterParents
    <3>1. CASE j \in W
      BY <2>2, <2>3, <3>1, StateNames
    <3>2. CASE j \notin W
      BY <2>4, <2>7, <3>2 DEF FamilyInv, RunsAfterParents, Stored
    <3> QED
      BY <3>1, <3>2
  <2>11. WaitsForSomeone'
    <3> SUFFICES ASSUME NEW j \in Stored', row'[j].state = WaitDependencies
                 PROVE  \/ \E p \in row'[j].parents \cap Stored' : row'[p].state # Done
                        \/ row'[j].parents \cap (lost \cup releasing \cup unreleased) # {}
                        \/ j \in skewed
      BY <1>1 DEF WaitsForSomeone, ExistingParents
    <3>1. CASE j \in W
      <4>1. PICK p \in row'[j].parents : TRUE
        BY <2>2, <2>3, <3>1, StateNames
      <4>2. p \in W /\ row'[p].state # Done
        BY <2>2, <2>3, <3>1, <4>1, StateNames
      <4> QED
        BY <2>7, <4>1, <4>2
    <3>2. CASE j \notin W
      <4>1. j \in Stored /\ row'[j] = row[j]
        BY <2>4, <2>7, <3>2 DEF Stored
      <4>2. ASSUME NEW p \in row[j].parents \cap Stored, row[p].state # Done
            PROVE  p \in Stored' /\ row'[p].state # Done
        BY <2>2, <2>3, <2>4, <2>7, <4>2, StateNames DEF Stored
      <4> QED
        BY <4>1, <4>2 DEF FamilyInv, WaitsForSomeone, ExistingParents
    <3> QED
      BY <3>1, <3>2
  <2>12. PressedInv'
    BY <1>1, <1>3, <2>1, <2>4, PressedKept DEF FamilyInv
  <2> QED
    BY <2>6, <2>8, <2>9, <2>10, <2>11, <2>12 DEF FamilyInv
<1> QED
  BY <1>2, <1>3 DEF Store

-----------------------------------------------------------------------------
(* Rows change *)

\* What Change writes, row by row.
LEMMA ChangedRows ==
  ASSUME row \in Rows, NEW j \in Stored, NEW state \in States, NEW dated \in BOOLEAN,
         NEW S \in SUBSET Stored, NEW followed \in States,
         Change(j, state, dated, S, followed)
  PROVE  /\ row' \in Rows
         /\ Stored' = Stored
         /\ \A c \in Job : row'[c].parents = row[c].parents
         /\ row'[j].state = state
         /\ \A c \in S \ {j} : row'[c].state = followed
         /\ row'[j].dated = dated
         /\ \A c \in S \ {j} : row'[c].dated = row[c].dated
         /\ \A c \in Job \ (S \cup {j}) : row'[c] = row[c]
<1>1. /\ row' = [c \in Job |->
            CASE c = j -> [row[c] EXCEPT !.state = state, !.dated = dated]
              [] c \in S \ {j} -> [row[c] EXCEPT !.state = followed]
              [] OTHER -> row[c]]
  BY DEF Change
<1>2. ASSUME NEW c \in Job
      PROVE  /\ row'[c] \in [state : AllStates, parents : SUBSET Leaf, dated : BOOLEAN]
             /\ row'[c].parents = row[c].parents
             /\ c = j => row'[c].state = state /\ row'[c].dated = dated
             /\ c \in S \ {j} => row'[c].state = followed /\ row'[c].dated = row[c].dated
             /\ c \notin S \cup {j} => row'[c] = row[c]
  <2>1. row[c] \in [state : AllStates, parents : SUBSET Leaf, dated : BOOLEAN]
    BY DEF Rows
  <2>2. state \in AllStates /\ followed \in AllStates
    BY DEF AllStates
  <2>3. CASE c = j
    BY <1>1, <2>1, <2>2, <2>3
  <2>4. CASE c \in S \ {j}
    BY <1>1, <2>1, <2>2, <2>4
  <2>5. CASE c \notin S \cup {j}
    BY <1>1, <2>1, <2>5
  <2> QED
    BY <2>3, <2>4, <2>5
<1>3. row' \in Rows
  BY <1>1, <1>2 DEF Rows
<1>4. j \in Job /\ S \subseteq Job
  BY DEF Stored
<1>5. Stored' = Stored
  BY <1>2, <1>4 DEF Stored
<1> QED
  BY <1>2, <1>3, <1>4, <1>5

\* A change of states keeps the order of the family when the job that is done
\* is recorded, a job that is queued, started or failed has parents that were
\* done or lost, and a job that waits, or loses one it waited for, has another,
\* or a release that is due, or that was lost or missed.
LEMMA ChangeKeeps ==
  ASSUME FamilyInv, PressedInv', row' \in Rows, Stored' = Stored, lost' = lost,
         finished \subseteq finished',
         \A c \in Job : row'[c].parents = row[c].parents,
         \A c \in Stored : row'[c].state = Done => c \in finished',
         \A c \in Stored : row'[c].state \in {Pending, Started, Failed}
           => row[c].parents \subseteq finished' \cup lost,
         \A c \in Stored : row'[c].state = WaitDependencies =>
           \/ \E p \in row[c].parents \cap Stored : row'[p].state # Done
           \/ row[c].parents \cap (lost \cup releasing' \cup unreleased') # {}
           \/ c \in skewed'
  PROVE  FamilyInv'
<1>1. \A c \in Stored : c \in Job
  BY DEF Stored
<1>2. ParentsKnown'
  BY <1>1 DEF FamilyInv, ParentsKnown
<1>3. DoneIsFinished'
  BY DEF DoneIsFinished
<1>4. RunsAfterParents'
  BY <1>1 DEF RunsAfterParents
<1>5. WaitsForSomeone'
  BY <1>1 DEF WaitsForSomeone, ExistingParents
<1> QED
  BY <1>2, <1>3, <1>4, <1>5 DEF FamilyInv

\* A job that waited has what it waited for when none of its parents becomes
\* done without a release that is due.
LEMMA WaitersKeep ==
  ASSUME WaitsForSomeone, NEW c \in Stored, row[c].state = WaitDependencies,
         releasing \subseteq releasing' \cup unreleased', unreleased \subseteq unreleased',
         skewed \subseteq skewed',
         \A p \in row[c].parents \cap Stored :
           row[p].state # Done => row'[p].state # Done \/ p \in releasing'
  PROVE  \/ \E p \in row[c].parents \cap Stored : row'[p].state # Done
         \/ row[c].parents \cap (lost \cup releasing' \cup unreleased') # {}
         \/ c \in skewed'
<1>1. CASE c \in skewed
  BY <1>1
<1>2. ASSUME NEW p \in row[c].parents, p \in lost \cup releasing \cup unreleased
      PROVE  row[c].parents \cap (lost \cup releasing' \cup unreleased') # {}
  BY <1>2
<1>3. ASSUME NEW p \in row[c].parents \cap Stored, row[p].state # Done
      PROVE  \/ \E q \in row[c].parents \cap Stored : row'[q].state # Done
             \/ row[c].parents \cap (lost \cup releasing' \cup unreleased') # {}
  BY <1>3
<1> QED
  BY <1>1, <1>2, <1>3 DEF WaitsForSomeone, ExistingParents

\* The parents of a stored job were all done, or lost, when those that exist
\* are done.
LEMMA ParentsDone ==
  ASSUME FamilyInv, NEW c \in Stored, \A p \in ExistingParents(c) : row[p].state = Done
  PROVE  row[c].parents \subseteq finished \cup lost
  BY DEF FamilyInv, ParentsKnown, DoneIsFinished, ExistingParents

\* The worker's done leaves a release that is due.
LEMMA FinishKeeps ==
  ASSUME FamilyInv, NEW j \in Job, Finish(j)
  PROVE  FamilyInv'
<1> DEFINE none == {}
<1>1. /\ Change(j, Done, TRUE, none, Pending) /\ Written(pressed, {j})
      /\ releasing' = releasing \cup {j} /\ finished' = finished \cup {j}
      /\ UNCHANGED <<lost, unreleased, skewed>>
  BY DEF Finish
<1>2. j \in Stored /\ none \in SUBSET Stored
  BY StateNames DEF Finish, Stored
<1> HIDE DEF none
<1>3. /\ row' \in Rows /\ Stored' = Stored
      /\ \A c \in Job : row'[c].parents = row[c].parents
      /\ row'[j].state = Done
  <2>1. row \in Rows /\ Done \in States /\ Pending \in States
    BY StateNames DEF FamilyInv
  <2>2. row' \in Rows
    BY <1>1, <1>2, <2>1, ChangedRows
  <2>3. Stored' = Stored
    BY <1>1, <1>2, <2>1, ChangedRows
  <2>4. \A c \in Job : row'[c].parents = row[c].parents
    BY <1>1, <1>2, <2>1, ChangedRows
  <2>5. row'[j].state = Done
    BY <1>1, <1>2, <2>1, ChangedRows
  <2> QED
    BY <2>2, <2>3, <2>4, <2>5
<1>4. \A c \in Job \ {j} : row'[c] = row[c]
  BY <1>1 DEF Change, none
<1>5. \A c \in Stored : c \in Job
  BY DEF Stored
<1>6. PressedInv'
  BY <1>1, <1>4, PressedKept DEF FamilyInv
<1>7. \A c \in Stored : row'[c].state = Done => c \in finished'
  BY <1>1, <1>4, <1>5 DEF FamilyInv, DoneIsFinished
<1>8. \A c \in Stored : row'[c].state \in {Pending, Started, Failed}
        => row[c].parents \subseteq finished' \cup lost
  BY <1>1, <1>3, <1>4, <1>5, StateNames DEF FamilyInv, RunsAfterParents
<1>9. ASSUME NEW c \in Stored, row'[c].state = WaitDependencies
      PROVE  \/ \E p \in row[c].parents \cap Stored : row'[p].state # Done
             \/ row[c].parents \cap (lost \cup releasing' \cup unreleased') # {}
             \/ c \in skewed'
  <2>1. row[c].state = WaitDependencies
    BY <1>3, <1>4, <1>5, <1>9, StateNames
  <2>2. \A p \in Stored : row[p].state # Done => row'[p].state # Done \/ p \in releasing'
    BY <1>1, <1>4, <1>5
  <2> QED
    BY <1>1, <2>1, <2>2, WaitersKeep DEF FamilyInv
<1> QED
  BY <1>1, <1>3, <1>6, <1>7, <1>8, <1>9, ChangeKeeps

\* The release of the dependents leaves those that another parent holds back.
LEMMA ReleaseKeeps ==
  ASSUME FamilyInv, NEW j \in Job, Release(j)
  PROVE  FamilyInv'
<1> DEFINE along == IF row[j].state = Done THEN DependentsOf(j, Done) ELSE {}
<1>1. /\ Change(j, row[j].state, row[j].dated, along, Pending) /\ Written(pressed, along)
      /\ releasing' = releasing \ {j} /\ j \in Stored
      /\ UNCHANGED <<finished, lost, unreleased, skewed>>
  BY DEF Release, history
<1>2. along \in SUBSET Stored
  BY DEF DependentsOf
<1>3. ASSUME NEW c \in along
      PROVE  /\ c # j /\ row[c].state = WaitDependencies
             /\ \A p \in ExistingParents(c) : row[p].state = Done
  BY StateNames DEF DependentsOf
<1>4. ASSUME NEW c \in Stored \ along, row[c].state = WaitDependencies, j \in row[c].parents
      PROVE  \E p \in row[c].parents \cap Stored : row[p].state # Done
  BY <1>1, <1>4 DEF DependentsOf, ExistingParents
<1> HIDE DEF along
<1>5. row[j] \in [state : AllStates, parents : SUBSET Leaf, dated : BOOLEAN]
  BY DEF FamilyInv, Rows
<1>6. row[j].state \in States /\ row[j].dated \in BOOLEAN /\ Pending \in States
  BY <1>1, <1>5, StateNames DEF Stored
<1>7. /\ row' \in Rows /\ Stored' = Stored
      /\ \A c \in Job : row'[c].parents = row[c].parents
      /\ \A c \in along \ {j} : row'[c].state = Pending
      /\ row'[j].state = row[j].state
  BY <1>1, <1>2, <1>6, ChangedRows DEF FamilyInv
<1>8. \A c \in Job \ along : row'[c] = row[c]
  BY <1>1, <1>5 DEF Change
<1>9. \A c \in Stored : c \in Job
  BY DEF Stored
<1>10. PressedInv'
  <2>1. along \in SUBSET Job
    BY <1>2, <1>9
  <2> QED
    BY <1>1, <1>8, <2>1, PressedKept DEF FamilyInv
<1>11. \A c \in along : row'[c].state = Pending
  BY <1>3, <1>7
<1>12. \A c \in Stored : row'[c].state = Done => c \in finished'
  BY <1>1, <1>8, <1>9, <1>11, StateNames DEF FamilyInv, DoneIsFinished
<1>13. ASSUME NEW c \in Stored, row'[c].state \in {Pending, Started, Failed}
       PROVE  row[c].parents \subseteq finished' \cup lost
  <2>1. CASE c \in along
    BY <1>1, <1>3, <2>1, ParentsDone
  <2>2. CASE c \notin along
    BY <1>1, <1>8, <1>9, <1>13, <2>2 DEF FamilyInv, RunsAfterParents
  <2> QED
    BY <2>1, <2>2
<1>14. ASSUME NEW c \in Stored, row'[c].state = WaitDependencies
       PROVE  \/ \E p \in row[c].parents \cap Stored : row'[p].state # Done
              \/ row[c].parents \cap (lost \cup releasing' \cup unreleased') # {}
              \/ c \in skewed'
  <2>1. c \notin along /\ row[c].state = WaitDependencies
    BY <1>8, <1>9, <1>11, <1>14, StateNames
  <2>2. \A p \in Stored : row[p].state # Done => row'[p].state # Done
    BY <1>8, <1>9, <1>11, StateNames
  <2>3. CASE j \in row[c].parents
    BY <1>4, <2>1, <2>2, <2>3
  <2>4. CASE j \notin row[c].parents
    <3>1. \/ \E p \in row[c].parents \cap Stored : row[p].state # Done
          \/ row[c].parents \cap (lost \cup releasing \cup unreleased) # {}
          \/ c \in skewed
      BY <2>1 DEF FamilyInv, WaitsForSomeone, ExistingParents
    <3>2. row[c].parents \cap (lost \cup releasing \cup unreleased)
          = row[c].parents \cap (lost \cup releasing' \cup unreleased')
      BY <1>1, <2>4
    <3> QED
      BY <1>1, <2>2, <3>1, <3>2
  <2> QED
    BY <2>3, <2>4
<1> QED
  BY <1>1, <1>7, <1>10, <1>12, <1>13, <1>14, ChangeKeeps

\* A job and its followers get a state in which they neither run nor wait, or
\* the job fails or starts: those that wait for them go on waiting.
LEMMA NotDoneKeeps ==
  ASSUME FamilyInv, NEW j \in Stored, NEW state \in {Cancelled, Failed, Started},
         NEW dated \in BOOLEAN, NEW S \in SUBSET Stored,
         NEW followed \in States, S # {} => followed = Cancelled,
         state \in {Failed, Started} => row[j].state \in {Pending, Started},
         Change(j, state, dated, S, followed),
         NEW open \in SUBSET pressed, Written(open, {j} \cup S),
         UNCHANGED <<finished, lost, releasing, unreleased>>, skewed \subseteq skewed'
  PROVE  FamilyInv'
<1>1. /\ row' \in Rows /\ Stored' = Stored
      /\ \A c \in Job : row'[c].parents = row[c].parents
      /\ row'[j].state = state
      /\ \A c \in S \ {j} : row'[c].state = followed
      /\ \A c \in Job \ (S \cup {j}) : row'[c] = row[c]
  BY ChangedRows, StateNames DEF FamilyInv
<1>2. \A c \in Stored : c \in Job
  BY DEF Stored
<1>3. \A c \in S \ {j} : row'[c].state = Cancelled
  BY <1>1
<1>4. \A c \in Stored : row'[c].state = Done => c \in finished'
  BY <1>1, <1>2, <1>3, StateNames DEF FamilyInv, DoneIsFinished
<1>5. \A c \in Stored : row'[c].state \in {Pending, Started, Failed}
        => row[c].parents \subseteq finished' \cup lost
  BY <1>1, <1>2, <1>3, StateNames DEF FamilyInv, RunsAfterParents
<1>6. ASSUME NEW c \in Stored, row'[c].state = WaitDependencies
      PROVE  \/ \E p \in row[c].parents \cap Stored : row'[p].state # Done
             \/ row[c].parents \cap (lost \cup releasing' \cup unreleased') # {}
             \/ c \in skewed'
  <2>1. row'[c] = row[c]
    BY <1>1, <1>2, <1>3, <1>6, StateNames
  <2>2. \A p \in Stored : row[p].state # Done => row'[p].state # Done
    BY <1>1, <1>2, <1>3, StateNames
  <2> QED
    BY <1>6, <2>1, <2>2, WaitersKeep DEF FamilyInv
<1>7. PressedInv'
  <2>1. {j} \cup S \in SUBSET Job /\ \A c \in Job \ ({j} \cup S) : row'[c] = row[c]
    BY <1>1, <1>2
  <2> QED
    BY <2>1, PressedKept DEF FamilyInv
<1> QED
  BY <1>1, <1>4, <1>5, <1>6, <1>7, ChangeKeeps

-----------------------------------------------------------------------------
(* The buttons *)

\* A user's transaction takes its snapshot.
LEMMA PressKeeps ==
  ASSUME FamilyInv, NEW j \in Stored, NEW new \in {Done, Cancelled, Pending, WaitDependencies},
         NEW along \in SUBSET Stored, Press(j, new, along),
         \A c \in along : row[c].state = WaitDependencies,
         new \in {Done, Cancelled} => along = DependentsOf(j, new),
         new \notin {Done, Cancelled} => along = {},
         new \in {Cancelled, WaitDependencies} => row[j].state # new,
         new = Pending => row[j].parents \subseteq finished \cup lost,
         new = WaitDependencies => \E p \in ExistingParents(j) : row[p].state # Done
  PROVE  FamilyInv'
<1> DEFINE q == [job |-> j, new |-> new, along |-> along, changed |-> {}]
<1>1. /\ pressed' = pressed \cup {q}
      /\ UNCHANGED <<row, releasing, finished, lost, unreleased, skewed>>
  BY DEF Press
<1>2. q \in Presses
  BY StateNames DEF Presses, Stored
<1>3. q.job = j /\ q.new = new /\ q.along = along /\ q.changed = {}
  OBVIOUS
<1> HIDE DEF q
<1>4. SnapshotOfWrites(q)
  <2>1. new = Done => \A c \in along : row[c].parents \subseteq finished \cup lost \cup {j}
    BY DEF FamilyInv, ParentsKnown, DoneIsFinished, DependentsOf, ExistingParents
  <2> QED
    BY <1>3, <2>1 DEF SnapshotOfWrites, Writes
<1>5. SnapshotOfOthers(q)
  <2>1. ASSUME new \in {Done, Cancelled}, NEW c \in Stored \ along,
               row[c].state = WaitDependencies, j \in row[c].parents
        PROVE  Withheld(q, c, {j}, new)
    BY <2>1 DEF DependentsOf, ExistingParents, Withheld
  <2>2. ASSUME new = WaitDependencies PROVE Withheld(q, j, {}, Done)
    BY <2>2 DEF ExistingParents, Withheld
  <2> QED
    BY <1>3, <2>1, <2>2 DEF SnapshotOfOthers
<1>6. PressedInv'
  BY <1>1, <1>2, <1>4, <1>5 DEF FamilyInv, PressedInv, SnapshotOfWrites, SnapshotOfOthers,
                                Withheld, Stored
<1> QED
  BY <1>1, <1>6 DEF FamilyInv, ParentsKnown, DoneIsFinished, RunsAfterParents,
                    WaitsForSomeone, Stored, ExistingParents

\* What a commit writes.
LEMMA CommitWrites ==
  ASSUME FamilyInv, NEW r \in pressed, CommitPress(r),
         NEW followed \in States, followed = IF r.new = Done THEN Pending ELSE Cancelled
  PROVE  /\ r \in Presses /\ SnapshotOfWrites(r) /\ SnapshotOfOthers(r)
         /\ r.job \in Stored /\ r.along \in SUBSET Stored
         /\ row' \in Rows /\ Stored' = Stored
         /\ \A c \in Job : row'[c].parents = row[c].parents
         /\ row'[r.job].state = r.new
         /\ \A c \in r.along \ {r.job} : row'[c].state = followed
         /\ \A c \in Job \ Writes(r) : row'[c] = row[c]
         /\ PressedInv'
<1>1. r \in Presses /\ SnapshotOfWrites(r) /\ SnapshotOfOthers(r)
  BY DEF FamilyInv, PressedInv
<1>2. r.job \in Stored /\ r.along \in SUBSET Stored /\ r.new \in States
  BY <1>1 DEF Presses, SnapshotOfWrites
<1>3. Dates(r) \in BOOLEAN
  BY DEF Dates
<1>4. Change(r.job, r.new, Dates(r), r.along, followed)
  BY DEF CommitPress
<1>5. /\ row' \in Rows /\ Stored' = Stored
      /\ \A c \in Job : row'[c].parents = row[c].parents
      /\ row'[r.job].state = r.new
      /\ \A c \in r.along \ {r.job} : row'[c].state = followed
      /\ \A c \in Job \ (r.along \cup {r.job}) : row'[c] = row[c]
  <2>1. row \in Rows
    BY DEF FamilyInv
  <2>2. row' \in Rows
    BY <1>2, <1>3, <1>4, <2>1, ChangedRows
  <2>3. Stored' = Stored
    BY <1>2, <1>3, <1>4, <2>1, ChangedRows
  <2>4. \A c \in Job : row'[c].parents = row[c].parents
    BY <1>2, <1>3, <1>4, <2>1, ChangedRows
  <2>5. row'[r.job].state = r.new
    BY <1>2, <1>4, <2>1 DEF Change, Rows, Stored
  <2>6. \A c \in r.along \ {r.job} : row'[c].state = followed
    BY <1>2, <1>4, <2>1 DEF Change, Rows, Stored
  <2>7. \A c \in Job \ (r.along \cup {r.job}) : row'[c] = row[c]
    BY <1>4 DEF Change
  <2> QED
    BY <2>2, <2>3, <2>4, <2>5, <2>6, <2>7
<1>6. Writes(r) \in SUBSET Job /\ \A c \in Job \ Writes(r) : row'[c] = row[c]
  BY <1>2, <1>5 DEF Writes, Stored
<1>7. PressedInv'
  <2>1. /\ Written(pressed \ {r}, Writes(r)) /\ pressed \ {r} \in SUBSET pressed
        /\ finished \subseteq finished' /\ lost \subseteq lost'
    BY DEF CommitPress
  <2> QED
    BY <1>6, <2>1, PressedKept DEF FamilyInv
<1> QED
  BY <1>1, <1>2, <1>5, <1>6, <1>7

\* A parent that held a job back for the snapshot does so now, or its end was
\* missed, which is recorded.
LEMMA MissedOrHeld ==
  ASSUME FamilyInv, NEW r \in pressed, CommitPress(r), r.new # Cancelled,
         NEW c \in Stored, row'[c].state = WaitDependencies,
         r.job \in {c} \cup row[c].parents, NEW P \in SUBSET {r.job},
         Withheld(r, c, P, Done)
  PROVE  \/ \E p \in (row[c].parents \cap Stored) \ P : row[p].state # Done
         \/ c \in skewed'
<1>1. PICK p \in row[c].parents \ P : p \in r.changed \/ (p \in Stored /\ row[p].state # Done)
  BY DEF Withheld
<1>2. CASE p \in Stored /\ row[p].state # Done
  BY <1>1, <1>2
<1>3. CASE p \in r.changed /\ row[p].state \in NotDone
  <2>1. p \in Job
    BY <1>3 DEF FamilyInv, PressedInv, Presses
  <2>2. row[p].state \in States /\ row[p].state # Done
    BY <1>3, StateNames DEF NotDone, Enqueued
  <2> QED
    BY <1>1, <2>1, <2>2 DEF Stored
<1>4. CASE p \in r.changed /\ row[p].state \notin NotDone
  <2>1. c \in Missed(r)
    BY <1>1, <1>4 DEF Missed
  <2> QED
    BY <2>1 DEF CommitPress
<1> QED
  BY <1>1, <1>2, <1>3, <1>4

LEMMA CommitDone ==
  ASSUME FamilyInv, NEW r \in pressed, CommitPress(r), r.new = Done
  PROVE  FamilyInv'
<1>1. Pending \in States /\ Pending = IF r.new = Done THEN Pending ELSE Cancelled
  BY StateNames
<1>2. /\ SnapshotOfWrites(r) /\ SnapshotOfOthers(r)
      /\ r.job \in Stored /\ r.along \in SUBSET Stored
      /\ row' \in Rows /\ Stored' = Stored
      /\ \A c \in Job : row'[c].parents = row[c].parents
      /\ row'[r.job].state = Done
      /\ \A c \in r.along \ {r.job} : row'[c].state = Pending
      /\ \A c \in Job \ Writes(r) : row'[c] = row[c]
      /\ PressedInv'
  BY <1>1, CommitWrites
<1>3. /\ finished' = finished \cup {r.job} /\ skewed' = skewed \cup Missed(r)
      /\ UNCHANGED <<lost, releasing, unreleased>>
  BY DEF CommitPress
<1>4. \A c \in Stored : c \in Job
  BY DEF Stored
<1>5. \A c \in Stored : row'[c].state = Done => c \in finished'
  BY <1>2, <1>3, <1>4, StateNames DEF FamilyInv, DoneIsFinished, Writes
<1>6. ASSUME NEW c \in Stored, row'[c].state \in {Pending, Started, Failed}
      PROVE  row[c].parents \subseteq finished' \cup lost
  <2>1. c # r.job
    BY <1>2, <1>6, StateNames
  <2>2. CASE c \in r.along
    BY <1>2, <1>3, <2>2 DEF SnapshotOfWrites
  <2>3. CASE c \notin r.along
    BY <1>2, <1>3, <1>4, <1>6, <2>1, <2>3 DEF FamilyInv, RunsAfterParents, Writes
  <2> QED
    BY <2>2, <2>3
<1>7. ASSUME NEW c \in Stored, row'[c].state = WaitDependencies
      PROVE  \/ \E p \in row[c].parents \cap Stored : row'[p].state # Done
             \/ row[c].parents \cap (lost \cup releasing' \cup unreleased') # {}
             \/ c \in skewed'
  <2>1. c \notin Writes(r) /\ row'[c] = row[c]
    BY <1>2, <1>4, <1>7, StateNames DEF Writes
  <2>2. \A p \in Stored \ {r.job} : row[p].state # Done => row'[p].state # Done
    BY <1>2, <1>4, StateNames DEF Writes
  <2>3. CASE r.job \notin row[c].parents
    <3>1. \A p \in row[c].parents \cap Stored : row[p].state # Done => row'[p].state # Done
      BY <2>2, <2>3
    <3> QED
      BY <1>3, <1>7, <2>1, <3>1, WaitersKeep DEF FamilyInv
  <2>4. CASE r.job \in row[c].parents /\ c \in r.changed
    <3>1. c \in Missed(r)
      BY <1>7, <2>4 DEF Missed
    <3> QED
      BY <1>3, <3>1
  <2>5. CASE r.job \in row[c].parents /\ c \notin r.changed
    <3>1. Withheld(r, c, {r.job}, Done)
      BY <1>2, <1>7, <2>1, <2>5 DEF SnapshotOfOthers, Writes
    <3>2. \/ \E p \in (row[c].parents \cap Stored) \ {r.job} : row[p].state # Done
          \/ c \in skewed'
      BY <1>7, <2>5, <3>1, MissedOrHeld, StateNames
    <3> QED
      BY <2>2, <3>2
  <2> QED
    BY <2>3, <2>4, <2>5
<1> QED
  BY <1>2, <1>3, <1>5, <1>6, <1>7, ChangeKeeps

LEMMA CommitCancelled ==
  ASSUME FamilyInv, NEW r \in pressed, CommitPress(r), r.new = Cancelled
  PROVE  FamilyInv'
<1>1. Cancelled \in States /\ Cancelled # Done
  BY StateNames
<1>2. r.job \in Stored /\ r.along \in SUBSET Stored
  BY <1>1, CommitWrites
<1>3. /\ Change(r.job, Cancelled, Dates(r), r.along, Cancelled) /\ Dates(r) \in BOOLEAN
      /\ Written(pressed \ {r}, {r.job} \cup r.along)
      /\ UNCHANGED <<finished, lost, releasing, unreleased>> /\ skewed \subseteq skewed'
  BY <1>1 DEF CommitPress, Dates, Writes
<1>4. pressed \ {r} \in SUBSET pressed /\ Cancelled \notin {Failed, Started}
  BY StateNames
<1> QED
  BY <1>1, <1>2, <1>3, <1>4, NotDoneKeeps

LEMMA CommitRequeue ==
  ASSUME FamilyInv, NEW r \in pressed, CommitPress(r), r.new \notin {Done, Cancelled}
  PROVE  FamilyInv'
<1>1. Cancelled \in States /\ Cancelled = IF r.new = Done THEN Pending ELSE Cancelled
  BY StateNames
<1>2. /\ SnapshotOfWrites(r) /\ SnapshotOfOthers(r) /\ r.job \in Stored
      /\ row' \in Rows /\ Stored' = Stored
      /\ \A c \in Job : row'[c].parents = row[c].parents
      /\ row'[r.job].state = r.new
      /\ \A c \in Job \ Writes(r) : row'[c] = row[c]
      /\ PressedInv'
  BY <1>1, CommitWrites
<1>3. Writes(r) = {r.job} /\ r.new \in {Pending, WaitDependencies}
  BY <1>2 DEF SnapshotOfWrites, Writes
<1>4. /\ skewed' = skewed \cup Missed(r)
      /\ UNCHANGED <<finished, lost, releasing, unreleased>>
  BY DEF CommitPress
<1>5. \A c \in Stored : c \in Job
  BY DEF Stored
<1>6. \A c \in Stored : row'[c].state = Done => c \in finished'
  BY <1>2, <1>3, <1>4, <1>5, StateNames DEF FamilyInv, DoneIsFinished
<1>7. ASSUME NEW c \in Stored, row'[c].state \in {Pending, Started, Failed}
      PROVE  row[c].parents \subseteq finished' \cup lost
  <2>1. CASE c = r.job
    BY <1>2, <1>3, <1>4, <1>7, <2>1, StateNames DEF SnapshotOfWrites
  <2>2. CASE c # r.job
    BY <1>2, <1>3, <1>4, <1>5, <1>7, <2>2 DEF FamilyInv, RunsAfterParents
  <2> QED
    BY <2>1, <2>2
<1>8. \A p \in Stored : row[p].state # Done => row'[p].state # Done
  BY <1>2, <1>3, <1>5, StateNames
<1>9. ASSUME NEW c \in Stored, row'[c].state = WaitDependencies
      PROVE  \/ \E p \in row[c].parents \cap Stored : row'[p].state # Done
             \/ row[c].parents \cap (lost \cup releasing' \cup unreleased') # {}
             \/ c \in skewed'
  <2>1. CASE c = r.job
    <3>1. Withheld(r, c, {}, Done)
      BY <1>2, <1>9, <2>1 DEF SnapshotOfOthers
    <3>2. \/ \E p \in row[c].parents \cap Stored : row[p].state # Done
          \/ c \in skewed'
      BY <1>9, <2>1, <3>1, MissedOrHeld
    <3> QED
      BY <1>8, <3>2
  <2>2. CASE c # r.job
    BY <1>2, <1>3, <1>4, <1>5, <1>8, <1>9, <2>2, WaitersKeep DEF FamilyInv
  <2> QED
    BY <2>1, <2>2
<1> QED
  BY <1>2, <1>4, <1>6, <1>7, <1>9, ChangeKeeps

-----------------------------------------------------------------------------
(* Autovacuum *)

\* A row that is deleted was done, or is lost.
LEMMA AutovacuumKeeps ==
  ASSUME FamilyInv, NEW j \in Job, Autovacuum(j)
  PROVE  FamilyInv'
<1>1. /\ j \in Stored
      /\ row' = [row EXCEPT ![j].state = Deleted, ![j].dated = FALSE]
      /\ lost' = IF row[j].state = Done THEN lost ELSE lost \cup {j}
      /\ UNCHANGED <<finished, releasing, unreleased, skewed>> /\ Written(pressed, {j})
  BY DEF Autovacuum
<1>2. row[j] \in [state : AllStates, parents : SUBSET Leaf, dated : BOOLEAN]
  BY DEF FamilyInv, Rows
<1>3. row' \in Rows /\ row'[j].state = Deleted
  BY <1>1, <1>2 DEF FamilyInv, Rows, AllStates
<1>4. \A c \in Job \ {j} : row'[c] = row[c]
  BY <1>1 DEF FamilyInv, Rows
<1>5. Stored' = Stored \ {j}
  BY <1>3, <1>4, StateNames DEF Stored
<1>6. \A c \in Stored' : c \in Stored /\ row'[c] = row[c]
  BY <1>4, <1>5 DEF Stored
<1>7. j \in finished \cup lost' /\ lost \subseteq lost'
  BY <1>1 DEF FamilyInv, DoneIsFinished
<1>8. ParentsKnown'
  BY <1>1, <1>5, <1>6, <1>7 DEF FamilyInv, ParentsKnown
<1>9. DoneIsFinished'
  BY <1>1, <1>6 DEF FamilyInv, DoneIsFinished
<1>10. RunsAfterParents'
  BY <1>1, <1>6, <1>7 DEF FamilyInv, RunsAfterParents
<1>11. WaitsForSomeone'
  <2> SUFFICES ASSUME NEW c \in Stored', row'[c].state = WaitDependencies
               PROVE  \/ \E p \in row'[c].parents \cap Stored' : row'[p].state # Done
                      \/ row'[c].parents \cap (lost' \cup releasing \cup unreleased) # {}
                      \/ c \in skewed
    BY <1>1 DEF WaitsForSomeone, ExistingParents
  <2>1. CASE row[c].parents \cap (lost \cup releasing \cup unreleased) # {}
    BY <1>6, <1>7, <2>1
  <2>2. ASSUME NEW p \in row[c].parents \cap Stored, row[p].state # Done
        PROVE  (p \in Stored' /\ row'[p].state # Done) \/ p \in lost'
    BY <1>1, <1>5, <1>6, <2>2
  <2>3. \/ \E p \in row[c].parents \cap Stored : row[p].state # Done
        \/ row[c].parents \cap (lost \cup releasing \cup unreleased) # {}
        \/ c \in skewed
    BY <1>6 DEF FamilyInv, WaitsForSomeone, ExistingParents
  <2> QED
    BY <1>6, <2>1, <2>2, <2>3
<1>12. PressedInv'
  BY <1>1, <1>4, <1>7, PressedKept DEF FamilyInv
<1> QED
  BY <1>3, <1>8, <1>9, <1>10, <1>11, <1>12 DEF FamilyInv

-----------------------------------------------------------------------------

LEMMA FamilyNext == FamilyInv /\ GraphOfLeaves /\ [JfNext]_jfVars => FamilyInv'
<1> SUFFICES ASSUME FamilyInv, GraphOfLeaves, [JfNext]_jfVars PROVE FamilyInv'
  OBVIOUS
<1>a. ASSUME UNCHANGED <<row, pressed, finished, lost, unreleased, skewed>>,
             releasing' = releasing
      PROVE  FamilyInv'
  <2>1. PressedInv'
    BY <1>a, PressedSame DEF FamilyInv
  <2> QED
    BY <1>a, <2>1 DEF FamilyInv, ParentsKnown, DoneIsFinished, RunsAfterParents,
                      WaitsForSomeone, Stored, ExistingParents
<1>b. ASSUME NEW s \in Session, Begin(s) \/ RollBack(s) PROVE FamilyInv'
  BY <1>a, <1>b DEF Begin, RollBack, history
<1>c. ASSUME NEW s \in Session, Store(s) PROVE FamilyInv'
  BY <1>c, StoreKeeps
<1>o. pressed \in SUBSET pressed
  OBVIOUS
<1>d. ASSUME NEW j \in Job, NEW state \in {Started, Failed}, NEW dated \in BOOLEAN,
             row[j].state \in {Pending, Started}, Change(j, state, dated, {}, Pending),
             Written(pressed, {j}),
             UNCHANGED <<finished, lost, releasing, unreleased, skewed>>
      PROVE  FamilyInv'
  <2> DEFINE none == {}
  <2>1. j \in Stored /\ Pending \in States
    BY <1>d, StateNames DEF Stored
  <2>2. /\ none \in SUBSET Stored /\ Change(j, state, dated, none, Pending)
        /\ Written(pressed, {j} \cup none)
    BY <1>d
  <2>3. none # {} => Pending = Cancelled
    OBVIOUS
  <2> HIDE DEF none
  <2> QED
    BY <1>d, <1>o, <2>1, <2>2, <2>3, NotDoneKeeps
<1>e. ASSUME NEW j \in Job, Start(j) \/ Fail(j) PROVE FamilyInv'
  BY <1>d, <1>e DEF Start, Fail, history
<1>f. ASSUME NEW j \in Job, Finish(j) PROVE FamilyInv'
  BY <1>f, FinishKeeps
<1>g. ASSUME NEW j \in Job, Release(j) PROVE FamilyInv'
  BY <1>g, ReleaseKeeps
<1>h. ASSUME NEW j \in Job, LoseRelease(j) PROVE FamilyInv'
  <2>1. /\ UNCHANGED <<row, pressed, finished, lost, skewed>>
        /\ releasing' = releasing \ {j} /\ unreleased' = unreleased \cup {j}
    BY <1>h DEF LoseRelease
  <2>2. PressedInv'
    BY <2>1, PressedSame DEF FamilyInv
  <2>3. WaitsForSomeone'
    BY <2>1 DEF FamilyInv, WaitsForSomeone, Stored, ExistingParents
  <2> QED
    BY <2>1, <2>2, <2>3 DEF FamilyInv, ParentsKnown, DoneIsFinished, RunsAfterParents, Stored
<1>w. \A j \in Job, st \in States :
        /\ DependentsOf(j, st) \in SUBSET Stored
        /\ \A c \in DependentsOf(j, st) : row[c].state = WaitDependencies
  BY DEF DependentsOf
<1>i. ASSUME NEW j \in Job, PressDone(j) PROVE FamilyInv'
  <2> DEFINE along == DependentsOf(j, Done)
  <2>1. j \in Stored /\ Press(j, Done, along) /\ along = DependentsOf(j, Done)
    BY <1>i DEF PressDone
  <2>2. along \in SUBSET Stored /\ \A c \in along : row[c].state = WaitDependencies
    BY <1>w, StateNames
  <2> HIDE DEF along
  <2> QED
    BY <2>1, <2>2, PressKeeps, StateNames
<1>j. ASSUME NEW j \in Job, PressCancelled(j) PROVE FamilyInv'
  <2> DEFINE along == DependentsOf(j, Cancelled)
  <2>1. Press(j, Cancelled, along) /\ along = DependentsOf(j, Cancelled)
    BY <1>j DEF PressCancelled
  <2>2. along \in SUBSET Stored /\ \A c \in along : row[c].state = WaitDependencies
    BY <1>w, StateNames
  <2>3. j \in Stored /\ row[j].state # Cancelled
    BY <1>j, StateNames DEF PressCancelled, Stored
  <2> HIDE DEF along
  <2> QED
    BY <2>1, <2>2, <2>3, PressKeeps, StateNames
<1>k. ASSUME NEW j \in Job, PressRequeue(j) PROVE FamilyInv'
  <2> DEFINE none == {}
             free == \A p \in ExistingParents(j) : row[p].state = Done
  <2>1. /\ j \in Stored /\ row[j].state # WaitDependencies
        /\ Press(j, IF free THEN Pending ELSE WaitDependencies, none)
    BY <1>k DEF PressRequeue
  <2>2. none \in SUBSET Stored /\ \A c \in none : row[c].state = WaitDependencies
    OBVIOUS
  <2>3. none = {}
    OBVIOUS
  <2>4. free => row[j].parents \subseteq finished \cup lost
    BY <2>1, ParentsDone
  <2>5. ~free => \E p \in ExistingParents(j) : row[p].state # Done
    OBVIOUS
  <2> HIDE DEF none, free
  <2>6. CASE free
    BY <2>1, <2>2, <2>3, <2>4, <2>6, PressKeeps, StateNames
  <2>7. CASE ~free
    BY <2>1, <2>2, <2>3, <2>5, <2>7, PressKeeps, StateNames
  <2> QED
    BY <2>6, <2>7
<1>l. ASSUME NEW j \in Job, Autovacuum(j) PROVE FamilyInv'
  BY <1>l, AutovacuumKeeps
<1>m. ASSUME NEW r \in pressed, CommitPress(r) PROVE FamilyInv'
  BY <1>m, CommitDone, CommitCancelled, CommitRequeue
<1>p. CASE DyNext /\ UNCHANGED familyVars
  BY <1>a, <1>p DEF familyVars, history
<1>q. CASE UNCHANGED jfVars
  BY <1>a, <1>q DEF jfVars, familyVars, history
<1> QED
  BY <1>b, <1>c, <1>e, <1>f, <1>g, <1>h, <1>i, <1>j, <1>k, <1>l, <1>m, <1>p, <1>q DEF JfNext, Live

LEMMA FamilyAlways == JfSpec => []FamilyInv
<1>1. JfInit => FamilyInv
  BY FamilyInit
<1>2. FamilyInv /\ GraphOfLeaves /\ [JfNext]_jfVars => FamilyInv'
  BY FamilyNext
<1> QED
  BY <1>1, <1>2, LeavesAlways, PTL DEF JfSpec

\* For any graph of any delayables, crons and keys: a job is queued, started or
\* failed only after the jobs it depends on were done or deleted without,
\* whatever is requeued, cancelled, set done by hand and deleted meanwhile.
THEOREM OrderIsKept == JfSpec => []RunsAfterParents
<1>1. FamilyInv => RunsAfterParents
  BY DEF FamilyInv
<1> QED
  BY <1>1, FamilyAlways, PTL

\* For any graph: a job waits when all the jobs it depends on are done only
\* because a worker has not made its release yet or ended without it (the done
\* and the release are two transactions, main.py:45 and :52), because of a
\* transaction of a user that overlapped the end of another parent, or of a
\* parent deleted before it was done.
THEOREM NobodyForgotten == JfSpec => []WaitsForSomeone
<1>1. FamilyInv => WaitsForSomeone
  BY DEF FamilyInv
<1> QED
  BY <1>1, FamilyAlways, PTL

-----------------------------------------------------------------------------
(* Types *)

\* The values of the transactions that create jobs.
Keys == {KeyOf(j) : j \in Job}
Transactions == [at : {"new", "open", "closed"}, seen : SUBSET Keys, alone : BOOLEAN]

HistoryTypes ==
  /\ releasing \cup finished \cup lost \cup left \cup unreleased \cup skewed \subseteq Job
  /\ presses \in Nat

FamilyTypes == JfTypeOK /\ tx \in [Session -> Transactions]

LEMMA TypesInit == JfInit /\ GraphOfLeaves => FamilyTypes
<1> SUFFICES ASSUME JfInit, GraphOfLeaves PROVE FamilyTypes
  OBVIOUS
<1>1. row = [j \in Job |-> NoRow] /\ NoRow = [state |-> Absent, parents |-> {}, dated |-> FALSE]
  BY DEF JfInit, NoRow
<1>2. row \in [Job -> [state : States \cup {Absent, Deleted}, parents : SUBSET Leaf, dated : BOOLEAN]]
  BY <1>1
<1>3. \A j \in Job : ~row[j].dated
  BY <1>1
<1>4. tx \in [Session -> Transactions]
  BY DEF JfInit, Transactions
<1>5. \A s \in Session : tx[s].at = "new" /\ tx[s].alone = TRUE
  BY DEF JfInit
<1>6. /\ releasing \cup finished \cup lost \cup left \cup unreleased \cup skewed \subseteq Job
      /\ presses \in Nat /\ pressed = {}
  BY DEF JfInit
<1> QED
  BY <1>2, <1>3, <1>4, <1>5, <1>6 DEF FamilyTypes, JfTypeOK

LEMMA TransactionValues ==
  ASSUME tx \in [Session -> Transactions], NEW s \in Session
  PROVE  tx[s].at \in {"new", "open", "closed"} /\ tx[s].alone \in BOOLEAN
  BY DEF Transactions

\* What the steps of a transaction write.
LEMMA TransactionsNext ==
  ASSUME tx \in [Session -> Transactions], NEW s \in Session,
         Begin(s) \/ Store(s) \/ RollBack(s)
  PROVE  tx' \in [Session -> Transactions]
<1>1. CASE Begin(s)
  <2> DEFINE open == {t \in Session : tx[t].at = "open"}
  <2>1. tx' = [t \in Session |->
                CASE t = s -> [at |-> "open", seen |-> QueuedKeys, alone |-> open = {}]
                  [] t \in open -> [tx[t] EXCEPT !.alone = FALSE]
                  [] OTHER -> tx[t]]
    BY <1>1 DEF Begin
  <2>2. QueuedKeys \in SUBSET Keys
    BY DEF QueuedKeys, Keys, Stored
  <2>3. (open = {}) \in BOOLEAN
    OBVIOUS
  <2> HIDE DEF open
  <2>4. [at |-> "open", seen |-> QueuedKeys, alone |-> open = {}] \in Transactions
    BY <2>2, <2>3 DEF Transactions
  <2>5. ASSUME NEW t \in Session
        PROVE  [tx[t] EXCEPT !.alone = FALSE] \in Transactions
    BY DEF Transactions
  <2> QED
    BY <2>1, <2>4, <2>5
<1>2. CASE Store(s) \/ RollBack(s)
  <2>1. tx' = [tx EXCEPT ![s].at = "closed", ![s].seen = {}]
    BY <1>2 DEF Store, RollBack, Close
  <2> QED
    BY <2>1 DEF Transactions
<1> QED
  BY <1>1, <1>2

\* What is recorded of jobs is of the jobs there are.
LEMMA HistoryNext ==
  ASSUME FamilyTypes, FamilyInv, [JfNext]_jfVars
  PROVE  HistoryTypes'
<1>1. HistoryTypes
  BY DEF FamilyTypes, JfTypeOK, HistoryTypes
<1>2. ASSUME UNCHANGED <<releasing, history>> PROVE HistoryTypes'
  BY <1>1, <1>2 DEF HistoryTypes, history
<1>3. ASSUME NEW s \in Session, Begin(s) \/ Store(s) \/ RollBack(s) PROVE HistoryTypes'
  BY <1>2, <1>3 DEF Begin, Store, RollBack
<1>4. ASSUME NEW j \in Job, Start(j) \/ Finish(j) \/ Autovacuum(j) PROVE HistoryTypes'
  BY <1>1, <1>4 DEF Start, Finish, Autovacuum, HistoryTypes
<1>5. ASSUME NEW j \in Job, Release(j) \/ LoseRelease(j) \/ Fail(j) PROVE HistoryTypes'
  BY <1>1, <1>5 DEF Release, LoseRelease, Fail, HistoryTypes, history
<1>6. ASSUME NEW j, NEW new, NEW along, Press(j, new, along) PROVE HistoryTypes'
  BY <1>1, <1>6 DEF Press, HistoryTypes
<1>7. ASSUME NEW j \in Job, PressDone(j) \/ PressCancelled(j) \/ PressRequeue(j)
      PROVE  HistoryTypes'
  BY <1>6, <1>7 DEF PressDone, PressCancelled, PressRequeue
<1>8. ASSUME NEW r \in pressed, CommitPress(r) PROVE HistoryTypes'
  <2>1. r.job \in Job /\ r.along \subseteq Job
    BY DEF FamilyInv, PressedInv, Presses
  <2>2. Writes(r) \subseteq Job /\ Missed(r) \subseteq Job
    BY <2>1 DEF Writes, Missed, Stored
  <2>3. finished' \subseteq finished \cup {r.job} /\ left' \subseteq left \cup Writes(r)
    BY <1>8 DEF CommitPress, Writes
  <2> QED
    BY <1>1, <1>8, <2>1, <2>2, <2>3 DEF CommitPress, HistoryTypes
<1>9. CASE UNCHANGED familyVars
  BY <1>2, <1>9 DEF familyVars
<1> QED
  BY <1>3, <1>4, <1>5, <1>7, <1>8, <1>9 DEF JfNext, Live, jfVars

\* Rows that are created have no date.
LEMMA TypesStore ==
  ASSUME FamilyTypes, GraphOfLeaves', HistoryTypes', PressedInv', NEW s \in Session, Store(s)
  PROVE  FamilyTypes'
<1>1. tx' \in [Session -> Transactions]
  BY TransactionsNext DEF FamilyTypes
<1>2. pressed' \subseteq [job : Job, new : States, along : SUBSET Job, changed : SUBSET Job]
  BY DEF PressedInv, Presses
<1>3. ASSUME NEW j \in Job
      PROVE  /\ NewRow(j) \in [state : States \cup {Absent, Deleted}, parents : SUBSET Leaf, dated : BOOLEAN]
             /\ ~NewRow(j).dated
  <2>1. (IF j \in Leaf THEN ParentsIn(j) ELSE {}) \in SUBSET Leaf
    BY DEF ParentsIn, FamilyTypes, JfTypeOK, GraphOfLeaves
  <2> QED
    BY <2>1, StateNames DEF NewRow
<1>4. CASE row' = row
  BY <1>1, <1>2, <1>4 DEF FamilyTypes, JfTypeOK, HistoryTypes, Transactions
<1>5. CASE row' = [j \in Job |-> IF j \in Wanted(s) THEN NewRow(j) ELSE row[j]]
  <2>1. row' \in [Job -> [state : States \cup {Absent, Deleted}, parents : SUBSET Leaf, dated : BOOLEAN]]
    BY <1>3, <1>5 DEF FamilyTypes, JfTypeOK
  <2>2. \A j \in Job : row'[j].dated => row'[j].state \in {Done, Cancelled, Failed}
    BY <1>3, <1>5 DEF FamilyTypes, JfTypeOK
  <2> QED
    BY <1>1, <1>2, <2>1, <2>2 DEF FamilyTypes, JfTypeOK, HistoryTypes, Transactions
<1> QED
  BY <1>4, <1>5 DEF Store

\* Rows change: what has a date has ended.
LEMMA TypesChange ==
  ASSUME FamilyTypes, GraphOfLeaves', HistoryTypes', PressedInv',
         NEW j \in Stored, NEW state \in States,
         NEW dated \in BOOLEAN, dated => state \in {Done, Cancelled, Failed},
         NEW S \in SUBSET Stored, \A c \in S : row[c].state = WaitDependencies,
         NEW followed \in States,
         Change(j, state, dated, S, followed), tx' = tx
  PROVE  FamilyTypes'
<1>1. row \in Rows
  BY DEF FamilyTypes, JfTypeOK, Rows, AllStates
<1>2. row' \in Rows
  BY <1>1, ChangedRows
<1>3. row'[j].state = state /\ row'[j].dated = dated
  BY <1>1, ChangedRows
<1>4. \A c \in S \ {j} : row'[c].dated = row[c].dated
  BY <1>1, ChangedRows
<1>5. \A c \in Job \ (S \cup {j}) : row'[c] = row[c]
  BY <1>1, ChangedRows
<1>6. \A c \in S : ~row[c].dated
  BY StateNames DEF FamilyTypes, JfTypeOK, Stored
<1>7. ASSUME NEW c \in Job, row'[c].dated
      PROVE  row'[c].state \in {Done, Cancelled, Failed}
  BY <1>3, <1>4, <1>5, <1>6, <1>7 DEF FamilyTypes, JfTypeOK
<1>8. pressed' \subseteq [job : Job, new : States, along : SUBSET Job, changed : SUBSET Job]
  BY DEF PressedInv, Presses
<1> QED
  BY <1>2, <1>7, <1>8 DEF FamilyTypes, JfTypeOK, HistoryTypes, Rows, AllStates

LEMMA TypesNext ==
  FamilyTypes /\ FamilyInv /\ FamilyInv' /\ GraphOfLeaves' /\ [JfNext]_jfVars => FamilyTypes'
<1> SUFFICES ASSUME FamilyTypes, FamilyInv, FamilyInv', GraphOfLeaves', [JfNext]_jfVars
             PROVE  FamilyTypes'
  OBVIOUS
<1>h. HistoryTypes' /\ PressedInv'
  BY HistoryNext DEF FamilyInv
<1>n. /\ WaitDependencies \in States /\ Pending \in States /\ Started \in States
      /\ Done \in States /\ Cancelled \in States /\ Failed \in States
  BY StateNames
<1>r. pressed' \subseteq [job : Job, new : States, along : SUBSET Job, changed : SUBSET Job]
  BY <1>h DEF PressedInv, Presses
<1>s. \A j \in Job : row[j].state \in States => j \in Stored
  BY DEF Stored
<1>a. ASSUME row' = row, tx' \in [Session -> Transactions] PROVE FamilyTypes'
  BY <1>a, <1>h, <1>r DEF FamilyTypes, JfTypeOK, HistoryTypes, Transactions
<1>t. tx \in [Session -> Transactions]
  BY DEF FamilyTypes
<1>b. ASSUME NEW s \in Session, Begin(s) \/ RollBack(s) PROVE FamilyTypes'
  <2>1. tx' \in [Session -> Transactions]
    BY <1>b, <1>t, TransactionsNext
  <2>2. row' = row
    BY <1>b DEF Begin, RollBack
  <2> QED
    BY <1>a, <2>1, <2>2
<1>c. ASSUME NEW s \in Session, Store(s) PROVE FamilyTypes'
  BY <1>c, <1>h, TypesStore
<1>d. ASSUME NEW j \in Stored, NEW state \in States, NEW dated \in BOOLEAN,
             dated => state \in {Done, Cancelled, Failed},
             Change(j, state, dated, {}, Pending), tx' = tx
      PROVE  FamilyTypes'
  <2> DEFINE none == {}
  <2>1. /\ none \in SUBSET Stored /\ \A c \in none : row[c].state = WaitDependencies
        /\ Change(j, state, dated, none, Pending)
    BY <1>d
  <2> HIDE DEF none
  <2> QED
    BY <1>d, <1>h, <1>n, <2>1, TypesChange
<1>e. ASSUME NEW j \in Job, Start(j) \/ Finish(j) \/ Fail(j) PROVE FamilyTypes'
  <2>1. j \in Stored /\ tx' = tx
    BY <1>e, <1>n, <1>s DEF Start, Finish, Fail
  <2>2. \E state \in {Started, Done, Failed}, dated \in BOOLEAN :
          (dated => state \in {Done, Cancelled, Failed}) /\ Change(j, state, dated, {}, Pending)
    BY <1>e DEF Start, Finish, Fail
  <2> QED
    BY <1>d, <1>n, <2>1, <2>2
<1>f. ASSUME NEW j \in Job, Release(j) PROVE FamilyTypes'
  <2> DEFINE along == IF row[j].state = Done THEN DependentsOf(j, Done) ELSE {}
  <2>1. Change(j, row[j].state, row[j].dated, along, Pending) /\ j \in Stored /\ tx' = tx
    BY <1>f DEF Release
  <2>2. along \in SUBSET Stored /\ \A c \in along : row[c].state = WaitDependencies
    BY DEF DependentsOf
  <2> HIDE DEF along
  <2>3. row[j].state \in States /\ row[j].dated \in BOOLEAN
    BY <2>1 DEF Stored, FamilyTypes, JfTypeOK
  <2>4. row[j].dated => row[j].state \in {Done, Cancelled, Failed}
    BY <2>1 DEF Stored, FamilyTypes, JfTypeOK
  <2> QED
    BY <1>h, <1>n, <2>1, <2>2, <2>3, <2>4, TypesChange
<1>g. ASSUME NEW j \in Job, LoseRelease(j) PROVE FamilyTypes'
  BY <1>a, <1>g, <1>t DEF LoseRelease
<1>i. ASSUME NEW j \in Job, PressDone(j) \/ PressCancelled(j) \/ PressRequeue(j)
      PROVE  FamilyTypes'
  <2>1. row' = row /\ tx' = tx
    BY <1>i DEF PressDone, PressCancelled, PressRequeue, Press
  <2> QED
    BY <1>a, <1>t, <2>1
<1>m. ASSUME NEW r \in pressed, CommitPress(r) PROVE FamilyTypes'
  <2> DEFINE followed == IF r.new = Done THEN Pending ELSE Cancelled
  <2>1. Change(r.job, r.new, Dates(r), r.along, followed) /\ tx' = tx
    BY <1>m DEF CommitPress
  <2>2. /\ r.job \in Stored /\ r.new \in States /\ r.along \in SUBSET Stored
        /\ \A c \in r.along : row[c].state = WaitDependencies
    BY DEF FamilyInv, PressedInv, Presses, SnapshotOfWrites
  <2>3. Dates(r) \in BOOLEAN /\ (Dates(r) => r.new \in {Done, Cancelled, Failed})
    BY DEF Dates
  <2>4. followed \in States
    BY <1>n
  <2> HIDE DEF followed
  <2> QED
    BY <1>h, <2>1, <2>2, <2>3, <2>4, TypesChange
<1>j. ASSUME NEW j \in Job, Autovacuum(j) PROVE FamilyTypes'
  <2>1. row' = [row EXCEPT ![j].state = Deleted, ![j].dated = FALSE] /\ tx' = tx
    BY <1>j DEF Autovacuum
  <2>2. row' \in [Job -> [state : States \cup {Absent, Deleted}, parents : SUBSET Leaf, dated : BOOLEAN]]
    BY <2>1, ZenonT(40) DEF FamilyTypes, JfTypeOK
  <2>3. \A c \in Job : row'[c].dated => row'[c].state \in {Done, Cancelled, Failed}
    BY <2>1 DEF FamilyTypes, JfTypeOK
  <2> QED
    BY <1>h, <1>r, <2>1, <2>2, <2>3 DEF FamilyTypes, JfTypeOK, HistoryTypes
<1>k. CASE UNCHANGED familyVars
  BY <1>a, <1>k, <1>t DEF familyVars
<1> QED
  BY <1>b, <1>c, <1>e, <1>f, <1>g, <1>i, <1>j, <1>k, <1>m DEF JfNext, Live, jfVars

LEMMA TypesAlways == JfSpec => []FamilyTypes
  BY TypesInit, TypesNext, FamilyAlways, LeavesAlways, PTL DEF JfSpec

\* Every variable of the rows and transactions has its type, and only a job that
\* has ended carries a date for autovacuum, for any graph of delayables.
THEOREM JfTypeCorrect == JfSpec => []JfTypeOK
<1>1. FamilyTypes => JfTypeOK
  BY DEF FamilyTypes
<1> QED
  BY <1>1, TypesAlways, PTL

-----------------------------------------------------------------------------
(* Identity keys *)

\* The graph of the caller is fixed before the first transaction begins.
PlanKept == (\E s \in Session : tx[s].at # "new") => plan.at # "building"

\* A row was stored by a transaction, which is closed.
StoredByOne ==
  \A j \in Job : row[j].state # Absent => \E s \in Session : j \in Wanted(s) /\ tx[s].at = "closed"

\* A job that never left is still queued: the search for its key finds it.
QueuedUntilLeft ==
  \A j \in Job \ left : row[j].state \in Queued \cup {Absent} /\ ~row[j].dated

\* Two transactions that are open have overlapped.
OpenOverlap ==
  \A s, t \in Session : s # t /\ tx[s].at = "open" /\ tx[t].at = "open" => ~tx[s].alone

\* A transaction that is open has seen the keys of the jobs that others stored
\* without overlapping it.
KeysSeen ==
  \A s, t \in Session : \A j \in (Wanted(t) \cap Stored) \ left :
    /\ s # t /\ tx[s].at = "open" /\ tx[t].at = "closed"
    /\ tx[s].alone \/ tx[t].alone
    /\ KeyOf(j) # NoKey
    => KeyOf(j) \in tx[s].seen

IdentityInv ==
  /\ FamilyTypes
  /\ PlanKept
  /\ StoredByOne
  /\ QueuedUntilLeft
  /\ OpenOverlap
  /\ KeysSeen
  /\ IdentityKept

LEMMA IdentityInit == JfInit /\ GraphOfLeaves => IdentityInv
<1> SUFFICES ASSUME JfInit, GraphOfLeaves PROVE IdentityInv
  OBVIOUS
<1>1. FamilyTypes
  BY TypesInit
<1>2. \A s \in Session : tx[s].at = "new"
  BY DEF JfInit
<1>3. \A j \in Job : row[j].state = Absent /\ ~row[j].dated
  BY DEF JfInit, NoRow
<1>4. Stored = {}
  BY <1>3, StateNames DEF Stored
<1> QED
  BY <1>1, <1>2, <1>3, <1>4
  DEF IdentityInv, PlanKept, StoredByOne, QueuedUntilLeft, OpenOverlap, KeysSeen, IdentityKept

-----------------------------------------------------------------------------
(* Rows change *)

\* A stored job that never left is queued.
LEMMA StoredIsQueued ==
  ASSUME QueuedUntilLeft, NEW j \in Stored \ left
  PROVE  row[j].state \in Queued
  BY StateNames DEF QueuedUntilLeft, Stored

\* Rows change when no job appears, and those that did not leave stay queued.
LEMMA RowsMove ==
  ASSUME IdentityInv, FamilyTypes', UNCHANGED <<tx, plan>>, left \subseteq left',
         \A j \in Job : row'[j].state # Absent => row[j].state # Absent,
         \A j \in Job \ left' : /\ row'[j].state \in Queued \cup {Absent}
                              /\ ~row'[j].dated
  PROVE  IdentityInv'
<1>1. \A s \in Session : Wanted(s)' = Wanted(s) /\ KeysOf(s)' = KeysOf(s)
  BY DEF Wanted, KeysOf
<1>2. Stored' \ left' \subseteq Stored \ left
  <2> SUFFICES ASSUME NEW j \in Stored', j \notin left' PROVE j \in Stored \ left
    OBVIOUS
  <2>1. j \in Job /\ row'[j].state # Absent
    BY StateNames DEF Stored
  <2>2. row[j].state \in Queued
    BY <2>1 DEF IdentityInv, QueuedUntilLeft
  <2> QED
    BY <2>1, <2>2, StateNames DEF Stored, Queued
<1>3. PlanKept' /\ OpenOverlap'
  BY DEF IdentityInv, PlanKept, OpenOverlap
<1>4. StoredByOne'
  BY <1>1 DEF IdentityInv, StoredByOne
<1>5. QueuedUntilLeft'
  BY DEF QueuedUntilLeft
<1>6. KeysSeen'
  BY <1>1, <1>2 DEF IdentityInv, KeysSeen
<1>7. IdentityKept'
  <2> SUFFICES ASSUME NEW s \in Session, NEW t \in Session,
                      NEW i \in Wanted(s)' \cap Stored', NEW j \in Wanted(t)' \cap Stored',
                      s # t, tx'[s].alone, KeyOf(i) = KeyOf(j), KeyOf(i) # NoKey,
                      {i, j} \cap left' = {}
               PROVE  KeysOf(s)' # {KeyOf(i)} \/ KeysOf(t)' # {KeyOf(j)}
    BY DEF IdentityKept
  <2>1. i \in (Wanted(s) \cap Stored) \ left /\ j \in (Wanted(t) \cap Stored) \ left
    BY <1>1, <1>2
  <2>2. row[i].state \in Queued /\ row[j].state \in Queued
    BY <2>1, StoredIsQueued DEF IdentityInv
  <2> QED
    BY <1>1, <2>1, <2>2 DEF IdentityInv, IdentityKept
<1> QED
  BY <1>3, <1>4, <1>5, <1>6, <1>7 DEF IdentityInv

\* What the life of a row does to it: followers of an ended job were waiting.
LEMMA IdentityChange ==
  ASSUME IdentityInv, FamilyTypes', NEW j \in Stored, NEW state \in States,
         NEW dated \in BOOLEAN, NEW S \in SUBSET Stored, NEW followed \in States,
         Change(j, state, dated, S, followed), UNCHANGED <<tx, plan>>,
         left \subseteq left', j \in left' \/ (state \in Queued /\ ~dated),
         S \subseteq left' \/ followed = Pending
  PROVE  IdentityInv'
<1>1. row \in Rows /\ j \in Job /\ S \subseteq Job
  BY DEF IdentityInv, FamilyTypes, JfTypeOK, Rows, AllStates, Stored
<1>2. row'[j].state = state /\ row'[j].dated = dated
  BY <1>1, ChangedRows
<1>3. \A c \in S \ {j} : row'[c].state = followed
  BY <1>1, ChangedRows
<1>4. \A c \in S \ {j} : row'[c].dated = row[c].dated
  BY <1>1, ChangedRows
<1>5. \A c \in Job \ (S \cup {j}) : row'[c] = row[c]
  BY DEF Change
<1>6. \A c \in S \cup {j} : row[c].state # Absent
  BY StateNames DEF Stored
<1>7. \A c \in Job : row'[c].state # Absent => row[c].state # Absent
  BY <1>5, <1>6
<1>8. ASSUME NEW c \in Job \ left'
      PROVE  row'[c].state \in Queued \cup {Absent} /\ ~row'[c].dated
  <2>1. row[c].state \in Queued \cup {Absent} /\ ~row[c].dated
    BY <1>8 DEF IdentityInv, QueuedUntilLeft
  <2>2. CASE c = j
    BY <1>2, <1>8, <2>2
  <2>3. CASE c \in S \ {j}
    BY <1>3, <1>4, <1>8, <2>1, <2>3 DEF Queued
  <2>4. CASE c \notin S \cup {j}
    BY <1>5, <1>8, <2>1, <2>4
  <2> QED
    BY <2>2, <2>3, <2>4
<1> QED
  BY <1>7, <1>8, RowsMove

-----------------------------------------------------------------------------
(* Transactions *)

\* The graph is not changed once a transaction began: its nodes stay.
LEMMA NodesKept ==
  ASSUME PlanKept, DyNext \/ UNCHANGED plan, NEW s \in Session, tx[s].at # "new"
  PROVE  plan'.node = plan.node /\ (plan.at # "building" => plan'.at # "building")
<1>1. plan.at # "building"
  BY DEF PlanKept
<1>2. CASE Build
  BY <1>1, <1>2 DEF Build
<1>3. ASSUME NEW o \in Existing, Delay(o) \/ DelayDirectly(o) PROVE FALSE
  BY <1>1, <1>3 DEF Delay, DelayDirectly, Connect
<1>4. CASE RunDirectly
  BY <1>4 DEF RunDirectly
<1> QED
  BY <1>2, <1>3, <1>4 DEF DyNext

\* No two transactions want the same job.
LEMMA WantedApart ==
  ASSUME GraphOfLeaves, NEW s \in Session, NEW t \in Session, s # t
  PROVE  Wanted(s) \cap Wanted(t) = {}
  BY JobFamilyAssumption DEF Session, Wanted, GraphOfLeaves, Job

\* The job of a transaction that is not closed has no row.
LEMMA NotStoredYet ==
  ASSUME GraphOfLeaves, StoredByOne, NEW s \in Session, tx[s].at # "closed",
         NEW j \in Job \cap Wanted(s)
  PROVE  row[j].state = Absent
<1> SUFFICES ASSUME row[j].state # Absent PROVE FALSE
  OBVIOUS
<1>1. PICK t \in Session : j \in Wanted(t) /\ tx[t].at = "closed"
  BY DEF StoredByOne
<1> QED
  BY <1>1, WantedApart

\* Building or running the graph changes no row and no transaction.
LEMMA IdentityPlan ==
  ASSUME IdentityInv, FamilyTypes', DyNext \/ UNCHANGED dyVars, UNCHANGED familyVars
  PROVE  IdentityInv'
<1>1. UNCHANGED <<row, tx, left>> /\ Stored' = Stored
  BY DEF familyVars, history, Stored
<1>2. DyNext \/ UNCHANGED plan
  BY DEF dyVars
<1>3. ASSUME NEW s \in Session, tx[s].at # "new"
      PROVE  Wanted(s)' = Wanted(s) /\ KeysOf(s)' = KeysOf(s)
  BY <1>2, <1>3, NodesKept DEF IdentityInv, Wanted, KeysOf
<1>4. PlanKept'
  BY <1>1, <1>2, NodesKept DEF IdentityInv, PlanKept
<1>5. StoredByOne'
  BY <1>1, <1>3 DEF IdentityInv, StoredByOne
<1>6. ASSUME NEW s \in Session, NEW j \in Wanted(s)' \cap Stored
      PROVE  j \in Wanted(s) /\ tx[s].at = "closed" /\ KeysOf(s)' = KeysOf(s)
  <2>1. GraphOfLeaves' /\ j \in Job /\ row[j].state # Absent
    BY StateNames DEF FamilyTypes, JfTypeOK, Stored
  <2>2. PICK t \in Session : j \in Wanted(t) /\ tx[t].at = "closed"
    BY <2>1 DEF IdentityInv, StoredByOne
  <2>3. j \in Wanted(t)'
    BY <1>3, <2>2
  <2>4. s = t
    BY <1>6, <2>1, <2>3, JobFamilyAssumption DEF Session, Wanted, GraphOfLeaves, Job
  <2> QED
    BY <1>3, <2>2, <2>4
<1>7. KeysSeen'
  BY <1>1, <1>6 DEF IdentityInv, KeysSeen
<1>8. IdentityKept'
  <2> SUFFICES ASSUME NEW s \in Session, NEW t \in Session,
                      NEW i \in Wanted(s)' \cap Stored, NEW j \in Wanted(t)' \cap Stored,
                      s # t, tx[s].alone, KeyOf(i) = KeyOf(j), KeyOf(i) # NoKey,
                      row[i].state \in Queued, row[j].state \in Queued, {i, j} \cap left = {}
               PROVE  KeysOf(s)' # {KeyOf(i)} \/ KeysOf(t)' # {KeyOf(j)}
    BY <1>1 DEF IdentityKept
  <2>1. i \in Wanted(s) \cap Stored /\ KeysOf(s)' = KeysOf(s)
    BY <1>6
  <2>2. j \in Wanted(t) \cap Stored /\ KeysOf(t)' = KeysOf(t)
    BY <1>6
  <2> QED
    BY <2>1, <2>2 DEF IdentityInv, IdentityKept
<1> QED
  BY <1>1, <1>4, <1>5, <1>7, <1>8 DEF IdentityInv, QueuedUntilLeft, OpenOverlap

\* A transaction begins: its snapshot has the keys of all that is queued, and
\* from now on it overlaps those that are open.
LEMMA IdentityBegin ==
  ASSUME IdentityInv, FamilyTypes', NEW u \in Session, Begin(u)
  PROVE  IdentityInv'
<1> DEFINE open == {t \in Session : tx[t].at = "open"}
<1>1. tx' = [t \in Session |->
              CASE t = u -> [at |-> "open", seen |-> QueuedKeys, alone |-> open = {}]
                [] t \in open -> [tx[t] EXCEPT !.alone = FALSE]
                [] OTHER -> tx[t]]
  BY DEF Begin
<1>2. UNCHANGED <<row, left>> /\ Stored' = Stored /\ tx[u].at = "new"
  BY DEF Begin, history, Stored
<1>3. plan'.node = plan.node /\ plan'.at = plan.at
  BY DEF Begin
<1>4. \A s \in Session : Wanted(s)' = Wanted(s) /\ KeysOf(s)' = KeysOf(s)
  BY <1>3 DEF Wanted, KeysOf
<1>5. tx'[u].at = "open" /\ tx'[u].seen = QueuedKeys /\ (tx'[u].alone => open = {})
  <2>1. u \notin open
    BY <1>2
  <2> HIDE DEF open
  <2>2. tx'[u] = [at |-> "open", seen |-> QueuedKeys, alone |-> open = {}]
    BY <1>1, <2>1
  <2>3. tx'[u].at = "open" /\ tx'[u].seen = QueuedKeys
    BY <2>2
  <2>4. CASE open # {}
    <3>1. tx'[u] = [at |-> "open", seen |-> QueuedKeys, alone |-> FALSE]
      BY <2>2, <2>4
    <3> QED
      BY <2>3, <3>1
  <2> QED
    BY <2>3, <2>4
<1>6. ASSUME NEW t \in Session, t # u
      PROVE  /\ tx'[t].at = tx[t].at
             /\ tx'[t].seen = tx[t].seen
             /\ tx[t].at = "open" => ~tx'[t].alone
             /\ tx[t].at # "open" => tx'[t].alone = tx[t].alone
  <2>1. tx[t] \in Transactions
    BY DEF IdentityInv, FamilyTypes
  <2>2. CASE tx[t].at = "open"
    <3>1. tx'[t] = [tx[t] EXCEPT !.alone = FALSE]
      BY <1>1, <1>6, <2>2
    <3> QED
      BY <2>1, <2>2, <3>1 DEF Transactions
  <2>3. CASE tx[t].at # "open"
    BY <1>1, <1>6, <2>3
  <2> QED
    BY <2>2, <2>3
<1>7. \A t \in open : t # u
  BY <1>2
<1>8. PlanKept'
  <2>1. plan.at # "building"
    BY DEF Begin
  <2> QED
    BY <1>3, <2>1 DEF PlanKept
<1>9. StoredByOne'
  BY <1>2, <1>4, <1>6 DEF IdentityInv, StoredByOne
<1>10. QueuedUntilLeft'
  BY <1>2 DEF IdentityInv, QueuedUntilLeft
<1>11. OpenOverlap'
  <2> SUFFICES ASSUME NEW s \in Session, NEW t \in Session, s # t,
                      tx'[s].at = "open", tx'[t].at = "open"
               PROVE  ~tx'[s].alone
    BY DEF OpenOverlap
  <2>1. CASE s = u
    <3>1. tx[t].at = "open"
      BY <1>6, <2>1
    <3> QED
      BY <1>5, <2>1, <3>1
  <2>2. CASE s # u
    BY <1>6, <2>2
  <2> QED
    BY <2>1, <2>2
<1> HIDE DEF open
<1>12. KeysSeen'
  <2> SUFFICES ASSUME NEW s \in Session, NEW t \in Session,
                      NEW j \in (Wanted(t) \cap Stored) \ left, s # t,
                      tx'[s].at = "open", tx'[t].at = "closed",
                      tx'[s].alone \/ tx'[t].alone, KeyOf(j) # NoKey
               PROVE  KeyOf(j) \in tx'[s].seen
    BY <1>2, <1>4 DEF KeysSeen
  <2>1. t # u /\ tx[t].at = "closed" /\ tx'[t].alone = tx[t].alone
    <3>1. t # u
      BY <1>5
    <3> QED
      BY <1>6, <3>1
  <2>2. CASE s = u
    <3>1. row[j].state \in Queued
      BY StoredIsQueued DEF IdentityInv
    <3> QED
      BY <1>5, <2>2, <3>1 DEF QueuedKeys
  <2>3. CASE s # u
    <3>1. tx[s].at = "open" /\ ~tx'[s].alone /\ tx'[s].seen = tx[s].seen
      BY <1>6, <2>3
    <3> QED
      BY <2>1, <3>1 DEF IdentityInv, KeysSeen
  <2> QED
    BY <2>2, <2>3
<1>13. IdentityKept'
  <2> SUFFICES ASSUME NEW s \in Session, NEW t \in Session,
                      NEW i \in Wanted(s) \cap Stored, NEW j \in Wanted(t) \cap Stored,
                      s # t, tx'[s].alone, KeyOf(i) = KeyOf(j), KeyOf(i) # NoKey,
                      row[i].state \in Queued, row[j].state \in Queued, {i, j} \cap left = {}
               PROVE  KeysOf(s) # {KeyOf(i)} \/ KeysOf(t) # {KeyOf(j)}
    BY <1>2, <1>4 DEF IdentityKept
  <2>1. i \in Job \cap Wanted(s) /\ row[i].state # Absent /\ GraphOfLeaves
    BY StateNames DEF Stored, IdentityInv, FamilyTypes, JfTypeOK
  <2>2. tx[s].at = "closed"
    BY <2>1, NotStoredYet DEF IdentityInv
  <2>3. s # u /\ tx'[s].alone = tx[s].alone
    <3>1. s # u
      BY <1>2, <2>2
    <3> QED
      BY <1>6, <2>2, <3>1
  <2> QED
    BY <2>3 DEF IdentityInv, IdentityKept
<1> QED
  BY <1>8, <1>9, <1>10, <1>11, <1>12, <1>13 DEF IdentityInv

\* A transaction ends without storing, or stores jobs of which no key was seen
\* or which are more than one key.
LEMMA IdentityClose ==
  ASSUME IdentityInv, FamilyTypes', NEW u \in Session, Store(u) \/ RollBack(u)
  PROVE  IdentityInv'
<1>1. tx[u].at = "open" /\ tx' = [tx EXCEPT ![u].at = "closed", ![u].seen = {}]
  BY DEF Store, RollBack, Close
<1>2. UNCHANGED <<dyVars, left>>
  BY DEF Store, RollBack, history
<1>3. \A s \in Session : Wanted(s)' = Wanted(s) /\ KeysOf(s)' = KeysOf(s)
  BY <1>2 DEF Wanted, KeysOf, dyVars
<1>4. \A t \in Session : tx[t] \in Transactions
  BY DEF IdentityInv, FamilyTypes
<1>5. tx'[u].at = "closed" /\ tx'[u].alone = tx[u].alone
  BY <1>1, <1>4 DEF Transactions, IdentityInv, FamilyTypes
<1>6. \A t \in Session \ {u} : tx'[t] = tx[t]
  BY <1>1 DEF IdentityInv, FamilyTypes
<1>7. GraphOfLeaves /\ Wanted(u) \subseteq Job
  BY DEF IdentityInv, FamilyTypes, JfTypeOK, GraphOfLeaves, Wanted, Session, Job
<1>8. \A j \in Wanted(u) : row[j].state = Absent
  BY <1>1, <1>7, NotStoredYet DEF IdentityInv
<1>9. \A j \in Job \ Wanted(u) : row'[j] = row[j]
  BY DEF Store, RollBack
<1>10. \A j \in Wanted(u) : row'[j] = row[j] \/ row'[j] = NewRow(j)
  BY <1>7 DEF Store, RollBack
<1>11. \A j \in Job : NewRow(j).state \in {Pending, WaitDependencies} /\ ~NewRow(j).dated
  BY DEF NewRow
<1>12. \A j \in Job \ Wanted(u) : j \in Stored' <=> j \in Stored
  BY <1>9 DEF Stored
<1>13. \A j \in Wanted(u) : j \notin Stored
  BY <1>8, StateNames DEF Stored
<1>14. \A s \in Session : \A j \in Wanted(s) : s # u => j \notin Wanted(u)
  BY <1>7, WantedApart
<1>15. \A s \in Session \ {u} : \A j \in Wanted(s) \cap Stored' : j \in Stored /\ row'[j] = row[j]
  <2>1. \A j \in Stored' : j \in Job
    BY DEF Stored
  <2> QED
    BY <1>9, <1>12, <1>14, <2>1
<1>16. PlanKept'
  BY <1>1, <1>2 DEF IdentityInv, PlanKept, dyVars
<1>17. StoredByOne'
  <2> SUFFICES ASSUME NEW j \in Job, row'[j].state # Absent
               PROVE  \E s \in Session : j \in Wanted(s) /\ tx'[s].at = "closed"
    BY <1>3 DEF StoredByOne
  <2>1. CASE j \in Wanted(u)
    BY <1>5, <2>1
  <2>2. CASE j \notin Wanted(u)
    BY <1>5, <1>6, <1>9, <2>2 DEF IdentityInv, StoredByOne
  <2> QED
    BY <2>1, <2>2
<1>18. QueuedUntilLeft'
  <2> SUFFICES ASSUME NEW j \in Job, j \notin left
               PROVE  row'[j].state \in Queued \cup {Absent} /\ ~row'[j].dated
    BY <1>2 DEF QueuedUntilLeft
  <2>1. row'[j] = row[j] \/ row'[j] = NewRow(j)
    BY <1>9, <1>10
  <2> QED
    BY <1>11, <2>1 DEF IdentityInv, QueuedUntilLeft, Queued
<1>19. OpenOverlap'
  BY <1>5, <1>6 DEF IdentityInv, OpenOverlap
<1>20. KeysSeen'
  <2> SUFFICES ASSUME NEW s \in Session, NEW t \in Session,
                      NEW j \in (Wanted(t) \cap Stored') \ left, s # t,
                      tx'[s].at = "open", tx'[t].at = "closed",
                      tx'[s].alone \/ tx'[t].alone, KeyOf(j) # NoKey
               PROVE  KeyOf(j) \in tx'[s].seen
    BY <1>2, <1>3 DEF KeysSeen
  <2>1. s # u /\ tx'[s] = tx[s]
    <3>1. s # u
      BY <1>5
    <3> QED
      BY <1>6, <3>1
  <2>2. CASE t = u
    <3>1. tx[u].at = "open" /\ ~tx[u].alone /\ ~tx[s].alone
      BY <1>1, <2>1, <2>2 DEF IdentityInv, OpenOverlap
    <3> QED
      BY <1>5, <2>1, <2>2, <3>1
  <2>3. CASE t # u
    <3>1. tx'[t] = tx[t] /\ j \in Stored
      BY <1>6, <1>15, <2>3
    <3> QED
      BY <2>1, <3>1 DEF IdentityInv, KeysSeen
  <2> QED
    BY <2>2, <2>3
\* What was stored has a key that was not seen, if it has one only.
<1>21. ASSUME NEW i \in Wanted(u) \cap Stored', KeysOf(u) = {KeyOf(i)}
       PROVE  KeyOf(i) \notin tx[u].seen
  <2>1. row'[i] # row[i]
    BY <1>13, <1>21 DEF Stored
  <2>2. Store(u)
    BY <2>1 DEF RollBack
  <2>3. ~(KeysOf(u) # {} /\ KeysOf(u) \subseteq tx[u].seen)
    BY <2>1, <2>2 DEF Store
  <2> QED
    BY <1>21, <2>3
<1>22. ASSUME NEW t \in Session \ {u}, NEW j \in Wanted(t) \cap Stored', j \notin left,
              tx[u].alone \/ tx[t].alone, KeyOf(j) # NoKey
       PROVE  KeyOf(j) \in tx[u].seen
  <2>1. j \in Stored /\ j \in Job /\ row[j].state # Absent
    BY <1>15, <1>22, StateNames DEF Stored
  <2>2. tx[t].at = "closed"
    BY <1>7, <1>22, <2>1, NotStoredYet DEF IdentityInv
  <2> QED
    BY <1>1, <1>22, <2>1, <2>2 DEF IdentityInv, KeysSeen
<1>23. IdentityKept'
  <2> SUFFICES ASSUME NEW s \in Session, NEW t \in Session,
                      NEW i \in Wanted(s) \cap Stored', NEW j \in Wanted(t) \cap Stored',
                      s # t, tx'[s].alone, KeyOf(i) = KeyOf(j), KeyOf(i) # NoKey,
                      row'[i].state \in Queued, row'[j].state \in Queued, {i, j} \cap left = {},
                      KeysOf(s) = {KeyOf(i)}, KeysOf(t) = {KeyOf(j)}
               PROVE  FALSE
    BY <1>2, <1>3 DEF IdentityKept
  <2>1. tx[s].alone
    BY <1>5, <1>6
  <2>2. CASE s = u
    <3>1. KeyOf(i) \notin tx[u].seen
      BY <1>21, <2>2
    <3>2. KeyOf(j) \in tx[u].seen
      BY <1>22, <2>1, <2>2
    <3> QED
      BY <3>1, <3>2
  <2>3. CASE t = u
    <3>1. KeyOf(j) \notin tx[u].seen
      BY <1>21, <2>3
    <3>2. KeyOf(i) \in tx[u].seen
      BY <1>22, <2>1, <2>3
    <3> QED
      BY <3>1, <3>2
  <2>4. CASE s # u /\ t # u
    <3>1. i \in Stored /\ row'[i] = row[i] /\ j \in Stored /\ row'[j] = row[j]
      BY <1>15, <2>4
    <3> QED
      BY <2>1, <3>1 DEF IdentityInv, IdentityKept
  <2> QED
    BY <2>2, <2>3, <2>4
<1> QED
  BY <1>16, <1>17, <1>18, <1>19, <1>20, <1>23 DEF IdentityInv

-----------------------------------------------------------------------------

LEMMA IdentityNext ==
  IdentityInv /\ FamilyInv /\ FamilyTypes' /\ [JfNext]_jfVars => IdentityInv'
<1> SUFFICES ASSUME IdentityInv, FamilyInv, FamilyTypes', [JfNext]_jfVars PROVE IdentityInv'
  OBVIOUS
<1>n. /\ WaitDependencies \in States /\ Pending \in States /\ Started \in States
      /\ Done \in States /\ Cancelled \in States /\ Failed \in States
  BY StateNames
<1>s. \A j \in Job : row[j].state \in States => j \in Stored
  BY DEF Stored
<1>l. \A j \in Job : row[j].state \notin Queued /\ j \in Stored => j \in left
  BY StoredIsQueued DEF IdentityInv
<1>a. ASSUME UNCHANGED <<row, tx, plan, left>> PROVE IdentityInv'
  BY <1>a, RowsMove DEF IdentityInv, QueuedUntilLeft
<1>b. ASSUME NEW s \in Session, Begin(s) PROVE IdentityInv'
  BY <1>b, IdentityBegin
<1>c. ASSUME NEW s \in Session, Store(s) \/ RollBack(s) PROVE IdentityInv'
  BY <1>c, IdentityClose
<1>d. ASSUME NEW j \in Stored, NEW state \in States, NEW dated \in BOOLEAN,
             Change(j, state, dated, {}, Pending), left \subseteq left', j \in left',
             UNCHANGED <<tx, plan>>
      PROVE  IdentityInv'
  <2> DEFINE none == {}
  <2>1. none \in SUBSET Stored /\ Change(j, state, dated, none, Pending)
    BY <1>d
  <2> HIDE DEF none
  <2> QED
    BY <1>d, <1>n, <2>1, IdentityChange
<1>e. ASSUME NEW j \in Job, Start(j) \/ Finish(j) \/ Fail(j) PROVE IdentityInv'
  <2>1. j \in Stored /\ UNCHANGED <<tx, plan>> /\ left \subseteq left'
    BY <1>e, <1>n, <1>s DEF Start, Finish, Fail, dyVars, history
  <2>2. j \in left'
    <3>1. CASE Start(j) \/ Finish(j)
      BY <3>1 DEF Start, Finish
    <3>2. CASE Fail(j)
      BY <1>l, <2>1, <3>2, StateNames DEF Fail, history, Queued
    <3> QED
      BY <1>e, <3>1, <3>2
  <2>3. \E state \in {Started, Done, Failed}, dated \in BOOLEAN :
          Change(j, state, dated, {}, Pending)
    BY <1>e DEF Start, Finish, Fail
  <2> QED
    BY <1>d, <1>n, <2>1, <2>2, <2>3
<1>f. ASSUME NEW j \in Job, Release(j) PROVE IdentityInv'
  <2> DEFINE along == IF row[j].state = Done THEN DependentsOf(j, Done) ELSE {}
  <2>1. /\ Change(j, row[j].state, row[j].dated, along, Pending) /\ j \in Stored
        /\ UNCHANGED <<tx, plan, left>>
    BY <1>f DEF Release, dyVars, history
  <2>2. along \in SUBSET Stored
    BY DEF DependentsOf
  <2> HIDE DEF along
  <2>3. row[j].state \in States /\ row[j].dated \in BOOLEAN
    BY <2>1 DEF Stored, IdentityInv, FamilyTypes, JfTypeOK
  <2>4. j \in left' \/ (row[j].state \in Queued /\ ~row[j].dated)
    BY <1>l, <2>1, StoredIsQueued, StateNames DEF IdentityInv, QueuedUntilLeft, Stored
  <2> QED
    BY <1>n, <2>1, <2>2, <2>3, <2>4, IdentityChange
<1>g. ASSUME NEW j \in Job, LoseRelease(j) PROVE IdentityInv'
  BY <1>a, <1>g DEF LoseRelease, dyVars
<1>h. ASSUME NEW j \in Job, PressDone(j) \/ PressCancelled(j) \/ PressRequeue(j)
      PROVE  IdentityInv'
  <2>1. UNCHANGED <<row, tx, plan, left>>
    BY <1>h DEF PressDone, PressCancelled, PressRequeue, Press, dyVars
  <2> QED
    BY <1>a, <2>1
<1>i. ASSUME NEW r \in pressed, CommitPress(r) PROVE IdentityInv'
  <2> DEFINE followed == IF r.new = Done THEN Pending ELSE Cancelled
  <2>1. /\ Change(r.job, r.new, Dates(r), r.along, followed) /\ UNCHANGED <<tx, plan>>
        /\ left \subseteq left'
    BY <1>i DEF CommitPress, dyVars
  <2>2. /\ r.job \in Stored /\ r.along \in SUBSET Stored
        /\ r.new \in {Done, Cancelled, Pending, WaitDependencies}
        /\ r.new \notin {Done, Cancelled} => r.along = {}
    BY DEF FamilyInv, PressedInv, SnapshotOfWrites
  <2>3. Dates(r) \in BOOLEAN
    BY DEF Dates
  <2>4. r.job \in left' \/ (r.new \in Queued /\ ~Dates(r))
    BY <1>i, <2>2, StateNames DEF CommitPress, Writes, Dates, Queued
  <2>5. r.along \subseteq left' \/ followed = Pending
    BY <1>i, <2>2, StateNames DEF CommitPress, Writes
  <2>6. followed \in States
    BY <1>n
  <2> HIDE DEF followed
  <2> QED
    BY <1>n, <2>1, <2>2, <2>3, <2>4, <2>5, <2>6, IdentityChange
<1>j. ASSUME NEW j \in Job, Autovacuum(j) PROVE IdentityInv'
  <2>1. /\ row' = [row EXCEPT ![j].state = Deleted, ![j].dated = FALSE]
        /\ left' = left /\ UNCHANGED <<tx, plan>> /\ j \in Stored /\ row[j].dated
    BY <1>j DEF Autovacuum, dyVars
  <2>2. j \in left /\ row[j].state # Absent
    BY <2>1, StateNames DEF IdentityInv, QueuedUntilLeft, Stored
  <2>3. \A c \in Job \ {j} : row'[c] = row[c]
    BY <2>1 DEF IdentityInv, FamilyTypes, JfTypeOK
  <2>4. \A c \in Job : row'[c].state # Absent => row[c].state # Absent
    BY <2>2, <2>3
  <2>5. \A c \in Job \ left' : row'[c].state \in Queued \cup {Absent} /\ ~row'[c].dated
    BY <2>1, <2>2, <2>3 DEF IdentityInv, QueuedUntilLeft
  <2> QED
    BY <2>1, <2>4, <2>5, RowsMove
<1>k. CASE (DyNext \/ UNCHANGED dyVars) /\ UNCHANGED familyVars
  BY <1>k, IdentityPlan
<1> QED
  BY <1>b, <1>c, <1>e, <1>f, <1>g, <1>h, <1>i, <1>j, <1>k DEF JfNext, Live, jfVars

LEMMA IdentityAlways == JfSpec => []IdentityInv
  BY IdentityInit, IdentityNext, TypesAlways, FamilyAlways, LeavesAlways, PTL DEF JfSpec

\* For any graph, crons and keys: two jobs with one identity key are both queued
\* for the first time only when the transactions that created them overlapped,
\* or one is part of a graph with another key.
THEOREM IdentityIsKept == JfSpec => []IdentityKept
<1>1. IdentityInv => IdentityKept
  BY DEF IdentityInv
<1> QED
  BY <1>1, IdentityAlways, PTL

-----------------------------------------------------------------------------
(* Cancellation *)

\* The jobs deleted without being done have no row.
LostAreGone == \A j \in lost : row[j].state = Deleted

CancelInv == LostAreGone /\ CancelledTogether

\* The rows j and S change.  A job cancelled takes along the jobs that wait for
\* it and for cancelled ones only, but those that are recorded as missed; one that waits again was pending, so that its
\* parents were done or lost, or had left its queue.
LEMMA CancelChange ==
  ASSUME FamilyInv, IdentityInv, CancelInv,
         NEW j \in Stored, NEW state \in States, NEW dated \in BOOLEAN,
         NEW S \in SUBSET Stored, NEW followed \in {Cancelled, Pending},
         Change(j, state, dated, S, followed),
         left \subseteq left', finished \subseteq finished', lost' = lost,
         followed = Cancelled <=> state = Cancelled, skewed \subseteq skewed',
         state = Cancelled =>
           /\ row[j].state # Cancelled
           /\ \A c \in S : row[c].state = WaitDependencies
           /\ \A c \in Stored \ (S \cup skewed') :
                /\ row[c].state = WaitDependencies /\ row'[c].state = WaitDependencies
                /\ j \in row[c].parents
                => \E p \in row[c].parents \ {j} : row[p].state # Cancelled,
         state = WaitDependencies => row[j].state # WaitDependencies /\ row[j].parents # {}
  PROVE  CancelInv'
<1>1. /\ row' \in Rows /\ row \in Rows /\ Stored' = Stored /\ followed \in States
      /\ \A c \in Job : row'[c].parents = row[c].parents
      /\ row'[j].state = state
      /\ \A c \in S \ {j} : row'[c].state = followed /\ row'[c].dated = row[c].dated
      /\ \A c \in Job \ (S \cup {j}) : row'[c] = row[c]
  BY ChangedRows, StateNames DEF FamilyInv
<1>2. /\ \A c \in Stored : c \in Job
      /\ \A c \in Job : row[c].parents \subseteq Job
  BY <1>1 DEF Stored, Rows, Job
<1>3. LostAreGone'
  <2> SUFFICES ASSUME NEW p \in lost PROVE row'[p].state = Deleted
    BY DEF LostAreGone
  <2>1. p \in Job /\ row[p].state = Deleted
    BY DEF CancelInv, LostAreGone, IdentityInv, FamilyTypes, JfTypeOK
  <2>2. p \notin Stored
    BY <2>1, StateNames DEF Stored
  <2> QED
    BY <1>1, <2>1, <2>2
<1>4. ASSUME NEW c \in Stored, c \notin left' \cup skewed', row'[c].state = WaitDependencies,
             \A p \in row[c].parents : row'[p].state = Cancelled /\ p \notin finished'
      PROVE  \E p \in row[c].parents : ~row'[p].dated
  <2>1. c \notin left \cup skewed /\ c \in Job /\ \A p \in row[c].parents : p \in Job /\ p \notin finished
    BY <1>2, <1>4
  <2>2. \A p \in row[c].parents : p \notin lost
    BY <1>3, <1>4, StateNames DEF LostAreGone
  <2>3. CASE c = j
    <3>1. state = WaitDependencies
      BY <1>1, <1>4, <2>3
    <3>2. row[j].state = Pending
      BY <2>1, <2>3, <3>1, StoredIsQueued DEF IdentityInv, Queued
    <3>3. row[j].parents \subseteq finished \cup lost
      BY <3>2 DEF FamilyInv, RunsAfterParents
    <3> QED
      BY <2>1, <2>2, <2>3, <3>1, <3>3
  <2>4. CASE c \in S \ {j}
    BY <1>1, <1>4, <2>4, StateNames
  <2>5. CASE c \notin S \cup {j}
    <3>1. row[c].state = WaitDependencies
      BY <1>1, <1>4, <2>1, <2>5
    <3>2. CASE \A p \in row[c].parents : row[p].state = Cancelled
      <4>1. PICK p \in row[c].parents : ~row[p].dated
        BY <2>1, <3>1, <3>2 DEF CancelInv, CancelledTogether
      <4>2. p # j
        BY <1>1, <1>4, <3>2
      <4> QED
        BY <1>1, <2>1, <4>1, <4>2
    <3>3. ASSUME NEW p \in row[c].parents, row[p].state # Cancelled
          PROVE  \E q \in row[c].parents : ~row'[q].dated
      <4>1. p \in S \cup {j} /\ state = Cancelled
        BY <1>1, <1>4, <2>1, <3>3
      <4>2. \A q \in S \ {j} : row[q].state = WaitDependencies /\ ~row'[q].dated
        BY <1>1, <1>2, <4>1, StateNames DEF IdentityInv, FamilyTypes, JfTypeOK
      <4>3. CASE \E q \in row[c].parents : q \in S \ {j}
        BY <4>2, <4>3
      <4>4. CASE \A q \in row[c].parents : q \notin S \ {j}
        <5>1. p = j
          BY <4>1, <4>4
        <5>2. \A q \in row[c].parents \ {j} : row[q].state = Cancelled
          BY <1>1, <1>4, <2>1, <4>4
        <5> QED
          BY <1>4, <2>5, <3>1, <3>3, <4>1, <5>1, <5>2
      <4> QED
        BY <4>3, <4>4
    <3> QED
      BY <3>2, <3>3
  <2> QED
    BY <2>3, <2>4, <2>5
<1>5. CancelledTogether'
  BY <1>1, <1>2, <1>4 DEF CancelledTogether
<1> QED
  BY <1>3, <1>5 DEF CancelInv

\* A graph that is stored is of jobs without rows, none of which is cancelled.
LEMMA CancelStore ==
  ASSUME IdentityInv, CancelInv, NEW s \in Session, Store(s)
  PROVE  CancelInv'
<1> DEFINE W == Wanted(s)
<1>1. UNCHANGED <<finished, lost, left, skewed>> /\ tx[s].at = "open"
  BY DEF Store, history
<1>2. GraphOfLeaves /\ W \subseteq Job /\ lost \subseteq Job
  BY DEF IdentityInv, FamilyTypes, JfTypeOK, GraphOfLeaves, Wanted, Session, Job
<1>3. \A j \in W : row[j].state = Absent
  BY <1>1, <1>2, NotStoredYet DEF IdentityInv
<1>4. \A j \in Job \ W : row'[j] = row[j]
  BY DEF Store
<1>5. CASE row' = row
  BY <1>1, <1>5 DEF CancelInv, LostAreGone, CancelledTogether, Stored
<1>6. CASE row' = [j \in Job |-> IF j \in W THEN NewRow(j) ELSE row[j]]
  <2>1. \A j \in W : row'[j] = NewRow(j)
    BY <1>2, <1>6
  <2>2. ASSUME NEW j \in W
        PROVE  /\ NewRow(j).parents \subseteq W
               /\ NewRow(j).state = IF NewRow(j).parents = {} THEN Pending ELSE WaitDependencies
    <3>1. CASE j \in Leaf
      <4>1. s = Caller
        BY <3>1, JobFamilyAssumption DEF Session, Wanted
      <4>2. W = plan.node
        BY <4>1 DEF Wanted
      <4> QED
        BY <1>2, <3>1, <4>2 DEF NewRow, ParentsIn, GraphOfLeaves
    <3>2. CASE j \notin Leaf
      BY <3>2 DEF NewRow
    <3> QED
      BY <3>1, <3>2
  <2> HIDE DEF W
  <2>3. \A j \in W : row'[j].state # Cancelled
    BY <2>1, <2>2, StateNames
  <2>4. LostAreGone'
    BY <1>1, <1>2, <1>3, <1>4, StateNames DEF CancelInv, LostAreGone
  <2>5. CancelledTogether'
    <3> SUFFICES ASSUME NEW c \in Stored', c \notin left' \cup skewed', row'[c].state = WaitDependencies,
                        \A p \in row'[c].parents : row'[p].state = Cancelled /\ p \notin finished'
                 PROVE  \E p \in row'[c].parents : ~row'[p].dated
      BY DEF CancelledTogether
    <3>1. CASE c \in W
      BY <2>1, <2>2, <2>3, <3>1, StateNames
    <3>2. CASE c \notin W
      <4>1. c \in Job /\ row'[c] = row[c]
        BY <1>4, <3>2 DEF Stored
      <4>2. c \in Stored
        BY <4>1 DEF Stored
      <4>3. \A p \in row[c].parents : p \in Job
        BY <4>1 DEF IdentityInv, FamilyTypes, JfTypeOK, Job
      <4>4. \A p \in row[c].parents : row'[p] = row[p]
        BY <1>4, <2>3, <4>1, <4>3
      <4> QED
        BY <1>1, <4>1, <4>2, <4>4 DEF CancelInv, CancelledTogether
    <3> QED
      BY <3>1, <3>2
  <2> QED
    BY <2>4, <2>5 DEF CancelInv
<1> QED
  BY <1>5, <1>6 DEF Store

LEMMA CancelVacuum ==
  ASSUME IdentityInv, CancelInv, NEW j \in Job, Autovacuum(j)
  PROVE  CancelInv'
<1>1. /\ row' = [row EXCEPT ![j].state = Deleted, ![j].dated = FALSE]
      /\ lost' \subseteq lost \cup {j} /\ UNCHANGED <<finished, left, skewed>>
  BY DEF Autovacuum
<1>2. /\ row \in Rows /\ lost \subseteq Job
      /\ \A c \in Job : row[c].parents \subseteq Job
  BY DEF IdentityInv, FamilyTypes, JfTypeOK, Rows, AllStates, Job
<1>3. row'[j].state = Deleted /\ \A c \in Job \ {j} : row'[c] = row[c]
  BY <1>1, <1>2 DEF Rows
<1>4. LostAreGone'
  BY <1>1, <1>2, <1>3 DEF CancelInv, LostAreGone
<1>5. CancelledTogether'
  <2> SUFFICES ASSUME NEW c \in Stored', c \notin left' \cup skewed', row'[c].state = WaitDependencies,
                      \A p \in row'[c].parents : row'[p].state = Cancelled /\ p \notin finished'
               PROVE  \E p \in row'[c].parents : ~row'[p].dated
    BY DEF CancelledTogether
  <2>1. c \in Job /\ row'[c] = row[c]
    BY <1>3, StateNames DEF Stored
  <2>2. c \in Stored
    BY <2>1 DEF Stored
  <2>3. \A p \in row[c].parents : row'[p] = row[p]
    BY <1>2, <1>3, <2>1, StateNames
  <2>4. /\ c \in Stored \ (left \cup skewed) /\ row[c].state = WaitDependencies
        /\ \A p \in row[c].parents : row[p].state = Cancelled /\ p \notin finished
    BY <1>1, <2>1, <2>2, <2>3
  <2>5. \E p \in row[c].parents : ~row[p].dated
    BY <2>4 DEF CancelInv, CancelledTogether
  <2> QED
    BY <2>1, <2>3, <2>5
<1> QED
  BY <1>4, <1>5 DEF CancelInv

LEMMA CancelNext ==
  ASSUME FamilyInv, IdentityInv, CancelInv, [JfNext]_jfVars
  PROVE  CancelInv'
<1>n. /\ WaitDependencies \in States /\ Pending \in States /\ Started \in States
      /\ Done \in States /\ Cancelled \in States /\ Failed \in States
  BY StateNames
<1>s. \A j \in Job : row[j].state \in States => j \in Stored
  BY DEF Stored
<1>a. ASSUME row' = row, UNCHANGED <<finished, lost, left, skewed>> PROVE CancelInv'
  BY <1>a DEF CancelInv, LostAreGone, CancelledTogether, Stored
<1>b. ASSUME NEW s \in Session, Begin(s) \/ RollBack(s) PROVE CancelInv'
  BY <1>a, <1>b DEF Begin, RollBack, history
<1>c. ASSUME NEW s \in Session, Store(s) PROVE CancelInv'
  BY <1>c, CancelStore
<1>d. ASSUME NEW j \in Job, NEW state \in {Started, Failed, Pending, Done}, NEW dated \in BOOLEAN,
             j \in Stored, Change(j, state, dated, {}, Pending), left \subseteq left',
             finished \subseteq finished', UNCHANGED <<lost, skewed>>
      PROVE  CancelInv'
  <2> DEFINE none == {}
  <2>1. none \in SUBSET Stored /\ Change(j, state, dated, none, Pending)
    BY <1>d
  <2>2. state \in States /\ state \notin {Cancelled, WaitDependencies} /\ Pending # Cancelled
    BY <1>n, StateNames
  <2> HIDE DEF none
  <2> QED
    BY <1>d, <2>1, <2>2, CancelChange
<1>e. ASSUME NEW j \in Job, Start(j) \/ Finish(j) \/ Fail(j) PROVE CancelInv'
  <2>1. /\ j \in Stored /\ UNCHANGED <<lost, skewed>> /\ left \subseteq left'
        /\ finished \subseteq finished'
    BY <1>e, <1>n, <1>s DEF Start, Finish, Fail, history
  <2>2. \E state \in {Started, Failed, Pending, Done}, dated \in BOOLEAN :
          Change(j, state, dated, {}, Pending)
    BY <1>e DEF Start, Finish, Fail
  <2> QED
    BY <1>d, <2>1, <2>2
<1>f. ASSUME NEW j \in Job, Release(j) PROVE CancelInv'
  <2>1. /\ UNCHANGED <<finished, lost, left, skewed>> /\ j \in Stored
        /\ Change(j, row[j].state, row[j].dated,
                  IF row[j].state = Done THEN DependentsOf(j, Done) ELSE {}, Pending)
    BY <1>f DEF Release, history
  <2>2. row \in Rows /\ row[j] \in [state : AllStates, parents : SUBSET Leaf, dated : BOOLEAN]
    BY DEF FamilyInv, Rows
  <2>3. CASE row[j].state = Done
    <3> DEFINE along == DependentsOf(j, Done)
    <3>1. Change(j, Done, row[j].dated, along, Pending)
      BY <2>1, <2>3
    <3>2. along \in SUBSET Stored /\ row[j].dated \in BOOLEAN
      BY <2>2 DEF DependentsOf
    <3>3. Done \notin {Cancelled, WaitDependencies} /\ Pending # Cancelled
      BY StateNames
    <3> HIDE DEF along
    <3> QED
      BY <1>n, <2>1, <3>1, <3>2, <3>3, CancelChange
  <2>4. CASE row[j].state # Done
    <3>1. row' = [c \in Job |-> row[c]]
      BY <2>1, <2>2, <2>4 DEF Change
    <3>2. row' = row
      BY <2>2, <3>1 DEF Rows
    <3> QED
      BY <1>a, <2>1, <3>2
  <2> QED
    BY <2>3, <2>4
<1>g. ASSUME NEW j \in Job, LoseRelease(j) PROVE CancelInv'
  BY <1>a, <1>g DEF LoseRelease
<1>h. ASSUME NEW j \in Job, PressDone(j) \/ PressCancelled(j) \/ PressRequeue(j)
      PROVE  CancelInv'
  <2>1. row' = row /\ UNCHANGED <<finished, lost, left, skewed>>
    BY <1>h DEF PressDone, PressCancelled, PressRequeue, Press
  <2> QED
    BY <1>a, <2>1
<1>i. ASSUME NEW r \in pressed, CommitPress(r) PROVE CancelInv'
  <2> DEFINE followed == IF r.new = Done THEN Pending ELSE Cancelled
             following == IF r.new = Cancelled THEN Cancelled ELSE Pending
  <2>1. /\ Change(r.job, r.new, Dates(r), r.along, followed)
        /\ finished \subseteq finished' /\ left \subseteq left' /\ lost' = lost
        /\ skewed' = skewed \cup Missed(r)
    BY <1>i DEF CommitPress
  <2>2. r \in Presses /\ SnapshotOfWrites(r) /\ SnapshotOfOthers(r)
    BY DEF FamilyInv, PressedInv
  <2>3. r.job \in Stored /\ r.along \in SUBSET Stored /\ r.new \in States /\ Dates(r) \in BOOLEAN
    BY <2>2 DEF SnapshotOfWrites, Presses, Dates
  <2>4. Change(r.job, r.new, Dates(r), r.along, following)
    <3>1. CASE r.new \in {Done, Cancelled}
      BY <2>1, <3>1, StateNames
    <3>2. CASE r.new \notin {Done, Cancelled}
      BY <2>1, <2>2, <3>2 DEF Change, SnapshotOfWrites
    <3> QED
      BY <3>1, <3>2
  <2>5. following \in {Cancelled, Pending} /\ (following = Cancelled <=> r.new = Cancelled)
    BY StateNames
  <2>6. r.new = WaitDependencies => row[r.job].state # WaitDependencies /\ row[r.job].parents # {}
    BY <2>2 DEF SnapshotOfWrites, SnapshotOfOthers, Withheld
  <2>7. ASSUME r.new = Cancelled
        PROVE  /\ row[r.job].state # Cancelled
               /\ \A c \in r.along : row[c].state = WaitDependencies
               /\ \A c \in Stored \ (r.along \cup skewed') :
                    /\ row[c].state = WaitDependencies /\ row'[c].state = WaitDependencies
                    /\ r.job \in row[c].parents
                    => \E p \in row[c].parents \ {r.job} : row[p].state # Cancelled
    <3>1. /\ row[r.job].state # Cancelled
          /\ \A c \in r.along : row[c].state = WaitDependencies
      BY <2>2, <2>7 DEF SnapshotOfWrites
    <3>2. ASSUME NEW c \in Stored \ (r.along \cup skewed'), row[c].state = WaitDependencies,
                 row'[c].state = WaitDependencies, r.job \in row[c].parents
          PROVE  \E p \in row[c].parents \ {r.job} : row[p].state # Cancelled
      <4>1. c \notin Missed(r)
        BY <2>1, <3>2
      <4>2. c \notin r.changed /\ \A p \in row[c].parents \cap r.changed : row[p].state \in NotDone
        BY <3>2, <4>1 DEF Missed
      <4>3. Withheld(r, c, {r.job}, Cancelled)
        BY <2>2, <2>7, <3>2, <4>2 DEF SnapshotOfOthers
      <4>4. PICK p \in row[c].parents \ {r.job} :
                   p \in r.changed \/ (p \in Stored /\ row[p].state # Cancelled)
        BY <4>3 DEF Withheld
      <4>5. p \in r.changed => row[p].state # Cancelled
        BY <4>2, <4>4, StateNames DEF NotDone, Enqueued
      <4> QED
        BY <4>4, <4>5
    <3> QED
      BY <3>1, <3>2
  <2> HIDE DEF following
  <2> QED
    BY <2>1, <2>3, <2>4, <2>5, <2>6, <2>7, CancelChange
<1>j. ASSUME NEW j \in Job, Autovacuum(j) PROVE CancelInv'
  BY <1>j, CancelVacuum
<1>k. CASE UNCHANGED familyVars
  BY <1>a, <1>k DEF familyVars, history
<1> QED
  BY <1>b, <1>c, <1>e, <1>f, <1>g, <1>h, <1>i, <1>j, <1>k DEF JfNext, Live, jfVars

\* A job that waits for cancelled ones only, none of which was ever done, waits
\* for one that was taken along, as cancel_dependent_jobs goes one level
\* (job.py:632), or was missed by a transaction that overlapped the end of
\* another parent: whatever the graph and the order of cancellations, requeues,
\* ends and deletions.
THEOREM CancelledGoTogether == JfSpec => []CancelledTogether
<1>1. JfInit => CancelInv
  BY StateNames DEF JfInit, NoRow, CancelInv, LostAreGone, CancelledTogether, Stored
<1>2. FamilyInv /\ IdentityInv /\ CancelInv /\ [JfNext]_jfVars => CancelInv'
  BY CancelNext
<1>3. CancelInv => CancelledTogether
  BY DEF CancelInv
<1> QED
  BY <1>1, <1>2, <1>3, FamilyAlways, IdentityAlways, PTL DEF JfSpec

-----------------------------------------------------------------------------
(* Sequences *)

LEMMA RangeOfAppend ==
  ASSUME NEW S, NEW s \in Seq(S), NEW x \in S
  PROVE  Range(Append(s, x)) = Range(s) \cup {x}
<1>1. /\ DOMAIN Append(s, x) = 1 .. Len(s) + 1 /\ DOMAIN s = 1 .. Len(s) /\ Len(s) \in Nat
      /\ \A k \in 1 .. Len(s) : Append(s, x)[k] = s[k]
      /\ Append(s, x)[Len(s) + 1] = x
  OBVIOUS
<1> QED
  BY <1>1 DEF Range

LEMMA InjectiveAppend ==
  ASSUME NEW S, NEW s \in Seq(S), NEW x \in S, IsInjective(s), x \notin Range(s)
  PROVE  IsInjective(Append(s, x))
<1>1. /\ DOMAIN Append(s, x) = 1 .. Len(s) + 1 /\ DOMAIN s = 1 .. Len(s) /\ Len(s) \in Nat
      /\ \A k \in 1 .. Len(s) : Append(s, x)[k] = s[k]
      /\ Append(s, x)[Len(s) + 1] = x
  OBVIOUS
<1>2. \A k \in 1 .. Len(s) : s[k] # x
  BY <1>1 DEF Range
<1> QED
  BY <1>1, <1>2 DEF IsInjective

LEMMA RangeOfConcat ==
  ASSUME NEW S, NEW s \in Seq(S), NEW t \in Seq(S)
  PROVE  Range(s \o t) = Range(s) \cup Range(t)
<1>1. /\ DOMAIN (s \o t) = 1 .. Len(s) + Len(t) /\ Len(s) \in Nat /\ Len(t) \in Nat
      /\ DOMAIN s = 1 .. Len(s) /\ DOMAIN t = 1 .. Len(t)
      /\ \A k \in 1 .. Len(s) : (s \o t)[k] = s[k]
      /\ \A k \in 1 .. Len(t) : (s \o t)[Len(s) + k] = t[k]
  OBVIOUS
<1>2. Range(s) \cup Range(t) \subseteq Range(s \o t)
  <2>1. ASSUME NEW k \in 1 .. Len(s) PROVE s[k] \in Range(s \o t)
    <3>1. k \in DOMAIN (s \o t) /\ (s \o t)[k] = s[k]
      BY <1>1
    <3> QED
      BY <3>1 DEF Range
  <2>2. ASSUME NEW k \in 1 .. Len(t) PROVE t[k] \in Range(s \o t)
    <3>1. Len(s) + k \in DOMAIN (s \o t) /\ (s \o t)[Len(s) + k] = t[k]
      BY <1>1
    <3> QED
      BY <3>1 DEF Range
  <2> QED
    BY <1>1, <2>1, <2>2 DEF Range
<1>3. ASSUME NEW k \in 1 .. Len(s) + Len(t), k \notin 1 .. Len(s)
      PROVE  k - Len(s) \in 1 .. Len(t) /\ (s \o t)[k] = t[k - Len(s)]
  BY <1>1, <1>3
<1>4. Range(s \o t) \subseteq Range(s) \cup Range(t)
  BY <1>1, <1>3 DEF Range
<1> QED
  BY <1>2, <1>4

\* Two sequences are injective together when each is, and they share nothing.
LEMMA InjectiveConcat ==
  ASSUME NEW S, NEW s \in Seq(S), NEW t \in Seq(S)
  PROVE  IsInjective(s \o t) <=>
           IsInjective(s) /\ IsInjective(t) /\ Range(s) \cap Range(t) = {}
<1>1. /\ DOMAIN (s \o t) = 1 .. Len(s) + Len(t) /\ Len(s) \in Nat /\ Len(t) \in Nat
      /\ DOMAIN s = 1 .. Len(s) /\ DOMAIN t = 1 .. Len(t)
      /\ \A k \in 1 .. Len(s) : (s \o t)[k] = s[k]
      /\ \A k \in 1 .. Len(t) : (s \o t)[Len(s) + k] = t[k]
  OBVIOUS
<1>2. ASSUME IsInjective(s \o t)
      PROVE  IsInjective(s) /\ IsInjective(t) /\ Range(s) \cap Range(t) = {}
  <2>1. IsInjective(s)
    BY <1>1, <1>2 DEF IsInjective
  <2>2. ASSUME NEW a \in 1 .. Len(t), NEW b \in 1 .. Len(t), t[a] = t[b]
        PROVE  a = b
    <3>1. Len(s) + a \in DOMAIN (s \o t) /\ Len(s) + b \in DOMAIN (s \o t)
      BY <1>1
    <3>2. (s \o t)[Len(s) + a] = (s \o t)[Len(s) + b]
      BY <1>1, <2>2
    <3>3. Len(s) + a = Len(s) + b
      BY <1>2, <3>1, <3>2 DEF IsInjective
    <3> QED
      BY <1>1, <3>3
  <2>3. ASSUME NEW a \in 1 .. Len(s), NEW b \in 1 .. Len(t), s[a] = t[b]
        PROVE  FALSE
    <3>1. a \in DOMAIN (s \o t) /\ Len(s) + b \in DOMAIN (s \o t)
      BY <1>1
    <3>2. (s \o t)[a] = (s \o t)[Len(s) + b]
      BY <1>1, <2>3
    <3>3. a = Len(s) + b
      BY <1>2, <3>1, <3>2 DEF IsInjective
    <3> QED
      BY <1>1, <3>3
  <2> QED
    BY <1>1, <2>1, <2>2, <2>3 DEF IsInjective, Range
<1>3. ASSUME IsInjective(s), IsInjective(t), Range(s) \cap Range(t) = {}
      PROVE  IsInjective(s \o t)
  <2> SUFFICES ASSUME NEW a \in 1 .. Len(s) + Len(t), NEW b \in 1 .. Len(s) + Len(t),
                      (s \o t)[a] = (s \o t)[b]
               PROVE  a = b
    BY <1>1 DEF IsInjective
  <2>1. \A k \in 1 .. Len(s) + Len(t) : k \notin 1 .. Len(s)
          => k - Len(s) \in 1 .. Len(t) /\ (s \o t)[k] = t[k - Len(s)]
    BY <1>1
  <2>2. \A k \in 1 .. Len(s), n \in 1 .. Len(t) : s[k] # t[n]
    BY <1>1, <1>3 DEF Range
  <2>3. CASE a \in 1 .. Len(s) /\ b \in 1 .. Len(s)
    BY <1>1, <1>3, <2>3 DEF IsInjective
  <2>4. CASE a \notin 1 .. Len(s) /\ b \notin 1 .. Len(s)
    <3>1. t[a - Len(s)] = t[b - Len(s)]
      BY <2>1, <2>4
    <3>2. a - Len(s) = b - Len(s)
      BY <1>1, <1>3, <2>1, <2>4, <3>1 DEF IsInjective
    <3> QED
      BY <1>1, <3>2
  <2>5. CASE a \in 1 .. Len(s) /\ b \notin 1 .. Len(s)
    BY <1>1, <2>1, <2>2, <2>5
  <2>6. CASE a \notin 1 .. Len(s) /\ b \in 1 .. Len(s)
    BY <1>1, <2>1, <2>2, <2>6
  <2> QED
    BY <2>3, <2>4, <2>5, <2>6
<1> QED
  BY <1>2, <1>3

LEMMA HeadAndTail ==
  ASSUME NEW S, NEW s \in Seq(S), s # <<>>
  PROVE  /\ Head(s) \in S /\ Tail(s) \in Seq(S)
         /\ s = <<Head(s)>> \o Tail(s)
         /\ Range(s) = {Head(s)} \cup Range(Tail(s))
         /\ IsInjective(s) => IsInjective(Tail(s)) /\ Head(s) \notin Range(Tail(s))
<1>1. Head(s) \in S /\ Tail(s) \in Seq(S) /\ <<Head(s)>> \in Seq(S) /\ s = <<Head(s)>> \o Tail(s)
  OBVIOUS
<1>2. Range(<<Head(s)>>) = {Head(s)}
  BY DEF Range
<1>3. Range(s) = Range(<<Head(s)>>) \cup Range(Tail(s))
  <2> DEFINE first == <<Head(s)>>
             rest == Tail(s)
  <2>1. first \in Seq(S) /\ rest \in Seq(S) /\ s = first \o rest
    BY <1>1
  <2> HIDE DEF first, rest
  <2>2. Range(s) = Range(first) \cup Range(rest)
    BY <2>1, RangeOfConcat
  <2> QED
    BY <2>2 DEF first, rest
<1>4. IsInjective(<<Head(s)>> \o Tail(s)) <=>
        /\ IsInjective(<<Head(s)>>) /\ IsInjective(Tail(s))
        /\ Range(<<Head(s)>>) \cap Range(Tail(s)) = {}
  BY <1>1, InjectiveConcat
<1> QED
  BY <1>1, <1>2, <1>3, <1>4

\* A sequence of all elements of a set has each of them once.
LEMMA SequenceOfSet ==
  ASSUME NEW S, IsFiniteSet(S), NEW s \in SetToSeqs(S)
  PROVE  s \in Seq(S) /\ IsInjective(s) /\ Range(s) = S
<1> DEFINE D == 1 .. Cardinality(S)
<1>1. Cardinality(S) \in Nat
  BY FS_CardinalityType
<1>2. s \in [D -> S] /\ \A i, j \in D : i # j => s[i] # s[j]
  BY DEF SetToSeqs
<1>3. s \in Seq(S)
  BY <1>1, <1>2
<1>4. IsInjective(s)
  BY <1>2 DEF IsInjective
<1>5. IsFiniteSet(D) /\ Cardinality(D) = Cardinality(S)
  BY <1>1, FS_Interval
<1> HIDE DEF D
<1>6. s \in Injection(D, S)
  BY <1>2, <1>4 DEF Injection, IsInjective
<1>7. s \in Surjection(D, S)
  BY <1>5, <1>6, FS_Injection
<1>8. Range(s) = S
  BY <1>2, <1>7 DEF Surjection, Range
<1> QED
  BY <1>3, <1>4, <1>8

-----------------------------------------------------------------------------
(* Direct execution *)

\* The dependencies of l that have not been performed.
Awaited(l, done) == {e \in plan.edge : e[2] = l /\ e[1] \notin done}

\* The counts of topological_sort are those of the dependencies that remain, and
\* the jobs without any have run or are queued.
DirectInv ==
  plan.at = "direct" =>
    /\ direct \in [left : [Leaf -> Nat], queue : Seq(plan.node), ran : Seq(plan.node)]
    /\ IsInjective(direct.ran \o direct.queue)
    /\ \A l \in Leaf : direct.left[l] = Cardinality(Awaited(l, Range(direct.ran)))
    /\ \A l \in plan.node :
         direct.left[l] = 0 <=> l \in Range(direct.ran) \cup Range(direct.queue)
    /\ \A k \in DOMAIN direct.ran :
         ParentsIn(direct.ran[k]) \subseteq {direct.ran[n] : n \in 1 .. k - 1}

LEMMA FiniteGraph ==
  ASSUME NEW node \in SUBSET Leaf, NEW edge \in SUBSET (node \X node)
  PROVE  IsFiniteSet(node) /\ \A E \in SUBSET edge : IsFiniteSet(E) /\ Cardinality(E) \in Nat
<1>1. IsFiniteSet(node)
  BY DelayablesAssumption, FS_Subset
<1>2. IsFiniteSet(edge)
  BY <1>1, FS_Product, FS_Subset
<1> QED
  BY <1>1, <1>2, FS_Subset, FS_CardinalityType

LEMMA DirectInit == JfInit => DirectInv
  BY DEF JfInit, DyInit, NoPlan, DirectInv

\* The sort begins with all the counts, and the roots in the queue.
LEMMA DirectBegins ==
  ASSUME GraphOfLeaves', NEW o \in Existing, DelayDirectly(o)
  PROVE  DirectInv'
<1> DEFINE g == Merged(Visited(o))
           count == [l \in Leaf |-> Cardinality({e \in g.edge : e[2] = l})]
<1>1. PICK roots \in SetToSeqs({l \in g.node : count[l] = 0}) :
        direct' = [left |-> count, queue |-> roots, ran |-> <<>>]
  BY DEF DelayDirectly
<1>2. plan'.node = g.node /\ plan'.edge = g.edge /\ plan'.at = "direct"
  BY DEF DelayDirectly, Connect
<1> HIDE DEF g
<1>3. g.node \subseteq Leaf /\ g.edge \subseteq g.node \X g.node
  BY <1>2 DEF GraphOfLeaves
<1>4. \A l \in Leaf : count[l] \in Nat
  BY <1>3, FiniteGraph
<1>5. count \in [Leaf -> Nat]
  BY <1>4
<1>6. \A l \in Leaf : count[l] = Cardinality({e \in g.edge : e[2] = l})
  OBVIOUS
<1> HIDE DEF count
<1> DEFINE R == {l \in g.node : count[l] = 0}
<1>7. IsFiniteSet(R)
  BY <1>3, FiniteGraph, FS_Subset
<1>8. roots \in Seq(R) /\ IsInjective(roots) /\ Range(roots) = R
  BY <1>1, <1>7, SequenceOfSet
<1>9. roots \in Seq(g.node)
  BY <1>8
<1>10. direct'.left = count /\ direct'.queue = roots /\ direct'.ran = <<>>
  BY <1>1
<1>11. <<>> \o roots = roots /\ Range(<<>>) = {}
  BY <1>9 DEF Range
<1>12. direct' \in [left : [Leaf -> Nat], queue : Seq(plan'.node), ran : Seq(plan'.node)]
  BY <1>1, <1>2, <1>5, <1>9
<1>13. ASSUME NEW l \in Leaf
       PROVE  direct'.left[l] = Cardinality(Awaited(l, Range(direct.ran)))'
  <2>1. Awaited(l, Range(direct.ran))' = {e \in g.edge : e[2] = l}
    BY <1>2, <1>10, <1>11 DEF Awaited
  <2> QED
    BY <1>6, <1>10, <2>1
<1>14. \A l \in plan'.node :
         direct'.left[l] = 0 <=> l \in Range(direct'.ran) \cup Range(direct'.queue)
  BY <1>2, <1>8, <1>10, <1>11
<1>15. IsInjective(direct'.ran \o direct'.queue)
  BY <1>8, <1>10, <1>11
<1>16. DOMAIN direct'.ran = {}
  BY <1>10
<1> QED
  BY <1>12, <1>13, <1>14, <1>15, <1>16 DEF DirectInv

\* The head of the queue has no dependency left; one is counted for each job it
\* comes before, which is queued at its last.
LEMMA DirectRuns ==
  ASSUME DirectInv, GraphOfLeaves, RunDirectly
  PROVE  DirectInv'
<1> DEFINE ran == direct.ran
           queue == direct.queue
           h == Head(queue)
           rest == Tail(queue)
           left1 == [d \in Leaf |-> IF d \in NextOf(h) THEN direct.left[d] - 1 ELSE direct.left[d]]
           N == plan.node
<1>1. plan' = plan /\ plan.at = "direct" /\ queue # <<>>
  BY DEF RunDirectly
<1>2. PICK ready \in SetToSeqs({d \in NextOf(h) : left1[d] = 0}) :
        direct' = [left |-> left1, queue |-> rest \o ready, ran |-> Append(ran, h)]
  BY DEF RunDirectly
<1>3. /\ direct \in [left : [Leaf -> Nat], queue : Seq(N), ran : Seq(N)]
      /\ IsInjective(ran \o queue)
  BY <1>1 DEF DirectInv
<1>4. \A l \in Leaf : direct.left[l] = Cardinality(Awaited(l, Range(ran)))
  BY <1>1 DEF DirectInv
<1>5. \A l \in N : direct.left[l] = 0 <=> l \in Range(ran) \cup Range(queue)
  BY <1>1 DEF DirectInv
<1>6. \A k \in DOMAIN ran : ParentsIn(ran[k]) \subseteq {ran[n] : n \in 1 .. k - 1}
  BY <1>1 DEF DirectInv
<1>7. N \subseteq Leaf /\ plan.edge \subseteq N \X N
  BY DEF GraphOfLeaves
<1>8. /\ h \in N /\ rest \in Seq(N) /\ Range(queue) = {h} \cup Range(rest)
      /\ IsInjective(rest) /\ h \notin Range(rest) /\ IsInjective(ran)
      /\ Range(ran) \cap Range(queue) = {}
  <2>1. ran \in Seq(N) /\ queue \in Seq(N)
    BY <1>3
  <2> HIDE DEF ran, queue
  <2>2. IsInjective(ran) /\ IsInjective(queue) /\ Range(ran) \cap Range(queue) = {}
    BY <1>3, <2>1, InjectiveConcat
  <2> QED
    BY <1>1, <2>1, <2>2, HeadAndTail
<1>9. h \notin Range(ran) /\ h \in Leaf
  BY <1>7, <1>8
<1>10. ran \in Seq(N) /\ direct.left \in [Leaf -> Nat]
  BY <1>3
<1>11. NextOf(h) = {d \in N : <<h, d>> \in plan.edge}
  BY DEF NextOf
<1>12. \A d \in Leaf : left1[d] = IF d \in NextOf(h) THEN direct.left[d] - 1 ELSE direct.left[d]
  OBVIOUS
<1> DEFINE ready1 == {d \in NextOf(h) : left1[d] = 0}
<1>13. IsFiniteSet(ready1)
  BY <1>7, <1>11, FiniteGraph, FS_Subset
<1>14. ready \in Seq(ready1) /\ IsInjective(ready) /\ Range(ready) = ready1
  BY <1>2, <1>13, SequenceOfSet
<1>15. ready \in Seq(N)
  <2>1. ready1 \subseteq N
    BY <1>11
  <2> HIDE DEF ready1, N
  <2> QED
    BY <1>14, <2>1
<1>15a. rest \o ready \in Seq(N) /\ Append(ran, h) \in Seq(N)
  <2> HIDE DEF ran, rest, h, N
  <2> QED
    BY <1>8, <1>10, <1>15
<1>16. direct'.left = left1 /\ direct'.queue = rest \o ready /\ direct'.ran = Append(ran, h)
  BY <1>2
<1>17. Range(Append(ran, h)) = Range(ran) \cup {h}
  BY <1>8, <1>10, RangeOfAppend
<1>18. Range(rest \o ready) = Range(rest) \cup ready1
  BY <1>8, <1>14, <1>15, RangeOfConcat
<1>19. \A l \in Leaf : \A E \in SUBSET Awaited(l, Range(ran)) : IsFiniteSet(E) /\ Cardinality(E) \in Nat
  BY <1>7, FiniteGraph DEF Awaited
\* h has no dependency left, and is one of those that it comes before.
<1>20. Awaited(h, Range(ran)) = {}
  <2>1. direct.left[h] = 0
    BY <1>5, <1>8
  <2> QED
    BY <1>4, <1>9, <1>19, <2>1, FS_EmptySet
<1>21. ASSUME NEW d \in NextOf(h)
       PROVE  /\ d \in Leaf /\ d \in N
              /\ <<h, d>> \in Awaited(d, Range(ran))
              /\ Awaited(d, Range(ran) \cup {h}) = Awaited(d, Range(ran)) \ {<<h, d>>}
  <2>1. d \in N /\ d \in Leaf /\ <<h, d>> \in plan.edge
    BY <1>7, <1>11
  <2>2. <<h, d>> \in Awaited(d, Range(ran))
    BY <1>9, <2>1 DEF Awaited
  <2>3. ASSUME NEW e \in plan.edge, e[2] = d, e[1] = h PROVE e = <<h, d>>
    BY <1>7, <2>3
  <2>4. Awaited(d, Range(ran) \cup {h}) = Awaited(d, Range(ran)) \ {<<h, d>>}
    BY <2>3 DEF Awaited
  <2> QED
    BY <2>1, <2>2, <2>4
<1>22. ASSUME NEW d \in Leaf, d \notin NextOf(h)
       PROVE  Awaited(d, Range(ran) \cup {h}) = Awaited(d, Range(ran))
  <2>1. ASSUME NEW e \in plan.edge, e[2] = d PROVE e[1] # h
    <3>1. e = <<e[1], e[2]>> /\ e[2] \in N
      BY <1>7
    <3> QED
      BY <1>11, <1>22, <2>1, <3>1
  <2> QED
    BY <2>1 DEF Awaited
<1>23. ASSUME NEW d \in Leaf
       PROVE  left1[d] = Cardinality(Awaited(d, Range(ran) \cup {h})) /\ left1[d] \in Nat
  <2>1. CASE d \in NextOf(h)
    <3> DEFINE A == Awaited(d, Range(ran))
    <3>1. IsFiniteSet(A) /\ Cardinality(A) \in Nat
      BY <1>19
    <3>2. Cardinality(A \ {<<h, d>>}) = Cardinality(A) - 1 /\ IsFiniteSet(A \ {<<h, d>>})
      BY <1>21, <2>1, <3>1, FS_RemoveElement
    <3>3. Cardinality(A \ {<<h, d>>}) \in Nat
      BY <3>2, FS_CardinalityType
    <3>4. left1[d] = Cardinality(A) - 1
      BY <1>4, <1>12, <2>1
    <3> QED
      BY <1>21, <2>1, <3>2, <3>3, <3>4
  <2>2. CASE d \notin NextOf(h)
    BY <1>4, <1>10, <1>12, <1>22, <2>2
  <2> QED
    BY <2>1, <2>2
<1>24. \A d \in NextOf(h) : direct.left[d] # 0
  <2> SUFFICES ASSUME NEW d \in NextOf(h) PROVE direct.left[d] # 0
    OBVIOUS
  <2>1. Awaited(d, Range(ran)) # {} /\ IsFiniteSet(Awaited(d, Range(ran)))
    BY <1>19, <1>21
  <2> QED
    BY <1>4, <1>21, <2>1, FS_EmptySet
<1> HIDE DEF left1
<1>25. direct' \in [left : [Leaf -> Nat], queue : Seq(plan'.node), ran : Seq(plan'.node)]
  <2>1. left1 \in [Leaf -> Nat]
    BY <1>23 DEF left1
  <2> QED
    BY <1>1, <1>2, <1>15a, <2>1
<1>26. ASSUME NEW l \in Leaf
       PROVE  direct'.left[l] = Cardinality(Awaited(l, Range(direct.ran)))'
  <2>1. Awaited(l, Range(direct.ran))' = Awaited(l, Range(ran) \cup {h})
    BY <1>1, <1>16, <1>17 DEF Awaited
  <2> QED
    BY <1>16, <1>23, <2>1
<1>27. ASSUME NEW l \in plan'.node
       PROVE  direct'.left[l] = 0 <=> l \in Range(direct'.ran) \cup Range(direct'.queue)
  <2>1. l \in N /\ l \in Leaf
    BY <1>1, <1>7
  <2>2. Range(direct'.ran) \cup Range(direct'.queue) = Range(ran) \cup Range(queue) \cup ready1
    BY <1>8, <1>16, <1>17, <1>18
  <2>3. CASE l \in NextOf(h)
    BY <1>5, <1>16, <1>24, <2>1, <2>2, <2>3
  <2>4. CASE l \notin NextOf(h)
    BY <1>5, <1>12, <1>16, <2>1, <2>2, <2>4
  <2> QED
    BY <2>3, <2>4
<1>28. IsInjective(direct'.ran \o direct'.queue)
  <2>1. \A d \in ready1 : d \in N /\ d \notin Range(ran) \cup Range(queue)
    BY <1>5, <1>21, <1>24
  <2>2. IsInjective(Append(ran, h))
    BY <1>8, <1>9, <1>10, InjectiveAppend
  <2>3. IsInjective(rest \o ready)
    BY <1>8, <1>14, <1>15, <2>1, InjectiveConcat
  <2>4. Range(Append(ran, h)) \cap Range(rest \o ready) = {}
    BY <1>8, <1>9, <1>17, <1>18, <2>1
  <2> QED
    BY <1>16, <1>15a, <2>2, <2>3, <2>4, InjectiveConcat
<1>29. ASSUME NEW k \in DOMAIN direct'.ran
       PROVE  ParentsIn(direct.ran[k])' \subseteq {direct'.ran[n] : n \in 1 .. k - 1}
  <2> DEFINE m == Len(ran)
  <2>1. /\ m \in Nat /\ k \in 1 .. m + 1 /\ DOMAIN ran = 1 .. m
        /\ \A n \in 1 .. m : Append(ran, h)[n] = ran[n]
        /\ Append(ran, h)[m + 1] = h
    BY <1>10, <1>16, <1>29
  <2> HIDE DEF m
  <2>2. ParentsIn(direct.ran[k])' = ParentsIn(Append(ran, h)[k])
    BY <1>1, <1>16 DEF ParentsIn
  <2>3. CASE k = m + 1
    <3>1. \A p \in ParentsIn(h) : p \in Range(ran)
      BY <1>20 DEF ParentsIn, Awaited
    <3>2. Range(ran) = {ran[n] : n \in 1 .. m}
      BY <2>1 DEF Range
    <3>3. \A n \in 1 .. m : direct'.ran[n] = ran[n]
      BY <1>16, <2>1
    <3>4. k - 1 = m
      BY <2>1, <2>3
    <3> QED
      BY <2>1, <2>2, <2>3, <3>1, <3>2, <3>3, <3>4
  <2>4. CASE k # m + 1
    <3>1. k \in 1 .. m
      BY <2>1, <2>4
    <3>2. \A n \in 1 .. k - 1 : direct'.ran[n] = ran[n]
      BY <1>16, <2>1, <3>1
    <3>3. ParentsIn(ran[k]) \subseteq {ran[n] : n \in 1 .. k - 1}
      BY <1>6, <2>1, <3>1
    <3>4. ParentsIn(direct.ran[k])' = ParentsIn(ran[k])
      BY <2>1, <2>2, <3>1
    <3>5. \A n \in 1 .. k - 1 : ran[n] \in {direct'.ran[i] : i \in 1 .. k - 1}
      BY <3>2
    <3> QED
      BY <3>3, <3>4, <3>5
  <2> QED
    BY <2>3, <2>4
<1> QED
  BY <1>25, <1>26, <1>27, <1>28, <1>29 DEF DirectInv

LEMMA DirectNext == DirectInv /\ GraphOfLeaves /\ GraphOfLeaves' /\ [JfNext]_jfVars => DirectInv'
<1> SUFFICES ASSUME DirectInv, GraphOfLeaves, GraphOfLeaves', [JfNext]_jfVars PROVE DirectInv'
  OBVIOUS
<1>a. ASSUME direct' = direct, plan' = plan PROVE DirectInv'
  BY <1>a DEF DirectInv, Awaited, ParentsIn
<1>b. ASSUME plan'.at # "direct" PROVE DirectInv'
  BY <1>b DEF DirectInv
<1>1. ASSUME NEW s \in Session, Begin(s) PROVE DirectInv'
  <2>1. CASE s = Caller
    <3>1. plan'.at = "planned"
      BY <1>1, <2>1 DEF Begin
    <3> QED
      BY <1>b, <3>1
  <2>2. CASE s # Caller
    BY <1>1, <1>a, <2>2 DEF Begin
  <2> QED
    BY <2>1, <2>2
<1>2. ASSUME NEW s \in Session, Store(s) \/ RollBack(s) PROVE DirectInv'
  BY <1>2, <1>a DEF Store, RollBack, dyVars
<1>3. ASSUME NEW j \in Job, Live(j) PROVE DirectInv'
  BY <1>3, <1>a DEF Live, Start, Finish, Release, LoseRelease, Fail, PressDone, PressCancelled,
                    PressRequeue, Press, Autovacuum, dyVars
<1>9. ASSUME NEW r \in pressed, CommitPress(r) PROVE DirectInv'
  BY <1>9, <1>a DEF CommitPress, dyVars
<1>4. CASE Build
  BY <1>4, <1>a DEF Build, NewChain, NewGroup, OnDone
<1>5. ASSUME NEW o \in Existing, Delay(o) PROVE DirectInv'
  <2>1. plan'.at \in {"refused", "planned"}
    BY <1>5 DEF Delay, Connect
  <2> QED
    BY <1>b, <2>1
<1>6. ASSUME NEW o \in Existing, DelayDirectly(o) PROVE DirectInv'
  BY <1>6, DirectBegins
<1>7. CASE RunDirectly
  BY <1>7, DirectRuns
<1>8. CASE UNCHANGED jfVars
  BY <1>8, <1>a DEF jfVars, dyVars
<1> QED
  BY <1>1, <1>2, <1>3, <1>4, <1>5, <1>6, <1>7, <1>8, <1>9 DEF JfNext, DyNext

\* What is left out when the queue is empty waits for others that are left out.
LEMMA LeftOutTogether ==
  ASSUME DirectInv, GraphOfLeaves, plan.at = "direct", direct.queue = <<>>,
         NEW l \in plan.node \ Range(direct.ran)
  PROVE  \E C \in SUBSET plan.node : l \in C /\ \A c \in C : ParentsIn(c) \cap C # {}
<1> DEFINE C == plan.node \ Range(direct.ran)
<1>1. ASSUME NEW c \in C PROVE ParentsIn(c) \cap C # {}
  <2>1. c \in Leaf /\ plan.edge \subseteq plan.node \X plan.node
    BY DEF GraphOfLeaves
  <2>2. Range(direct.queue) = {}
    BY DEF Range
  <2>3. direct.left[c] # 0
    BY <2>2 DEF DirectInv
  <2>4. Awaited(c, Range(direct.ran)) # {}
    BY <2>1, <2>3, FS_EmptySet DEF DirectInv
  <2>5. PICK e \in plan.edge : e[2] = c /\ e[1] \notin Range(direct.ran)
    BY <2>4 DEF Awaited
  <2>6. e = <<e[1], c>> /\ e[1] \in plan.node
    BY <2>1, <2>5
  <2> QED
    BY <2>5, <2>6 DEF ParentsIn
<1> QED
  BY <1>1

\* For every graph that delay() connects, with or without cycles: direct
\* execution performs a job after all the jobs it depends on, each once, and
\* leaves out only jobs that are on a cycle or depend on one.
THEOREM DirectIsInOrder == JfSpec => []DirectInOrder
<1>1. DirectInv /\ GraphOfLeaves => DirectInOrder
  BY LeftOutTogether DEF DirectInv, DirectInOrder
<1> QED
  BY <1>1, DirectInit, DirectNext, LeavesAlways, PTL DEF JfSpec
=============================================================================
