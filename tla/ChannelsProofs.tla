--------------------------- MODULE ChannelsProofs ---------------------------
(***************************************************************************)
(* Proofs about the scheduler of the job runner, for every tree of         *)
(* channels, every set of jobs and every configuration: where a job may    *)
(* be in the tree, what a pass of get_jobs_to_run lets through, and that   *)
(* the wake-up time asked for misses nothing.                              *)
(***************************************************************************)
EXTENDS Channels, FiniteSetTheorems, TLAPS

-----------------------------------------------------------------------------
(* The tree of channels *)

\* Above is the reflexive and transitive closure of Parent.
LEMMA AboveBasics ==
  ASSUME NEW c \in Channel
  PROVE  /\ Above[c] \subseteq Channel
         /\ c \in Above[c]
         /\ Root \in Above[c]
         /\ \A d \in Above[c] \ {Root} : Parent[d] \in Above[c]
  <1>1. \A d \in Above[c] \ {Root} : d \in Channel /\ Parent[d] \in Channel
    BY TreeAssumption DEF Above
  <1>. QED
    BY <1>1, TreeAssumption DEF Above

\* A set of channels closed under Parent holds all that is above its members.
LEMMA AboveLeast ==
  ASSUME NEW c \in Channel, NEW S \in SUBSET Channel, c \in S,
         \A x \in S \ {Root} : Parent[x] \in S
  PROVE  Above[c] \subseteq S
  BY DEF Above

LEMMA AboveTransitive ==
  ASSUME NEW c \in Channel, NEW d \in Above[c]
  PROVE  Above[d] \subseteq Above[c]
  BY AboveBasics, AboveLeast

LEMMA AboveRoot == Above[Root] = {Root}
  <1>1. Root \in Channel
    BY TreeAssumption
  <1>2. Above[Root] \subseteq {Root}
    BY <1>1, AboveLeast
  <1>. QED
    BY <1>1, <1>2, AboveBasics

LEMMA AboveParent ==
  ASSUME NEW c \in Channel, c # Root
  PROVE  /\ Parent[c] \in Channel
         /\ Above[c] = {c} \cup Above[Parent[c]]
  <1>1. Parent[c] \in Channel
    BY TreeAssumption
  <1>2. Above[c] \subseteq {c} \cup Above[Parent[c]]
    <2>. DEFINE S == {c} \cup Above[Parent[c]]
    <2>1. S \in SUBSET Channel
      BY <1>1, AboveBasics
    <2>2. \A x \in S \ {Root} : Parent[x] \in S
      BY <1>1, AboveBasics
    <2>. QED
      BY <2>1, <2>2, AboveLeast
  <1>3. Above[Parent[c]] \subseteq Above[c]
    BY AboveBasics, AboveTransitive
  <1>. QED
    BY <1>1, <1>2, <1>3, AboveBasics

LEMMA NoLoop ==
  ASSUME NEW c \in Channel, c # Root
  PROVE  Parent[c] # c
  <1>. SUFFICES ASSUME Parent[c] = c
                PROVE  FALSE
    OBVIOUS
  <1>. DEFINE S == {c}
  <1>1. Above[c] \subseteq S
    BY AboveLeast
  <1>. QED
    BY <1>1, AboveBasics

\* There is no cycle: all channels have the root above them.
LEMMA AboveAntisymmetric ==
  ASSUME NEW c \in Channel, NEW d \in Above[c], c \in Above[d]
  PROVE  c = d
  <1>. SUFFICES ASSUME c # d
                PROVE  FALSE
    OBVIOUS
  <1>1. d \in Channel
    BY AboveBasics
  <1>. DEFINE S == {x \in Channel : c \in Above[x]}
  <1>2. ASSUME NEW x \in S \ {Root}
        PROVE  Parent[x] \in S
    <2>1. /\ x \in Channel
          /\ Parent[x] \in Channel
          /\ Above[x] = {x} \cup Above[Parent[x]]
      BY AboveParent
    <2>2. CASE x # c
      BY <2>1, <2>2
    <2>3. CASE x = c
      <3>1. d \in Above[Parent[x]]
        BY <2>1, <2>3
      <3>. QED
        BY <2>1, <3>1, AboveTransitive
    <2>. QED
      BY <2>2, <2>3
  <1>3. Above[c] \subseteq S
    <2>1. S \in SUBSET Channel /\ c \in S
      BY AboveBasics
    <2>. HIDE DEF S
    <2>. QED
      BY <1>2, <2>1, AboveLeast
  <1>4. c \in Above[Root]
    BY <1>3, AboveBasics
  <1>. QED
    BY <1>4, AboveRoot

\* The channels above one channel form a chain.
LEMMA AboveChain ==
  ASSUME NEW c \in Channel, NEW d \in Above[c], NEW e \in Above[c]
  PROVE  d \in Above[e] \/ e \in Above[d]
  <1>. DEFINE S == {x \in Channel : d \in Above[x] \/ x \in Above[d]}
  <1>1. d \in Channel
    BY AboveBasics
  <1>2. ASSUME NEW x \in S \ {Root}
        PROVE  Parent[x] \in S
    <2>1. /\ Parent[x] \in Channel
          /\ Above[x] = {x} \cup Above[Parent[x]]
      BY AboveParent
    <2>2. CASE x \in Above[d]
      BY <1>1, <2>1, <2>2, AboveBasics
    <2>3. CASE d \in Above[x]
      BY <1>1, <2>1, <2>3, AboveBasics
    <2>. QED
      BY <2>2, <2>3
  <1>3. Above[c] \subseteq S
    BY <1>2, AboveBasics, AboveLeast
  <1>. QED
    BY <1>3

-----------------------------------------------------------------------------
(* Where a job may be *)

Placements == [Channel -> SUBSET Job]

\* The job j, whose channel is l, in the placement Q, R, F: in no channel;
\* failed in its leaf; queued in one channel q and running in those it went
\* through; or running in its leaf and all that is above.
Nowhere(j, Q, R, F) ==
  \A c \in Channel : j \notin Q[c] /\ j \notin R[c] /\ j \notin F[c]

InLeaf(j, l, Q, R, F) ==
  \A c \in Channel : j \notin Q[c] /\ j \notin R[c] /\ (j \in F[c] <=> c = l)

OnItsWay(j, l, q, Q, R, F) ==
  \A c \in Channel :
    /\ j \in Q[c] <=> c = q
    /\ j \in R[c] <=> c \in Above[l] /\ q \in Above[c] /\ c # q
    /\ j \notin F[c]

LetGo(j, l, Q, R, F) ==
  \A c \in Channel : j \notin Q[c] /\ j \notin F[c] /\ (j \in R[c] <=> c \in Above[l])

InPlace(j, l, Q, R, F) ==
  \/ Nowhere(j, Q, R, F)
  \/ InLeaf(j, l, Q, R, F)
  \/ \E q \in Above[l] : OnItsWay(j, l, q, Q, R, F)
  \/ LetGo(j, l, Q, R, F)

FourPlaces == \A j \in Job : InPlace(j, info[j].channel, queue, running, failed)

\* The jobs other than j are where they were.
SameBut(j, Q, R, F, Q2, R2, F2) ==
  \A i \in Job \ {j}, c \in Channel :
    /\ i \in Q2[c] <=> i \in Q[c]
    /\ i \in R2[c] <=> i \in R[c]
    /\ i \in F2[c] <=> i \in F[c]

LEMMA WithoutEffect ==
  ASSUME NEW f, NEW C, NEW j
  PROVE  /\ f \in Placements => Without(f, C, j) \in Placements
         /\ \A c \in Channel :
              /\ j \in Without(f, C, j)[c] <=> c \notin C /\ j \in f[c]
              /\ \A i \in Job : i # j => (i \in Without(f, C, j)[c] <=> i \in f[c])
  BY DEF Without, Placements

LEMMA WithEffect ==
  ASSUME NEW f, NEW C, NEW j \in Job
  PROVE  /\ f \in Placements => With(f, C, j) \in Placements
         /\ \A c \in Channel :
              /\ j \in With(f, C, j)[c] <=> c \in C \/ j \in f[c]
              /\ \A i \in Job : i # j => (i \in With(f, C, j)[c] <=> i \in f[c])
  BY DEF With, Placements

\* set_running, called for a job that is not running in its leaf, goes down to
\* the root.
LEMMA ClimbIsAll ==
  ASSUME NEW j \in Job, NEW c \in Channel, NEW Q, NEW R, NEW F,
         InPlace(j, c, Q, R, F), j \notin R[c]
  PROVE  Climb(R, c, j) = Above[c] /\ \A d \in Channel : j \notin R[d]
  <1>1. \A d \in Channel : j \notin R[d]
    <2>1. CASE Nowhere(j, Q, R, F)
      BY <2>1 DEF Nowhere
    <2>2. CASE InLeaf(j, c, Q, R, F)
      BY <2>2 DEF InLeaf
    <2>3. ASSUME NEW q \in Above[c], OnItsWay(j, c, q, Q, R, F)
          PROVE  \A d \in Channel : j \notin R[d]
      <3>1. q = c
        BY <2>3, AboveBasics DEF OnItsWay
      <3>2. ASSUME NEW d \in Above[c], c \in Above[d]
            PROVE  d = c
        BY <3>2, AboveAntisymmetric
      <3>. QED
        BY <2>3, <3>1, <3>2 DEF OnItsWay
    <2>4. CASE LetGo(j, c, Q, R, F)
      BY <2>4, AboveBasics DEF LetGo
    <2>. QED
      BY <2>1, <2>2, <2>3, <2>4 DEF InPlace
  <1>2. \A d \in Above[c] : d \in Channel
    BY AboveBasics
  <1>. QED
    BY <1>1, <1>2 DEF Climb

\* What ChannelManager.notify makes of a job that is in place.
Arrives(j, c, state, Q, R, F, Q2, R2, F2) ==
  /\ state \in {Done, Cancelled} => Nowhere(j, Q2, R2, F2)
  /\ state = Pending => OnItsWay(j, c, c, Q2, R2, F2)
  /\ state = Failed => InLeaf(j, c, Q2, R2, F2)
  /\ state \in Active => IF j \in R[c] THEN Q2 = Q /\ R2 = R /\ F2 = F
                         ELSE LetGo(j, c, Q2, R2, F2)
  /\ state = WaitDependencies => Q2 = Q /\ R2 = R /\ F2 = F

LEMMA PlacedInEffect ==
  ASSUME NEW Q \in Placements, NEW R \in Placements, NEW F \in Placements,
         NEW j \in Job, NEW c \in Channel, InPlace(j, c, Q, R, F),
         NEW s \in States,
         NEW Q2, NEW R2, NEW F2, <<Q2, R2, F2>> = PlacedIn(Q, R, F, j, c, s)
  PROVE  /\ Q2 \in Placements /\ R2 \in Placements /\ F2 \in Placements
         /\ InPlace(j, c, Q2, R2, F2)
         /\ SameBut(j, Q, R, F, Q2, R2, F2)
         /\ Arrives(j, c, s, Q, R, F, Q2, R2, F2)
  <1>. DEFINE up == Above[c]
  <1>1. /\ up \in SUBSET Channel
        /\ c \in up
        /\ {c} \in SUBSET Channel
        /\ \A d \in up : c \in Above[d] => d = c
    BY AboveBasics, AboveAntisymmetric
  <1>2. SameBut(j, Q, R, F, Q, R, F)
    BY DEF SameBut
  <1>3. ASSUME NEW q \in up, OnItsWay(j, c, q, Q, R, F)
        PROVE  j \notin F[c] /\ (j \in R[c] <=> c # q) /\ (j \in Q[c] <=> c = q)
    BY <1>1, <1>3 DEF OnItsWay
  <1>4. \A d \in Channel : j \in Q[d] \/ j \in R[d] \/ j \in F[d] => d \in up
    BY <1>1 DEF InPlace, Nowhere, InLeaf, OnItsWay, LetGo
  <1>5. CASE s \in {Done, Cancelled}
    <2>1. /\ Q2 = Without(Q, up, j) /\ R2 = Without(R, up, j) /\ F2 = Without(F, up, j)
      BY <1>5
      DEF PlacedIn, Active, Done, Cancelled, Pending, Failed, Enqueued, Started
    <2>2. Nowhere(j, Q2, R2, F2)
      BY <1>1, <1>4, <2>1, WithoutEffect DEF Nowhere
    <2>3. /\ Q2 \in Placements /\ R2 \in Placements /\ F2 \in Placements
      BY <1>1, <2>1, WithoutEffect
    <2>4. SameBut(j, Q, R, F, Q2, R2, F2)
      BY <1>1, <2>1, WithoutEffect DEF SameBut
    <2>. QED
      BY <1>5, <2>2, <2>3, <2>4
      DEF InPlace, Arrives, Active, Done, Cancelled, Pending, Failed, Enqueued, Started, WaitDependencies
  <1>6. CASE s = Pending
    <2>1. CASE j \in Q[c]
      <3>1. Q2 = Q /\ R2 = R /\ F2 = F
        BY <1>6, <2>1
        DEF PlacedIn, Active, Done, Cancelled, Pending, Failed, Enqueued, Started
      <3>2. OnItsWay(j, c, c, Q, R, F)
        <4>1. ~Nowhere(j, Q, R, F) /\ ~InLeaf(j, c, Q, R, F) /\ ~LetGo(j, c, Q, R, F)
          BY <2>1 DEF Nowhere, InLeaf, LetGo
        <4>2. PICK q \in up : OnItsWay(j, c, q, Q, R, F)
          BY <4>1 DEF InPlace
        <4>. QED
          BY <1>3, <2>1, <4>2
      <3>. QED
        BY <1>2, <1>6, <3>1, <3>2
        DEF Arrives, Active, Done, Cancelled, Pending, Failed, Enqueued, Started, WaitDependencies
    <2>2. CASE j \notin Q[c]
      <3>. DEFINE W == Without(Q, up, j)
      <3>1. /\ Q2 = With(W, {c}, j) /\ R2 = Without(R, up, j) /\ F2 = Without(F, up, j)
        BY <1>6, <2>2
        DEF PlacedIn, Active, Done, Cancelled, Pending, Failed, Enqueued, Started
      <3>2. /\ W \in Placements /\ R2 \in Placements /\ F2 \in Placements
            /\ \A d \in Channel : j \notin W[d] /\ j \notin R2[d] /\ j \notin F2[d]
        BY <1>1, <1>4, <3>1, WithoutEffect
      <3>7. SameBut(j, Q, R, F, W, R2, F2)
        BY <1>1, <3>1, WithoutEffect DEF SameBut
      <3>. HIDE DEF W
      <3>3. /\ Q2 \in Placements
            /\ \A d \in Channel : j \in Q2[d] <=> d = c
        BY <1>1, <3>1, <3>2, WithEffect
      <3>8. \A i \in Job, d \in Channel : i # j => (i \in Q2[d] <=> i \in W[d])
        BY <1>1, <3>1, <3>2, WithEffect
      <3>4. OnItsWay(j, c, c, Q2, R2, F2)
        BY <1>1, <3>2, <3>3 DEF OnItsWay
      <3>5. SameBut(j, Q, R, F, Q2, R2, F2)
        BY <3>7, <3>8 DEF SameBut
      <3>6. InPlace(j, c, Q2, R2, F2)
        BY <1>1, <3>4 DEF InPlace
      <3>. QED
        BY <1>6, <3>2, <3>3, <3>4, <3>5, <3>6
        DEF Arrives, Active, Done, Cancelled, Pending, Failed, Enqueued, Started, WaitDependencies
    <2>. QED
      BY <2>1, <2>2
  <1>7. CASE s \in Active
    <2>1. CASE j \in R[c]
      <3>1. Q2 = Q /\ R2 = R /\ F2 = F
        BY <1>7, <2>1
        DEF PlacedIn, Active, Done, Cancelled, Pending, Failed, Enqueued, Started
      <3>. QED
        BY <1>2, <1>7, <2>1, <3>1
        DEF Arrives, Active, Done, Cancelled, Pending, Failed, Enqueued, Started, WaitDependencies
    <2>2. CASE j \notin R[c]
      <3>1. Climb(R, c, j) = up /\ \A d \in Channel : j \notin R[d]
        BY <2>2, ClimbIsAll
      <3>2. /\ Q2 = Without(Q, up, j) /\ R2 = With(R, up, j) /\ F2 = Without(F, up, j)
        BY <1>7, <2>2, <3>1
        DEF PlacedIn, Active, Done, Cancelled, Pending, Failed, Enqueued, Started
      <3>3. /\ Q2 \in Placements /\ R2 \in Placements /\ F2 \in Placements
        BY <1>1, <3>2, WithoutEffect, WithEffect
      <3>5. SameBut(j, Q, R, F, Q2, R2, F2)
        BY <1>1, <3>2, WithoutEffect, WithEffect DEF SameBut
      <3>4. LetGo(j, c, Q2, R2, F2)
        BY <1>1, <1>4, <3>1, <3>2, WithoutEffect, WithEffect DEF LetGo
      <3>. QED
        BY <1>7, <2>2, <3>3, <3>4, <3>5
        DEF InPlace, Arrives, Active, Done, Cancelled, Pending, Failed, Enqueued, Started,
            WaitDependencies
    <2>. QED
      BY <2>1, <2>2
  <1>8. CASE s = Failed
    <2>1. CASE j \in F[c]
      <3>1. Q2 = Q /\ R2 = R /\ F2 = F
        BY <1>8, <2>1
        DEF PlacedIn, Active, Done, Cancelled, Pending, Failed, Enqueued, Started
      <3>2. InLeaf(j, c, Q, R, F)
        BY <1>3, <2>1 DEF InPlace, Nowhere, LetGo
      <3>. QED
        BY <1>2, <1>8, <3>1, <3>2
        DEF Arrives, Active, Done, Cancelled, Pending, Failed, Enqueued, Started, WaitDependencies
    <2>2. CASE j \notin F[c]
      <3>. DEFINE W == Without(F, up, j)
      <3>1. /\ F2 = With(W, {c}, j) /\ Q2 = Without(Q, up, j) /\ R2 = Without(R, up, j)
        BY <1>8, <2>2
        DEF PlacedIn, Active, Done, Cancelled, Pending, Failed, Enqueued, Started
      <3>2. /\ W \in Placements /\ Q2 \in Placements /\ R2 \in Placements
            /\ \A d \in Channel : j \notin W[d] /\ j \notin R2[d] /\ j \notin Q2[d]
        BY <1>1, <1>4, <3>1, WithoutEffect
      <3>7. SameBut(j, Q, R, F, Q2, R2, W)
        BY <1>1, <3>1, WithoutEffect DEF SameBut
      <3>. HIDE DEF W
      <3>3. /\ F2 \in Placements
            /\ \A d \in Channel : j \in F2[d] <=> d = c
        BY <1>1, <3>1, <3>2, WithEffect
      <3>8. \A i \in Job, d \in Channel : i # j => (i \in F2[d] <=> i \in W[d])
        BY <1>1, <3>1, <3>2, WithEffect
      <3>4. InLeaf(j, c, Q2, R2, F2)
        BY <1>1, <3>2, <3>3 DEF InLeaf
      <3>5. SameBut(j, Q, R, F, Q2, R2, F2)
        BY <3>7, <3>8 DEF SameBut
      <3>. QED
        BY <1>8, <3>2, <3>3, <3>4, <3>5
        DEF InPlace, Arrives, Active, Done, Cancelled, Pending, Failed, Enqueued, Started,
            WaitDependencies
    <2>. QED
      BY <2>1, <2>2
  <1>9. CASE s = WaitDependencies
    <2>1. Q2 = Q /\ R2 = R /\ F2 = F
      BY <1>9
      DEF PlacedIn, Active, Done, Cancelled, Pending, Failed, Enqueued, Started, WaitDependencies
    <2>. QED
      BY <1>2, <1>9, <2>1
      DEF Arrives, Active, Done, Cancelled, Pending, Failed, Enqueued, Started, WaitDependencies
  <1>. QED
    BY <1>5, <1>6, <1>7, <1>8, <1>9 DEF States, Active

LEMMA PlacedInTriple ==
  ASSUME NEW Q, NEW R, NEW F, NEW j, NEW c, NEW s
  PROVE  \E a, b, d : PlacedIn(Q, R, F, j, c, s) = <<a, b, d>>
  BY DEF PlacedIn

\* The channels above its leaf are all a job can be in.
LEMMA TakenOut ==
  ASSUME NEW j \in Job, NEW l \in Channel, NEW Q, NEW R, NEW F,
         InPlace(j, l, Q, R, F)
  PROVE  LET up == Above[l]
         IN  Nowhere(j, Without(Q, up, j), Without(R, up, j), Without(F, up, j))
  <1>1. /\ l \in Above[l]
        /\ \A c \in Channel : j \in Q[c] \/ j \in R[c] \/ j \in F[c] => c \in Above[l]
    BY AboveBasics DEF InPlace, Nowhere, InLeaf, OnItsWay, LetGo
  <1>. QED
    BY <1>1, WithoutEffect DEF Nowhere

\* What a notification does: only the job it is about moves, and the job is
\* where its state wants it.
LEMMA NotifyEffect ==
  ASSUME ChTypeOK, FourPlaces, NEW j \in Job, NEW attr \in Attr, NEW s \in States,
         Notify(j, attr, s)
  PROVE  /\ queue' \in Placements /\ running' \in Placements /\ failed' \in Placements
         /\ SameBut(j, queue, running, failed, queue', running', failed')
         /\ InPlace(j, attr.channel, queue', running', failed')
         /\ info' = [info EXCEPT ![j] = IF Nowhere(j, queue, running, failed)'
                                       THEN Blank ELSE attr]
         /\ \/ Arrives(j, attr.channel, s, queue, running, failed, queue', running', failed')
               /\ info[j] = attr
            \/ \E Q, R, F \in Placements :
                 /\ Nowhere(j, Q, R, F)
                 /\ Arrives(j, attr.channel, s, Q, R, F, queue', running', failed')
  <1>. DEFINE c == attr.channel
              old == Above[info[j].channel]
              Q == Without(queue, old, j)
              R == Without(running, old, j)
              F == Without(failed, old, j)
  <1>1. /\ c \in Channel
        /\ info[j] \in Attr /\ info[j].channel \in Channel
        /\ queue \in Placements /\ running \in Placements /\ failed \in Placements
        /\ InPlace(j, info[j].channel, queue, running, failed)
    BY DEF ChTypeOK, Attr, Placements, FourPlaces
  <1>2. info' = [info EXCEPT ![j] = IF Nowhere(j, queue, running, failed)'
                                    THEN Blank ELSE attr]
    BY DEF Notify, Placed, Nowhere
  <1>3. CASE info[j] = attr
    <2>1. <<queue', running', failed'>> = PlacedIn(queue, running, failed, j, c, s)
      <3>1. /\ queue' = PlacedIn(queue, running, failed, j, c, s)[1]
            /\ running' = PlacedIn(queue, running, failed, j, c, s)[2]
            /\ failed' = PlacedIn(queue, running, failed, j, c, s)[3]
        BY <1>3 DEF Notify
      <3>. QED
        BY <3>1, PlacedInTriple
    <2>2. /\ queue' \in Placements /\ running' \in Placements /\ failed' \in Placements
          /\ InPlace(j, c, queue', running', failed')
          /\ SameBut(j, queue, running, failed, queue', running', failed')
          /\ Arrives(j, c, s, queue, running, failed, queue', running', failed')
      BY <1>1, <1>3, <2>1, PlacedInEffect
    <2>. QED
      BY <1>2, <1>3, <2>2
  <1>4. CASE info[j] # attr
    <2>1. <<queue', running', failed'>> = PlacedIn(Q, R, F, j, c, s)
      <3>1. /\ queue' = PlacedIn(Q, R, F, j, c, s)[1]
            /\ running' = PlacedIn(Q, R, F, j, c, s)[2]
            /\ failed' = PlacedIn(Q, R, F, j, c, s)[3]
        BY <1>4 DEF Notify
      <3>. QED
        BY <3>1, PlacedInTriple
    <2>2. Q \in Placements /\ R \in Placements /\ F \in Placements
      BY <1>1, WithoutEffect
    <2>3. Nowhere(j, Q, R, F)
      BY <1>1, TakenOut
    <2>4. SameBut(j, queue, running, failed, Q, R, F)
      BY WithoutEffect DEF SameBut
    <2>. HIDE DEF Q, R, F
    <2>5. InPlace(j, c, Q, R, F)
      BY <2>3 DEF InPlace
    <2>6. /\ queue' \in Placements /\ running' \in Placements /\ failed' \in Placements
          /\ InPlace(j, c, queue', running', failed')
          /\ SameBut(j, Q, R, F, queue', running', failed')
          /\ Arrives(j, c, s, Q, R, F, queue', running', failed')
      BY <1>1, <2>1, <2>2, <2>5, PlacedInEffect
    <2>7. SameBut(j, queue, running, failed, queue', running', failed')
      BY <2>4, <2>6 DEF SameBut
    <2>. QED
      BY <1>2, <2>2, <2>3, <2>6, <2>7
  <1>. QED
    BY <1>3, <1>4

-----------------------------------------------------------------------------
(* The inductive invariant *)

\* Where a pass stands: a channel is never done before those upstream of it,
\* and the pass is over when the root is.
PassShape ==
  /\ \A c \in todo \ {Root} : Parent[c] \in todo
  /\ phase = "pass" => Root \in todo
  /\ phase # "pass" => todo = {} /\ passNow = 0
  /\ passNow <= clock

\* What a throttled channel remembers of the last job it let through.
PauseCovers ==
  \A c \in Channel :
    /\ Throttle[c] = 0 => pause[c] = 0 /\ lastPass[c] = 0
    /\ \/ lastPass[c] = 0
       \/ pause[c] >= lastPass[c] + Throttle[c]
       \/ /\ clock >= lastPass[c] + Throttle[c]
          /\ c \in todo => passNow >= lastPass[c] + Throttle[c]

\* Nothing in the queue of c can be let through any more at the time of the
\* pass (at any time, once it is over).
Spent(c) ==
  \/ pause[c] > passNow
  \/ ~HasCapacity(c)
  \/ \A i \in queue[c] :
       info[i].eta > passNow \/ (info[i].eta = 0 /\ HeldBack(c, i, 0))

DoneIsSpent ==
  \A c \in Channel :
    (phase = "pass" /\ c \notin todo) \/ phase = "asleep" => Spent(c)

\* A step of the scheduler, with rows that say anything a row can say; a pass
\* that is given up (Abandon) is one of the errors that close the databases.
ChStep ==
  \/ Open
  \/ \E j \in Job :
       \/ \E attr \in Attr, s \in States : HandleRow(j, attr, s)
       \/ HandleMissingRow(j)
  \/ RunJobs
  \/ PassStep
  \/ WakeUp
  \/ Close
  \/ Tick

LEMMA NextIsStep == [ChNext]_chVars => [ChStep]_chVars
  BY JobAssumption DEF ChNext, ChStep, Abandon

ChInv == ChTypeOK /\ FourPlaces /\ PassShape /\ PauseCovers /\ DoneIsSpent

LEMMA BlankType == Blank \in Attr
  BY TreeAssumption DEF Blank, Attr

\* An eta that is past is forgotten, and nothing else of a job.
LEMMA RipenedEffect ==
  ASSUME ChTypeOK, NEW c \in Channel, NEW now \in Nat
  PROVE  /\ Ripened(c, now) \in [Job -> Attr]
         /\ \A j \in Job :
              /\ Ripened(c, now)[j].channel = info[j].channel
              /\ Ripened(c, now)[j].priority = info[j].priority
              /\ Ripened(c, now)[j].eta = IF j \in Due(c, now) THEN 0 ELSE info[j].eta
  BY DEF ChTypeOK, Ripened, Attr

\* What a step of a generator does, in one place.
LEMMA ExhaustEffect ==
  ASSUME ChTypeOK, NEW c \in Channel, Exhaust(c)
  PROVE  /\ info' = info \/ info' = Ripened(c, passNow)
         /\ pause' = pause \/ pause' = [pause EXCEPT ![c] = 0]
         /\ todo' = todo \ {c}
         /\ passNow' = IF todo' = {} THEN 0 ELSE passNow
         /\ UNCHANGED <<queue, running, failed, lastPass>>
  BY DEF Exhaust

LEMMA RemoveJobEffect ==
  ASSUME ChTypeOK, FourPlaces, NEW j \in Job, RemoveJob(j)
  PROVE  /\ queue' \in Placements /\ running' \in Placements /\ failed' \in Placements
         /\ SameBut(j, queue, running, failed, queue', running', failed')
         /\ Nowhere(j, queue, running, failed)'
         /\ info' = [info EXCEPT ![j] = Blank]
  <1>. DEFINE old == Above[info[j].channel]
  <1>1. /\ info[j].channel \in Channel
        /\ queue \in Placements /\ running \in Placements /\ failed \in Placements
        /\ InPlace(j, info[j].channel, queue, running, failed)
    BY DEF ChTypeOK, Attr, Placements, FourPlaces
  <1>2. /\ queue' = Without(queue, old, j)
        /\ running' = Without(running, old, j)
        /\ failed' = Without(failed, old, j)
        /\ info' = [info EXCEPT ![j] = Blank]
    BY DEF RemoveJob
  <1>3. queue' \in Placements /\ running' \in Placements /\ failed' \in Placements
    BY <1>1, <1>2, WithoutEffect
  <1>4. SameBut(j, queue, running, failed, queue', running', failed')
    BY <1>2, WithoutEffect DEF SameBut
  <1>5. Nowhere(j, queue', running', failed')
    BY <1>1, <1>2, TakenOut
  <1>. QED
    BY <1>2, <1>3, <1>4, <1>5 DEF Nowhere

LEMMA LetThroughEffect ==
  ASSUME ChTypeOK, NEW c \in Channel, NEW j \in queue[c], LetThrough(c, j)
  PROVE  /\ j \in Job
         /\ queue' \in Placements /\ running' \in Placements /\ failed' = failed
         /\ SameBut(j, queue, running, failed, queue', running', failed')
         /\ \A d \in Channel :
              /\ j \in running'[d] <=> d = c \/ j \in running[d]
              /\ j \in queue'[d] <=> (d # c /\ j \in queue[d]) \/ (c # Root /\ d = Parent[c])
         /\ info' = Ripened(c, passNow)
  <1>1. /\ j \in Job
        /\ queue \in Placements /\ running \in Placements
        /\ c # Root => Parent[c] \in Channel
    BY TreeAssumption DEF ChTypeOK, Placements
  <1>2. /\ running' = With(running, {c}, j) /\ failed' = failed
        /\ queue' = IF c = Root THEN Without(queue, {c}, j)
                    ELSE With(Without(queue, {c}, j), {Parent[c]}, j)
        /\ info' = Ripened(c, passNow)
    BY DEF LetThrough
  <1>3. queue' \in Placements
    <2>1. Without(queue, {c}, j) \in Placements
      BY <1>1, WithoutEffect
    <2>. QED
      BY <1>1, <1>2, <2>1, WithEffect
  <1>4. ASSUME NEW d \in Channel
        PROVE  /\ j \in queue'[d] <=> (d # c /\ j \in queue[d]) \/ (c # Root /\ d = Parent[c])
               /\ \A i \in Job : i # j => (i \in queue'[d] <=> i \in queue[d])
    <2>1. CASE c = Root
      <3>1. \A i : i \in queue'[d] <=> i \in queue[d] /\ ~(d = c /\ i = j)
        BY <1>1, <1>2, <1>4, <2>1 DEF Without
      <3>. QED
        BY <2>1, <3>1
    <2>2. CASE c # Root
      <3>1. \A i : i \in queue'[d] <=> i \in Without(queue, {c}, j)[d] \/ (d = Parent[c] /\ i = j)
        BY <1>1, <1>2, <1>4, <2>2 DEF With
      <3>2. \A i : i \in Without(queue, {c}, j)[d] <=> i \in queue[d] /\ ~(d = c /\ i = j)
        BY <1>4 DEF Without
      <3>. QED
        BY <2>2, <3>1, <3>2
    <2>. QED
      BY <2>1, <2>2
  <1>5. /\ running' \in Placements
        /\ \A d \in Channel :
             /\ j \in running'[d] <=> d = c \/ j \in running[d]
             /\ \A i \in Job : i # j => (i \in running'[d] <=> i \in running[d])
    BY <1>1, <1>2, WithEffect
  <1>6. SameBut(j, queue, running, failed, queue', running', failed')
    BY <1>2, <1>4, <1>5 DEF SameBut
  <1>. QED
    BY <1>1, <1>2, <1>3, <1>4, <1>5, <1>6

-----------------------------------------------------------------------------
(* Types *)

LEMMA TypeInit == ChInit => ChTypeOK
  BY BlankType DEF ChInit, ChTypeOK, Phases

LEMMA RowTypes ==
  ASSUME ChTypeOK, FourPlaces, NEW j \in Job,
         \/ \E attr \in Attr, s \in States : HandleRow(j, attr, s)
         \/ HandleMissingRow(j)
  PROVE  ChTypeOK'
  <1>1. /\ queue' \in Placements /\ running' \in Placements /\ failed' \in Placements
        /\ info' \in [Job -> Attr]
    <2>1. CASE HandleMissingRow(j)
      <3>1. RemoveJob(j)
        BY <2>1 DEF HandleMissingRow
      <3>. QED
        BY <3>1, RemoveJobEffect, BlankType DEF ChTypeOK
    <2>2. ASSUME NEW attr \in Attr, NEW s \in States, HandleRow(j, attr, s)
          PROVE  /\ queue' \in Placements /\ running' \in Placements
                 /\ failed' \in Placements
                 /\ info' \in [Job -> Attr]
      <3>1. Notify(j, attr, s)
        BY <2>2 DEF HandleRow
      <3>. QED
        BY <3>1, NotifyEffect, BlankType DEF ChTypeOK
    <2>. QED
      BY <2>1, <2>2
  <1>2. UNCHANGED <<pause, todo, passNow, clock, phase, lastPass>>
    BY DEF HandleRow, HandleMissingRow
  <1>. QED
    BY <1>1, <1>2 DEF ChTypeOK, Placements

LEMMA PassTypes ==
  ASSUME ChTypeOK, PassStep
  PROVE  ChTypeOK'
  <1>1. passNow \in Nat /\ Throttle \in [Channel -> Nat]
    BY ConfigAssumption DEF ChTypeOK
  <1>2. phase' \in Phases /\ clock' \in Nat
    BY DEF PassStep, ChTypeOK, Phases
  <1>3. ASSUME NEW c \in Channel, Exhaust(c)
        PROVE  ChTypeOK'
    <2>1. info' \in [Job -> Attr]
      <3>1. info \in [Job -> Attr] /\ Ripened(c, passNow) \in [Job -> Attr]
        BY <1>1, RipenedEffect DEF ChTypeOK
      <3>. QED
        BY <1>3, <3>1, ExhaustEffect
    <2>. QED
      BY <1>1, <1>2, <1>3, <2>1, ExhaustEffect DEF ChTypeOK
  <1>4. ASSUME NEW c \in Channel, NEW j \in queue[c], LetThrough(c, j)
        PROVE  ChTypeOK'
    <2>1. /\ info' \in [Job -> Attr]
          /\ queue' \in Placements /\ running' \in Placements /\ failed' = failed
      BY <1>1, <1>4, LetThroughEffect, RipenedEffect
    <2>2. /\ pause' \in [Channel -> Nat] /\ lastPass' \in [Channel -> Nat]
          /\ todo' \subseteq Channel /\ passNow' \in Nat
      BY <1>1, <1>4 DEF LetThrough, ChTypeOK
    <2>. QED
      BY <1>2, <2>1, <2>2 DEF ChTypeOK, Placements
  <1>. QED
    BY <1>3, <1>4 DEF PassStep

LEMMA TypeNext ==
  ASSUME ChTypeOK, FourPlaces, [ChStep]_chVars
  PROVE  ChTypeOK'
  <1>1. CASE Open
    BY <1>1 DEF Open, ChTypeOK, Phases, placement
  <1>2. CASE RunJobs
    BY <1>2 DEF RunJobs, BeginPass, ChTypeOK, Phases, placement
  <1>3. CASE WakeUp
    BY <1>3 DEF WakeUp, ChTypeOK, Phases, placement
  <1>4. CASE Close
    BY <1>4, BlankType DEF Close, RemoveDb, ChTypeOK, Phases, placement
  <1>5. CASE Tick
    BY <1>5 DEF Tick, ChTypeOK, Phases, placement
  <1>6. CASE UNCHANGED chVars
    BY <1>6 DEF chVars, ChTypeOK
  <1>. QED
    BY <1>1, <1>2, <1>3, <1>4, <1>5, <1>6, RowTypes, PassTypes DEF ChStep

-----------------------------------------------------------------------------
(* Places *)

\* The jobs a step does not move are where they were.
LEMMA StillInPlace ==
  ASSUME NEW j \in Job, NEW l, NEW Q, NEW R, NEW F, NEW Q2, NEW R2, NEW F2,
         InPlace(j, l, Q, R, F),
         \A c \in Channel : /\ j \in Q2[c] <=> j \in Q[c]
                            /\ j \in R2[c] <=> j \in R[c]
                            /\ j \in F2[c] <=> j \in F[c]
  PROVE  InPlace(j, l, Q2, R2, F2)
  BY DEF InPlace, Nowhere, InLeaf, OnItsWay, LetGo

\* A job let through by c is on its way to the next channel, or let go.
LEMMA LetThroughPlaces ==
  ASSUME ChTypeOK, FourPlaces, NEW c \in Channel, NEW j \in queue[c], LetThrough(c, j)
  PROVE  /\ info[j].channel \in Channel /\ c \in Above[info[j].channel]
         /\ OnItsWay(j, info[j].channel, c, queue, running, failed)
         /\ c = Root => LetGo(j, info[j].channel, queue', running', failed')
         /\ c # Root => /\ Parent[c] \in Above[info[j].channel]
                        /\ OnItsWay(j, info[j].channel, Parent[c], queue', running', failed')
  <1>. DEFINE l == info[j].channel
              p == Parent[c]
  <1>1. /\ j \in Job /\ l \in Channel
        /\ InPlace(j, l, queue, running, failed)
    BY DEF ChTypeOK, Attr, FourPlaces
  <1>2. c \in Above[l] /\ OnItsWay(j, l, c, queue, running, failed)
    <2>1. /\ ~Nowhere(j, queue, running, failed) /\ ~InLeaf(j, l, queue, running, failed)
          /\ ~LetGo(j, l, queue, running, failed)
      BY DEF Nowhere, InLeaf, LetGo
    <2>2. PICK q \in Above[l] : OnItsWay(j, l, q, queue, running, failed)
      BY <1>1, <2>1 DEF InPlace
    <2>3. q = c
      BY <2>2 DEF OnItsWay
    <2>. QED
      BY <2>2, <2>3
  <1>3. \A d \in Channel :
          /\ j \in running'[d] <=> d = c \/ (d \in Above[l] /\ c \in Above[d] /\ d # c)
          /\ j \in queue'[d] <=> c # Root /\ d = p
          /\ j \notin failed'[d]
    BY <1>2, LetThroughEffect DEF OnItsWay
  <1>4. \A d \in Channel : Root \in Above[d]
    BY AboveBasics
  <1>5. c = Root => LetGo(j, l, queue', running', failed')
    BY <1>2, <1>3, <1>4 DEF LetGo
  <1>6. ASSUME c # Root
        PROVE  p \in Above[l] /\ OnItsWay(j, l, p, queue', running', failed')
    <2>1. /\ p \in Channel /\ p # c
          /\ Above[c] = {c} \cup Above[p]
          /\ p \in Above[p]
      BY <1>6, AboveParent, NoLoop, AboveBasics
    <2>2. p \in Above[l]
      BY <1>1, <1>2, <1>6, AboveBasics
    <2>3. ASSUME NEW d \in Channel, d \in Above[l], p \in Above[d], d # p
          PROVE  d = c \/ c \in Above[d]
      <3>1. d \in Above[c] \/ c \in Above[d]
        BY <1>1, <1>2, <2>3, AboveChain
      <3>2. ~(d \in Above[p])
        BY <2>1, <2>3, AboveAntisymmetric
      <3>. QED
        BY <2>1, <3>1, <3>2
    <2>4. ASSUME NEW d \in Channel, c \in Above[d]
          PROVE  p \in Above[d] /\ d # p
      <3>1. p \in Above[d]
        BY <2>1, <2>4, AboveTransitive
      <3>2. d # p
        BY <2>1, <2>4, AboveAntisymmetric
      <3>. QED
        BY <3>1, <3>2
    <2>5. p \in Above[c]
      BY <2>1
    <2>. QED
      BY <1>2, <1>3, <1>6, <2>1, <2>2, <2>3, <2>4, <2>5 DEF OnItsWay
  <1>. QED
    BY <1>1, <1>2, <1>5, <1>6

LEMMA PlacesInit == ChInit => FourPlaces
  BY DEF ChInit, FourPlaces, InPlace, Nowhere

LEMMA PlacesNext ==
  ASSUME ChTypeOK, FourPlaces, [ChStep]_chVars
  PROVE  FourPlaces'
  <1>1. ASSUME UNCHANGED placement
        PROVE  FourPlaces'
    BY <1>1 DEF FourPlaces, placement, InPlace, Nowhere, InLeaf, OnItsWay, LetGo
  <1>2. ASSUME NEW j \in Job, SameBut(j, queue, running, failed, queue', running', failed'),
               \A i \in Job \ {j} : info'[i].channel = info[i].channel,
               InPlace(j, info'[j].channel, queue', running', failed')
        PROVE  FourPlaces'
    <2>1. ASSUME NEW i \in Job \ {j}
          PROVE  InPlace(i, info'[i].channel, queue', running', failed')
      <3>1. InPlace(i, info'[i].channel, queue, running, failed)
        BY <1>2 DEF FourPlaces
      <3>. QED
        BY <1>2, <3>1, StillInPlace DEF SameBut
    <2>2. \A i \in Job : InPlace(i, info'[i].channel, queue', running', failed')
      BY <1>2, <2>1
    <2>. QED
      BY <2>2 DEF FourPlaces, InPlace, Nowhere, InLeaf, OnItsWay, LetGo
  <1>3. ASSUME NEW j \in Job, NEW attr \in Attr, NEW s \in States, HandleRow(j, attr, s)
        PROVE  FourPlaces'
    <2>1. Notify(j, attr, s)
      BY <1>3 DEF HandleRow
    <2>2. /\ SameBut(j, queue, running, failed, queue', running', failed')
          /\ InPlace(j, attr.channel, queue', running', failed')
          /\ info' = [info EXCEPT ![j] = IF Nowhere(j, queue', running', failed')
                                        THEN Blank ELSE attr]
      BY <2>1, NotifyEffect DEF Nowhere
    <2>3. InPlace(j, info'[j].channel, queue', running', failed')
      BY <2>2 DEF InPlace, ChTypeOK
    <2>4. \A i \in Job \ {j} : info'[i].channel = info[i].channel
      BY <2>2 DEF ChTypeOK
    <2>. QED
      BY <1>2, <2>2, <2>3, <2>4
  <1>4. ASSUME NEW j \in Job, HandleMissingRow(j)
        PROVE  FourPlaces'
    <2>1. RemoveJob(j)
      BY <1>4 DEF HandleMissingRow
    <2>2. /\ SameBut(j, queue, running, failed, queue', running', failed')
          /\ Nowhere(j, queue', running', failed')
          /\ info' = [info EXCEPT ![j] = Blank]
      BY <2>1, RemoveJobEffect DEF Nowhere
    <2>3. InPlace(j, info'[j].channel, queue', running', failed')
      BY <2>2 DEF InPlace
    <2>4. \A i \in Job \ {j} : info'[i].channel = info[i].channel
      BY <2>2 DEF ChTypeOK
    <2>. QED
      BY <1>2, <2>2, <2>3, <2>4
  <1>5. CASE Close
    BY <1>5 DEF Close, RemoveDb, FourPlaces, InPlace, Nowhere
  <1>6. ASSUME NEW c \in Channel, Exhaust(c)
        PROVE  FourPlaces'
    <2>1. passNow \in Nat
      BY DEF ChTypeOK
    <2>2. \A i \in Job : info'[i].channel = info[i].channel
      BY <1>6, <2>1, ExhaustEffect, RipenedEffect
    <2>3. UNCHANGED <<queue, running, failed>>
      BY <1>6, ExhaustEffect
    <2>. QED
      BY <2>2, <2>3 DEF FourPlaces, InPlace, Nowhere, InLeaf, OnItsWay, LetGo
  <1>7. ASSUME NEW c \in Channel, NEW j \in queue[c], LetThrough(c, j)
        PROVE  FourPlaces'
    <2>1. passNow \in Nat /\ j \in Job
      BY DEF ChTypeOK
    <2>2. \A i \in Job : info'[i].channel = info[i].channel
      BY <1>7, <2>1, LetThroughEffect, RipenedEffect
    <2>3. SameBut(j, queue, running, failed, queue', running', failed')
      BY <1>7, LetThroughEffect
    <2>4. InPlace(j, info'[j].channel, queue', running', failed')
      BY <1>7, <2>1, <2>2, LetThroughPlaces DEF InPlace
    <2>. QED
      BY <1>2, <2>1, <2>2, <2>3, <2>4
  <1>. QED
    BY <1>1, <1>3, <1>4, <1>5, <1>6, <1>7
    DEF ChStep, Open, RunJobs, BeginPass, PassStep, WakeUp, Tick, chVars, placement

\* The four places are what Placement says of a job.
LEMMA PlacesImplyPlacement ==
  ASSUME ChTypeOK, FourPlaces
  PROVE  Placement
  <1>1. \A j \in Job : /\ info[j].channel \in Channel
                       /\ InPlace(j, info[j].channel, queue, running, failed)
    BY DEF ChTypeOK, Attr, FourPlaces
  <1>2. \A j \in Job : Above[info[j].channel] \subseteq Channel
                       /\ info[j].channel \in Above[info[j].channel]
    BY <1>1, AboveBasics
  <1>3. OnlyOnPath
    BY <1>1, <1>2 DEF OnlyOnPath, InPlace, Nowhere, InLeaf, OnItsWay, LetGo
  <1>4. FailedInLeaf
    BY <1>1 DEF FailedInLeaf, InPlace, Nowhere, InLeaf, OnItsWay, LetGo
  <1>5. QueuedOnce
    <2>. SUFFICES ASSUME NEW j \in Job, NEW c \in Channel, j \in queue[c]
                  PROVE  /\ \A d \in Above[c] : j \notin running[d]
                         /\ \A d \in Above[c] \ {c} : j \notin queue[d]
                         /\ \A d \in Above[info[j].channel] :
                              c \in Above[d] /\ d # c => j \in running[d]
      BY DEF QueuedOnce
    <2>. DEFINE l == info[j].channel
    <2>1. OnItsWay(j, l, c, queue, running, failed)
      BY <1>1 DEF InPlace, Nowhere, InLeaf, OnItsWay, LetGo
    <2>2. \A d \in Above[c] : d \in Channel /\ (c \in Above[d] => d = c)
      BY AboveBasics, AboveAntisymmetric
    <2>. QED
      BY <1>2, <2>1, <2>2 DEF OnItsWay
  <1>6. RunningDownstream
    <2>. SUFFICES ASSUME NEW j \in Job, NEW c \in Channel, j \in running[c], c # Root
                  PROVE  j \in running[Parent[c]] \cup queue[Parent[c]]
      BY DEF RunningDownstream
    <2>. DEFINE l == info[j].channel
    <2>1. /\ Parent[c] \in Channel
          /\ Above[c] = {c} \cup Above[Parent[c]]
      BY AboveParent
    <2>2. c \in Above[l]
      BY <1>1 DEF InPlace, Nowhere, InLeaf, OnItsWay, LetGo
    <2>3. Parent[c] \in Above[l]
      BY <1>1, <2>2, AboveBasics
    <2>. QED
      BY <1>1, <2>1, <2>3 DEF InPlace, Nowhere, InLeaf, OnItsWay, LetGo
  <1>. QED
    BY <1>3, <1>4, <1>5, <1>6 DEF Placement

-----------------------------------------------------------------------------
(* Orders *)

\* A strict order has a minimal element in every finite set.
LEMMA FiniteMinimum ==
  ASSUME NEW T, IsFiniteSet(T), T # {}, NEW R,
         \A x \in T : <<x, x>> \notin R,
         \A x, y, z \in T : <<x, y>> \in R /\ <<y, z>> \in R => <<x, z>> \in R
  PROVE  \E m \in T : \A x \in T : <<x, m>> \notin R
  <1>. DEFINE Down(x) == {y \in T : <<y, x>> \in R}
              D == {Down(x) : x \in T}
  <1>1. IsWellFoundedOn(StrictSubsetOrdering(T), SUBSET T)
    BY FS_StrictSubsetOrderingWellFounded, FS_FiniteSubsetsOfFinite
  <1>2. D \subseteq SUBSET T /\ D # {}
    <2>1. PICK x \in T : TRUE
      OBVIOUS
    <2>2. Down(x) \in D
      BY <2>1
    <2>3. \A y \in T : Down(y) \in SUBSET T
      OBVIOUS
    <2>4. ASSUME NEW d \in D
          PROVE  d \in SUBSET T
      <3>1. PICK y \in T : d = Down(y)
        OBVIOUS
      <3>. QED
        BY <2>3, <3>1
    <2>. HIDE DEF D
    <2>. QED
      BY <2>2, <2>4
  <1>3. PICK d \in D : \A e \in D : <<e, d>> \notin StrictSubsetOrdering(T)
    <2>. HIDE DEF D
    <2>. QED
      BY <1>1, <1>2, WFMin
  <1>4. PICK m \in T : d = Down(m)
    BY <1>3
  <1>5. ASSUME NEW x \in T, <<x, m>> \in R
        PROVE  FALSE
    <2>1. Down(x) \subseteq Down(m) /\ x \in Down(m) /\ x \notin Down(x)
      BY <1>5
    <2>2. <<Down(x), Down(m)>> \in StrictSubsetOrdering(T)
      BY <2>1 DEF StrictSubsetOrdering
    <2>. QED
      BY <1>3, <1>4, <2>2
  <1>. QED
    BY <1>5

\* Every set of numbers has a least one.
LEMMA LeastNumber ==
  ASSUME NEW S \in SUBSET Nat, S # {}
  PROVE  \E m \in S : \A x \in S : m <= x
  <1>1. PICK n \in S : TRUE
    OBVIOUS
  <1>. DEFINE T == {x \in S : x <= n}
              R == {p \in T \X T : p[1] < p[2]}
  <1>2. IsFiniteSet(T) /\ T # {} /\ T \subseteq Nat
    <2>1. T \subseteq Nat /\ (\A x \in T : x <= n) /\ n \in Nat
      OBVIOUS
    <2>2. n \in T
      BY <2>1
    <2>. HIDE DEF T
    <2>3. IsFiniteSet(T)
      BY <2>1, FS_BoundedSetOfNaturals
    <2>. QED
      BY <2>1, <2>2, <2>3
  <1>3. \A x, y \in T : <<x, y>> \in R <=> x < y
    OBVIOUS
  <1>4. PICK m \in T : \A x \in T : <<x, m>> \notin R
    <2>1. \A x \in T : <<x, x>> \notin R
      BY <1>2, <1>3
    <2>2. \A x, y, z \in T : <<x, y>> \in R /\ <<y, z>> \in R => <<x, z>> \in R
      BY <1>2, <1>3
    <2>. HIDE DEF T, R
    <2>. QED
      BY <1>2, <2>1, <2>2, FiniteMinimum
  <1>5. m \in Nat /\ m <= n /\ n \in Nat /\ m \in S
    BY <1>4
  <1>6. ASSUME NEW x \in S
        PROVE  m <= x
    <2>1. x \in Nat
      OBVIOUS
    <2>2. CASE x <= n
      <3>1. x \in T
        BY <2>2
      <3>2. ~(x < m)
        BY <1>3, <1>4, <3>1
      <3>. QED
        BY <1>5, <2>1, <3>2
    <2>. QED
      BY <1>5, <2>1, <2>2
  <1>. QED
    BY <1>5, <1>6

\* Priorities, then creation: a total order on the jobs.
LEMMA BeforeOrders ==
  ASSUME ChTypeOK, NEW i \in Job, NEW j \in Job
  PROVE  /\ ~(Before(i, j) /\ Before(j, i))
         /\ i # j => Before(i, j) \/ Before(j, i)
         /\ \A k \in Job : Before(i, j) /\ Before(j, k) => Before(i, k)
  <1>1. \A k \in Job : info[k].priority \in Nat /\ Seq[k] \in Nat
    BY JobAssumption DEF ChTypeOK, Attr
  <1>2. Seq[i] = Seq[j] => i = j
    BY JobAssumption
  <1>. QED
    BY <1>1, <1>2 DEF Before

LEMMA FirstOfJobs ==
  ASSUME ChTypeOK, NEW T \in SUBSET Job, T # {}
  PROVE  \E m \in T : \A i \in T \ {m} : Before(m, i)
  <1>. DEFINE R == {p \in Job \X Job : Before(p[1], p[2])}
  <1>1. \A x, y \in Job : <<x, y>> \in R <=> Before(x, y)
    OBVIOUS
  <1>2. IsFiniteSet(T)
    BY JobAssumption, FS_Subset
  <1>3. \A x \in T : <<x, x>> \notin R
    BY <1>1, BeforeOrders
  <1>4. \A x, y, z \in T : <<x, y>> \in R /\ <<y, z>> \in R => <<x, z>> \in R
    BY <1>1, BeforeOrders
  <1>5. PICK m \in T : \A x \in T : <<x, m>> \notin R
    <2>. HIDE DEF R
    <2>. QED
      BY <1>2, <1>3, <1>4, FiniteMinimum
  <1>. QED
    BY <1>1, <1>5, BeforeOrders

-----------------------------------------------------------------------------
(* The pass *)

LEMMA PassShapeInit == ChInit => PassShape
  BY DEF ChInit, PassShape

\* When it is the root's turn, no other channel is left.
LEMMA RootLast ==
  ASSUME ChTypeOK, PassShape, Turn(Root)
  PROVE  todo = {Root}
  <1>. SUFFICES ASSUME NEW x \in todo, x # Root
                PROVE  FALSE
    BY DEF Turn
  <1>1. x \in Channel /\ todo \subseteq Channel
    BY DEF ChTypeOK
  <1>2. Above[x] \subseteq todo
    BY <1>1, AboveLeast DEF PassShape
  <1>. DEFINE S == Above[x] \ {Root}
  <1>3. \A y \in S : Parent[y] \in S
    BY <1>1, <1>2, AboveBasics DEF Turn
  <1>4. S \in SUBSET Channel /\ x \in S
    BY <1>1, AboveBasics
  <1>5. Above[x] \subseteq S
    <2>. HIDE DEF S
    <2>. QED
      BY <1>1, <1>3, <1>4, AboveLeast
  <1>. QED
    BY <1>1, <1>5, AboveBasics

LEMMA PassShapeNext ==
  ASSUME ChTypeOK, PassShape, [ChStep]_chVars
  PROVE  PassShape'
  <1>0. passNow \in Nat /\ clock \in Nat /\ Root \in Channel /\ todo \subseteq Channel
    BY TreeAssumption DEF ChTypeOK
  <1>1. CASE PassStep
    <2>1. PICK c \in Channel : /\ Turn(c)
                               /\ todo' = todo \ {c} \/ todo' = todo
                               /\ passNow' = IF todo' = {} THEN 0 ELSE passNow
      BY <1>1 DEF PassStep, Exhaust, LetThrough
    <2>2. \A d \in todo' \ {Root} : Parent[d] \in todo'
      BY <2>1 DEF PassShape, Turn
    <2>3. /\ phase' = IF Root \in todo' THEN "pass" ELSE "asleep"
          /\ clock' = clock
          /\ phase = "pass"
      BY <1>1 DEF PassStep
    <2>4. Root \notin todo' => todo' = {}
      <3>1. ASSUME Root \notin todo'
            PROVE  Turn(Root) /\ todo' = todo \ {Root}
        BY <2>1, <2>3, <3>1 DEF PassShape
      <3>. QED
        BY <3>1, RootLast
    <2>. QED
      BY <1>0, <2>1, <2>2, <2>3, <2>4 DEF PassShape
  <1>2. CASE RunJobs
    BY <1>0, <1>2, TreeAssumption DEF RunJobs, BeginPass, PassShape
  <1>3. CASE Close
    BY <1>0, <1>3 DEF Close, PassShape
  <1>4. CASE Tick
    BY <1>0, <1>4 DEF Tick, PassShape
  <1>5. CASE Open \/ WakeUp
    BY <1>0, <1>5 DEF Open, WakeUp, PassShape
  <1>6. ASSUME UNCHANGED <<todo, passNow, clock, phase>>
        PROVE  PassShape'
    BY <1>6 DEF PassShape
  <1>. QED
    BY <1>1, <1>2, <1>3, <1>4, <1>5, <1>6 DEF ChStep, chVars, HandleRow, HandleMissingRow

LEMMA PauseInit == ChInit => PauseCovers
  BY ConfigAssumption DEF ChInit, PauseCovers

LEMMA PauseNext ==
  ASSUME ChTypeOK, PassShape, PauseCovers, [ChStep]_chVars
  PROVE  PauseCovers'
  <1>0. /\ passNow \in Nat /\ clock \in Nat /\ todo \subseteq Channel
        /\ passNow <= clock
        /\ \A c \in Channel : pause[c] \in Nat /\ lastPass[c] \in Nat /\ Throttle[c] \in Nat
        /\ pause \in [Channel -> Nat] /\ lastPass \in [Channel -> Nat]
    BY ConfigAssumption DEF ChTypeOK, PassShape
  <1>1. ASSUME NEW c \in Channel, Exhaust(c), clock' = clock
        PROVE  PauseCovers'
    <2>1. /\ UNCHANGED lastPass
          /\ c \in todo /\ todo' = todo \ {c}
          /\ passNow' = passNow \/ todo' = {}
          /\ \/ pause' = pause
             \/ pause' = [pause EXCEPT ![c] = 0] /\ ~Paused(c)
      BY <1>1 DEF Exhaust, Turn
    <2>. QED
      BY <1>0, <1>1, <2>1 DEF PauseCovers, Paused
  <1>2. ASSUME NEW c \in Channel, NEW j \in queue[c], LetThrough(c, j), clock' = clock
        PROVE  PauseCovers'
    <2>1. /\ todo' \subseteq todo
          /\ passNow' = passNow \/ todo' = {}
          /\ pause' = [pause EXCEPT ![c] = IF Throttle[c] > 0 THEN passNow + Throttle[c] ELSE 0]
          /\ lastPass' = [lastPass EXCEPT ![c] = IF Throttle[c] > 0 THEN passNow ELSE 0]
      BY <1>2 DEF LetThrough
    <2>. QED
      BY <1>0, <1>2, <2>1 DEF PauseCovers
  <1>3. CASE RunJobs
    BY <1>0, <1>3 DEF RunJobs, BeginPass, PauseCovers
  <1>4. CASE Close
    BY <1>0, <1>4 DEF Close, PauseCovers
  <1>5. CASE Tick
    BY <1>0, <1>5 DEF Tick, PauseCovers
  <1>6. ASSUME UNCHANGED <<todo, passNow, clock, pause, lastPass>>
        PROVE  PauseCovers'
    BY <1>6 DEF PauseCovers
  <1>. QED
    BY <1>1, <1>2, <1>3, <1>4, <1>5, <1>6
    DEF ChStep, chVars, HandleRow, HandleMissingRow, PassStep, Open, WakeUp

-----------------------------------------------------------------------------
(* What a pass leaves in the queues *)

\* A job is queued in one channel only.
LEMMA OneQueue ==
  ASSUME ChTypeOK, FourPlaces, NEW c \in Channel, NEW d \in Channel, c # d,
         NEW i \in queue[c]
  PROVE  i \in Job /\ i \notin queue[d]
  <1>1. i \in Job
    BY DEF ChTypeOK
  <1>. QED
    BY <1>1 DEF FourPlaces, InPlace, Nowhere, InLeaf, OnItsWay, LetGo

\* A channel that a step does not touch stays spent.
LEMMA SpentStays ==
  ASSUME ChTypeOK, NEW d \in Channel, Spent(d),
         queue'[d] = queue[d], running'[d] = running[d], failed'[d] = failed[d],
         pause'[d] = pause[d], \A i \in queue[d] : info'[i] = info[i],
         passNow' = passNow \/ passNow' = 0
  PROVE  Spent(d)'
  <1>1. /\ passNow \in Nat /\ passNow' \in Nat /\ passNow' <= passNow
        /\ pause[d] \in Nat
        /\ \A i \in queue[d] : i \in Job /\ info[i].eta \in Nat
    BY DEF ChTypeOK, Attr
  <1>2. HasCapacity(d)' <=> HasCapacity(d)
    BY DEF HasCapacity
  <1>3. ASSUME NEW i \in queue[d], HeldBack(d, i, 0)
        PROVE  HeldBack(d, i, 0)'
    BY <1>3 DEF HeldBack, Later, Due, EtaBefore, Before
  <1>4. CASE pause[d] > passNow
    BY <1>1, <1>4 DEF Spent
  <1>5. CASE ~HasCapacity(d)
    BY <1>2, <1>5 DEF Spent
  <1>6. CASE \A i \in queue[d] : info[i].eta > passNow \/ (info[i].eta = 0 /\ HeldBack(d, i, 0))
    <2>1. ASSUME NEW i \in queue'[d]
          PROVE  info'[i].eta > passNow' \/ (info'[i].eta = 0 /\ HeldBack(d, i, 0)')
      BY <1>1, <1>3, <1>6
    <2>. QED
      BY <2>1 DEF Spent
  <1>. QED
    BY <1>4, <1>5, <1>6 DEF Spent

\* The generator of a channel stops when nothing can be let through.
LEMMA ExhaustSpends ==
  ASSUME ChTypeOK, NEW c \in Channel, Exhaust(c)
  PROVE  Spent(c)'
  <1>1. /\ passNow \in Nat /\ passNow' \in Nat /\ passNow' <= passNow
        /\ pause[c] \in Nat
        /\ queue[c] \in SUBSET Job
        /\ \A i \in Job : info[i].eta \in Nat
        /\ UNCHANGED <<queue, running, failed>>
    BY DEF ChTypeOK, Attr, Exhaust
  <1>2. CASE Paused(c) /\ pause' = pause
    BY <1>1, <1>2 DEF Spent, Paused
  <1>3. CASE ~HasCapacity(c)
    BY <1>1, <1>3 DEF Spent, HasCapacity
  <1>4. CASE /\ \A j \in queue[c] : ~Pops(c, j, passNow)
             /\ info' = Ripened(c, passNow)
    <2>1. \A i \in Job : /\ info'[i].priority = info[i].priority
                         /\ info'[i].eta = IF i \in Due(c, passNow) THEN 0 ELSE info[i].eta
      BY <1>1, <1>4, RipenedEffect
    <2>2. Later(c, 0)' = Later(c, passNow)
      BY <1>1, <2>1 DEF Later, Due
    <2>3. ASSUME NEW i \in queue[c], i \in Due(c, passNow)
          PROVE  HeldBack(c, i, 0)'
      <3>1. Due(c, passNow) \in SUBSET Job /\ i \in Job
        BY <1>1 DEF Due
      <3>2. PICK m \in Due(c, passNow) : \A k \in Due(c, passNow) \ {m} : Before(m, k)
        BY <2>3, <3>1, FirstOfJobs
      <3>3. HeldBack(c, m, passNow) /\ m \in Job
        BY <1>4, <3>1, <3>2 DEF Pops, Due
      <3>4. PICK e \in Later(c, passNow) :
              /\ \A k \in Later(c, passNow) \ {e} : EtaBefore(e, k)
              /\ Before(e, m)
        BY <3>3 DEF HeldBack
      <3>5. e \in Job
        BY <1>1 DEF Later
      <3>6. Before(e, i)
        BY <2>3, <3>1, <3>2, <3>3, <3>4, <3>5, BeforeOrders
      <3>7. Before(e, i)'
        BY <2>1, <3>1, <3>5, <3>6 DEF Before
      <3>8. \A k \in Later(c, passNow) \ {e} : EtaBefore(e, k)'
        BY <1>1, <2>1, <3>4, <3>5 DEF EtaBefore, Before, Later
      <3>9. c \in Sequential
        BY <3>3 DEF HeldBack
      <3>. QED
        BY <2>2, <3>4, <3>7, <3>8, <3>9 DEF HeldBack
    <2>4. ASSUME NEW i \in queue[c]
          PROVE  info'[i].eta > passNow' \/ (info'[i].eta = 0 /\ HeldBack(c, i, 0)')
      <3>1. CASE i \in Due(c, passNow)
        BY <1>1, <2>1, <2>3, <3>1
      <3>2. CASE i \notin Due(c, passNow)
        BY <1>1, <2>1, <3>2 DEF Due
      <3>. QED
        BY <3>1, <3>2
    <2>. QED
      BY <1>1, <2>4 DEF Spent
  <1>. QED
    BY <1>2, <1>3, <1>4 DEF Exhaust

LEMMA SpentInit == ChInit => DoneIsSpent
  BY DEF ChInit, DoneIsSpent

LEMMA SpentNext ==
  ASSUME ChTypeOK, FourPlaces, PassShape, PassShape', DoneIsSpent, [ChStep]_chVars
  PROVE  DoneIsSpent'
  <1>0. /\ passNow \in Nat
        /\ \A c \in Channel : pause[c] \in Nat /\ Throttle[c] \in Nat
        /\ pause \in [Channel -> Nat]
        /\ info \in [Job -> Attr]
        /\ todo \subseteq Channel
    BY ConfigAssumption DEF ChTypeOK
  <1>1. ASSUME PassStep
        PROVE  DoneIsSpent'
    <2>. SUFFICES ASSUME NEW d \in Channel, d \notin todo'
                  PROVE  Spent(d)'
      BY DEF DoneIsSpent, PassShape
    <2>0. phase = "pass"
      BY <1>1 DEF PassStep
    <2>1. ASSUME NEW c \in Channel, Exhaust(c)
          PROVE  Spent(d)'
      <3>1. CASE d = c
        BY <2>1, <3>1, ExhaustSpends
      <3>2. CASE d # c
        <4>1. Spent(d)
          BY <2>0, <2>1, <3>2, ExhaustEffect DEF DoneIsSpent
        <4>2. \A i \in queue[d] : info'[i] = info[i]
          <5>1. \A i \in queue[d] : i \in Job /\ i \notin queue[c]
            BY <3>2, OneQueue
          <5>2. \A i \in queue[d] : Ripened(c, passNow)[i] = info[i]
            BY <5>1 DEF Ripened, Due
          <5>. QED
            BY <2>1, <5>2, ExhaustEffect
        <4>3. pause'[d] = pause[d]
          BY <1>0, <2>1, <3>2, ExhaustEffect
        <4>. QED
          BY <2>1, <4>1, <4>2, <4>3, SpentStays, ExhaustEffect
      <3>. QED
        BY <3>1, <3>2
    <2>2. ASSUME NEW c \in Channel, NEW j \in queue[c], LetThrough(c, j)
          PROVE  Spent(d)'
      <3>0. /\ Turn(c)
            /\ todo' = IF Throttle[c] > 0 THEN todo \ {c} ELSE todo
            /\ pause' = [pause EXCEPT ![c] = IF Throttle[c] > 0 THEN passNow + Throttle[c] ELSE 0]
            /\ passNow' = passNow \/ passNow' = 0
        BY <2>2 DEF LetThrough
      <3>1. CASE d = c
        <4>1. Throttle[c] > 0
          BY <3>0, <3>1 DEF Turn
        <4>2. pause'[d] > passNow'
          BY <1>0, <3>0, <3>1, <4>1
        <4>. QED
          BY <4>2 DEF Spent
      <3>2. CASE d # c
        <4>1. d \notin todo /\ Spent(d)
          BY <2>0, <3>0, <3>2 DEF DoneIsSpent
        <4>2. \A i \in queue[d] : info'[i] = info[i]
          <5>1. \A i \in queue[d] : i \in Job /\ i \notin queue[c]
            BY <3>2, OneQueue
          <5>2. \A i \in queue[d] : Ripened(c, passNow)[i] = info[i]
            BY <5>1 DEF Ripened, Due
          <5>. QED
            BY <2>2, <5>2, LetThroughEffect
        <4>3. c # Root => d # Parent[c]
          BY <3>0, <4>1 DEF PassShape, Turn
        <4>4. queue'[d] = queue[d] /\ running'[d] = running[d] /\ failed'[d] = failed[d]
          <5>1. /\ running' = With(running, {c}, j) /\ failed' = failed
                /\ queue' = IF c = Root THEN Without(queue, {c}, j)
                            ELSE With(Without(queue, {c}, j), {Parent[c]}, j)
            BY <2>2 DEF LetThrough
          <5>. QED
            BY <3>2, <4>3, <5>1 DEF With, Without
        <4>5. pause'[d] = pause[d]
          BY <1>0, <3>0, <3>2
        <4>. QED
          BY <3>0, <4>1, <4>2, <4>4, <4>5, SpentStays
      <3>. QED
        BY <3>1, <3>2
    <2>. QED
      BY <1>1, <2>1, <2>2 DEF PassStep
  <1>2. CASE RunJobs
    BY <1>2 DEF RunJobs, BeginPass, DoneIsSpent
  <1>3. CASE Tick \/ UNCHANGED chVars
    <2>1. UNCHANGED <<placement, pause, todo, passNow, phase>>
      BY <1>3 DEF Tick, chVars, placement
    <2>. SUFFICES ASSUME NEW d \in Channel, Spent(d)
                  PROVE  Spent(d)'
      BY <2>1 DEF DoneIsSpent
    <2>. QED
      BY <2>1, SpentStays DEF placement
  <1>4. ASSUME phase' \in {"listen", "down"}
        PROVE  DoneIsSpent'
    BY <1>4 DEF DoneIsSpent
  <1>. QED
    BY <1>1, <1>2, <1>3, <1>4
    DEF ChStep, HandleRow, HandleMissingRow, Open, WakeUp, Close

LEMMA ChInvInit == ChInit => ChInv
  BY TypeInit, PlacesInit, PassShapeInit, PauseInit, SpentInit DEF ChInv

LEMMA ChInvNext == ChInv /\ [ChStep]_chVars => ChInv'
  BY TypeNext, PlacesNext, PassShapeNext, PauseNext, SpentNext DEF ChInv

LEMMA ChInvariant == ChSpec => []ChInv
  <1>1. ChInv /\ [ChNext]_chVars => ChInv'
    BY ChInvNext, NextIsStep
  <1>. QED
    BY <1>1, ChInvInit, PTL DEF ChSpec

-----------------------------------------------------------------------------
(* Theorems *)

\* THEOREM: every variable of the scheduler has its type.
THEOREM ChTypeCorrect == ChSpec => []ChTypeOK
  BY ChInvariant, PTL DEF ChInv

\* THEOREM: whatever the notifications, the closed databases and the order of
\* the generators do to the sets of the channels, a job is failed in its leaf,
\* queued in one channel and running before it, or running on its whole path.
THEOREM JobsInPlace == ChSpec => []Placement
  <1>1. ChInv => Placement
    BY PlacesImplyPlacement DEF ChInv
  <1>. QED
    BY <1>1, ChInvariant, PTL

LEMMA OneMore ==
  ASSUME NEW S, IsFiniteSet(S), NEW j, NEW k \in Nat, k = 0 \/ Cardinality(S) < k
  PROVE  k = 0 \/ Cardinality(S \cup {j}) <= k
  <1>1. /\ IsFiniteSet(S \cup {j})
        /\ Cardinality(S \cup {j}) = IF j \in S THEN Cardinality(S) ELSE Cardinality(S) + 1
    BY FS_AddElement
  <1>2. Cardinality(S) \in Nat /\ Cardinality(S \cup {j}) \in Nat
    BY <1>1, FS_CardinalityType
  <1>. QED
    BY <1>1, <1>2

LEMMA LetThroughFits ==
  ASSUME ChTypeOK, NEW c \in Channel, NEW j \in queue[c], LetThrough(c, j)
  PROVE  Capacity[c] = 0 \/ Cardinality(running'[c]) <= Capacity[c]
  <1>1. HasCapacity(c) /\ running'[c] = running[c] \cup {j}
    BY DEF LetThrough, With
  <1>2. IsFiniteSet(running[c])
    <2>1. running[c] \in SUBSET Job
      BY DEF ChTypeOK
    <2>. QED
      BY <2>1, JobAssumption, FS_Subset
  <1>3. Capacity[c] \in Nat
    BY ConfigAssumption
  <1>4. Capacity[c] = 0 \/ Cardinality(running[c]) < Capacity[c]
    BY <1>1 DEF HasCapacity
  <1>5. Capacity[c] = 0 \/ Cardinality(running[c] \cup {j}) <= Capacity[c]
    BY <1>2, <1>3, <1>4, OneMore
  <1>. QED
    BY <1>1, <1>5

\* THEOREM: whatever passes, pauses, errors and restarts come between, a
\* throttled channel does not hand a job on sooner than its throttle after the
\* one before (a job the runner failed to enqueue is not handed on).
THEOREM ThrottleSpaces == ChSpec => ThrottleSpacing
  <1>. DEFINE Spaced == phase = "pass" =>
                          \A c \in Channel : \/ running'[c] \subseteq running[c]
                                             \/ lastPass[c] = 0
                                             \/ passNow >= lastPass[c] + Throttle[c]
  <1>1. ASSUME ChInv, [ChStep]_chVars
        PROVE  Spaced
    <2>. SUFFICES ASSUME phase = "pass", NEW d \in Channel
                  PROVE  \/ running'[d] \subseteq running[d]
                         \/ lastPass[d] = 0
                         \/ passNow >= lastPass[d] + Throttle[d]
      OBVIOUS
    <2>1. ASSUME NEW c \in Channel, NEW j \in queue[c], LetThrough(c, j)
          PROVE  \/ running'[d] \subseteq running[d]
                 \/ lastPass[d] = 0
                 \/ passNow >= lastPass[d] + Throttle[d]
      <3>1. /\ ~Paused(c) /\ Turn(c)
            /\ d # c => running'[d] = running[d]
        BY <2>1 DEF LetThrough, With
      <3>2. /\ passNow \in Nat /\ pause[d] \in Nat /\ lastPass[d] \in Nat
            /\ Throttle[d] \in Nat
        BY <1>1, ConfigAssumption DEF ChInv, ChTypeOK
      <3>. QED
        BY <1>1, <3>1, <3>2 DEF ChInv, PauseCovers, Paused, Turn
    <2>2. ASSUME NEW c \in Channel, Exhaust(c)
          PROVE  running' = running
      BY <2>2 DEF Exhaust
    <2>3. CASE Close
      BY <2>3 DEF Close, RemoveDb
    <2>. QED
      BY <1>1, <2>1, <2>2, <2>3
      DEF ChStep, chVars, PassStep, HandleRow, HandleMissingRow, Open, RunJobs, WakeUp, Tick,
          placement
  <1>2. ChInv /\ [ChNext]_chVars => [Spaced]_chVars
    BY <1>1, NextIsStep
  <1>. QED
    BY <1>2, ChInvariant, PTL DEF ChSpec, ThrottleSpacing

\* THEOREM: no job of higher priority that is due is overtaken, but in a
\* channel that is full, paused or held back by its order.
THEOREM NobodyOvertaken == ChSpec => NoInversion
  <1>. DEFINE Fair == phase = "pass" =>
         \A j \in running'[Root] \ running[Root], c \in Channel :
           \A i \in Due(c, passNow) \ {j} :
             Before(i, j) =>
               \E d \in Above[c] \ {Root} :
                 Paused(d) \/ ~HasCapacity(d) \/ HeldBack(d, i, passNow)
  <1>1. ASSUME ChInv, [ChStep]_chVars
        PROVE  Fair
    <2>. SUFFICES ASSUME phase = "pass", NEW j \in running'[Root], j \notin running[Root],
                         NEW c \in Channel, NEW i \in Due(c, passNow), i # j,
                         Before(i, j)
                  PROVE  \E d \in Above[c] \ {Root} :
                           Paused(d) \/ ~HasCapacity(d) \/ HeldBack(d, i, passNow)
      OBVIOUS
    <2>0. /\ ChTypeOK /\ PassShape /\ Root \in Channel
          /\ passNow \in Nat /\ pause[c] \in Nat /\ Throttle[c] \in Nat
          /\ i \in queue[c] /\ i \in Job /\ info[i].eta <= passNow
          /\ \A k \in Job : info[k].eta \in Nat
          /\ queue[c] \subseteq Job
      BY <1>1, ConfigAssumption, TreeAssumption DEF ChInv, ChTypeOK, Attr, Due
    <2>1. PICK k \in queue[Root] : LetThrough(Root, k)
      <3>1. ASSUME NEW d \in Channel, NEW k \in queue[d], LetThrough(d, k)
            PROVE  d = Root
        BY <2>0, <3>1 DEF LetThrough, With
      <3>2. ASSUME NEW d \in Channel, Exhaust(d)
            PROVE  FALSE
        BY <3>2 DEF Exhaust
      <3>3. CASE Close
        BY <2>0, <3>3 DEF Close, RemoveDb
      <3>. QED
        BY <1>1, <3>1, <3>2, <3>3
        DEF ChStep, chVars, PassStep, HandleRow, HandleMissingRow, Open, RunJobs, WakeUp, Tick,
            placement
    <2>2. j = k /\ Pops(Root, j, passNow) /\ Turn(Root)
      BY <2>0, <2>1 DEF LetThrough, With
    <2>3. j \in Job
      BY <2>0, <2>1, <2>2 DEF ChTypeOK
    <2>4. c # Root
      <3>. SUFFICES ASSUME c = Root
                    PROVE  FALSE
        OBVIOUS
      <3>1. Before(j, i)
        BY <2>2 DEF Pops
      <3>. QED
        BY <2>0, <2>3, <3>1, BeforeOrders
    <2>5. Spent(c)
      <3>1. c \notin todo
        BY <2>0, <2>2, <2>4, RootLast
      <3>. QED
        BY <1>1, <3>1 DEF ChInv, DoneIsSpent
    <2>6. c \in Above[c] \ {Root}
      BY <2>4, AboveBasics
    <2>7. CASE pause[c] > passNow
      <3>1. Paused(c)
        BY <1>1, <2>0, <2>7 DEF Paused, ChInv, PauseCovers
      <3>. QED
        BY <2>6, <3>1
    <2>8. CASE ~HasCapacity(c)
      BY <2>6, <2>8
    <2>9. CASE \A x \in queue[c] : info[x].eta > passNow \/ (info[x].eta = 0 /\ HeldBack(c, x, 0))
      <3>1. HeldBack(c, i, 0)
        BY <2>0, <2>9
      <3>2. Later(c, passNow) = Later(c, 0)
        BY <2>0, <2>9 DEF Later, Due
      <3>3. HeldBack(c, i, passNow)
        BY <3>1, <3>2 DEF HeldBack
      <3>. QED
        BY <2>6, <3>3
    <2>. QED
      BY <2>5, <2>7, <2>8, <2>9 DEF Spent
  <1>2. ChInv /\ [ChNext]_chVars => [Fair]_chVars
    BY <1>1, NextIsStep
  <1>. QED
    BY <1>2, ChInvariant, PTL DEF ChSpec, NoInversion

-----------------------------------------------------------------------------
(* The wake-up time *)

\* Of the paused channels above c, one has no paused channel above it.
LEMMA LastPaused ==
  ASSUME ChTypeOK, NEW c \in Channel, NEW d \in Above[c], pause[d] > 0
  PROVE  \E t \in Above[c] : pause[t] > 0 /\ \A x \in Above[t] \ {t} : pause[x] = 0
  <1>. SUFFICES ASSUME \A t \in Above[c] : pause[t] > 0 =>
                         \E x \in Above[t] \ {t} : pause[x] # 0
                PROVE  FALSE
    OBVIOUS
  <1>. DEFINE S == {x \in Above[c] : \E y \in Above[x] : pause[y] > 0}
  <1>0. \A x \in Channel : pause[x] \in Nat
    BY DEF ChTypeOK
  <1>1. c \in S /\ S \in SUBSET Channel
    BY AboveBasics
  <1>2. ASSUME NEW x \in S \ {Root}
        PROVE  Parent[x] \in S
    <2>1. /\ x \in Channel /\ Parent[x] \in Channel
          /\ Above[x] = {x} \cup Above[Parent[x]]
          /\ Parent[x] \in Above[c]
      BY <1>1, AboveParent, AboveBasics
    <2>2. PICK y \in Above[x] : pause[y] > 0
      OBVIOUS
    <2>3. \E z \in Above[Parent[x]] : pause[z] > 0
      <3>1. CASE y # x
        BY <2>1, <2>2, <3>1
      <3>2. CASE y = x
        <4>1. PICK z \in Above[x] \ {x} : pause[z] # 0
          BY <2>2, <3>2
        <4>2. z \in Channel /\ z \in Above[Parent[x]]
          BY <2>1, AboveBasics
        <4>. QED
          BY <1>0, <4>1, <4>2
      <3>. QED
        BY <3>1, <3>2
    <2>. QED
      BY <2>1, <2>3
  <1>3. Above[c] \subseteq S
    <2>. HIDE DEF S
    <2>. QED
      BY <1>1, <1>2, AboveLeast
  <1>4. Root \in Above[c] /\ pause[Root] > 0
    BY <1>3, AboveBasics, AboveRoot
  <1>. QED
    BY <1>4, AboveRoot

\* get_wakeup_time returns the least of the times, if there is one.
LEMMA WakeupIsLeast ==
  ASSUME ChTypeOK, WakeupTime = 0 \/ clock < WakeupTime, NEW u \in WakeupTimes
  PROVE  clock < u
  <1>1. WakeupTimes \subseteq Nat /\ 0 \notin WakeupTimes /\ clock \in Nat
    BY DEF WakeupTimes, ChTypeOK, Attr
  <1>2. \E t \in WakeupTimes : \A v \in WakeupTimes : t <= v
    BY <1>1, LeastNumber
  <1>3. /\ WakeupTime \in WakeupTimes
        /\ \A v \in WakeupTimes : WakeupTime <= v
    BY <1>2 DEF WakeupTime
  <1>. QED
    BY <1>1, <1>3

\* THEOREM: while the runner sleeps for longer, no job can be let through by any
\* channel: a full or paused channel, where get_wakeup_time stops looking,
\* hides nothing that could run.
THEOREM NothingOverslept == ChSpec => []NoOversleep
  <1>1. ASSUME ChInv
        PROVE  NoOversleep
    <2>. SUFFICES ASSUME phase = "asleep", WakeupTime = 0 \/ clock < WakeupTime,
                         NEW j \in Job, NEW c \in Channel,
                         Pops(c, j, clock),
                         \A d \in Above[c] : /\ HasCapacity(d)
                                             /\ ~(Throttle[d] > 0 /\ pause[d] > clock)
                  PROVE  FALSE
      BY DEF NoOversleep, Movable
    <2>0. /\ ChTypeOK /\ clock \in Nat /\ passNow = 0
          /\ \A d \in Channel : /\ pause[d] \in Nat /\ Throttle[d] \in Nat
                                /\ Throttle[d] = 0 => pause[d] = 0
          /\ \A i \in Job : info[i].eta \in Nat
          /\ queue[c] \subseteq Job
          /\ Above[c] \subseteq Channel /\ c \in Above[c]
      BY <1>1, ConfigAssumption, AboveBasics
      DEF ChInv, ChTypeOK, Attr, PassShape, PauseCovers
    <2>1. \A d \in Above[c] : pause[d] = 0
      <3>. SUFFICES ASSUME NEW d \in Above[c], pause[d] > 0
                    PROVE  FALSE
        BY <2>0
      <3>1. PICK t \in Above[c] : pause[t] > 0 /\ \A x \in Above[t] \ {t} : pause[x] = 0
        BY <2>0, LastPaused
      <3>2. t \in Channel /\ Above[t] \subseteq Above[c]
        BY <2>0, AboveTransitive
      <3>3. Reached(t) /\ HasCapacity(t)
        BY <3>1, <3>2 DEF Reached
      <3>4. pause[t] \in WakeupTimes
        BY <3>1, <3>2, <3>3 DEF WakeupTimes
      <3>5. clock < pause[t]
        BY <2>0, <3>4, WakeupIsLeast
      <3>. QED
        BY <2>0, <3>1, <3>2, <3>5
    <2>2. ASSUME NEW i \in queue[c], info[i].eta > 0
          PROVE  clock < info[i].eta
      <3>1. Reached(c) /\ HasCapacity(c) /\ pause[c] = 0
        BY <2>0, <2>1 DEF Reached
      <3>2. info[i].eta \in WakeupTimes
        BY <2>0, <2>2, <3>1 DEF WakeupTimes
      <3>. QED
        BY <2>0, <3>2, WakeupIsLeast
    <2>3. \A i \in queue[c] : info[i].eta > 0 \/ (info[i].eta = 0 /\ HeldBack(c, i, 0))
      BY <1>1, <2>0, <2>1 DEF ChInv, DoneIsSpent, Spent
    <2>4. j \in queue[c] /\ HeldBack(c, j, 0)
      <3>1. j \in queue[c] /\ info[j].eta <= clock
        BY DEF Pops, Due
      <3>2. ~(info[j].eta > 0)
        BY <2>0, <2>2, <3>1
      <3>. QED
        BY <2>3, <3>1, <3>2
    <2>5. Later(c, clock) = Later(c, 0)
      <3>1. \A i \in queue[c] : info[i].eta <= clock <=> info[i].eta <= 0
        BY <2>0, <2>2
      <3>. QED
        BY <3>1 DEF Later, Due
    <2>. QED
      BY <2>4, <2>5 DEF Pops, HeldBack
  <1>. QED
    BY <1>1, ChInvariant, PTL

=============================================================================
