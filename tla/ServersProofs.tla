--------------------------- MODULE ServersProofs ---------------------------
(***************************************************************************)
(* Proofs about several servers, for any servers, databases, names, texts  *)
(* and faults: one runner masters a database, it counts every job that is  *)
(* enqueued in what it has read, a job whose channel is not configured is  *)
(* placed below the nearest channel that is, and the fleet as a whole      *)
(* keeps to the capacities of the text.                                    *)
(***************************************************************************)
EXTENDS Servers, FiniteSetTheorems, WellFoundedInduction, TLAPS

-----------------------------------------------------------------------------
(* Names *)

\* A set of numbers with a bound has a largest one.
LEMMA LargestNumber ==
  ASSUME NEW n \in Nat, NEW S \in SUBSET (0 .. n), S # {}
  PROVE  \E m \in S : \A x \in S : x <= m
  <1>. DEFINE Rest == {n - x : x \in S}
  <1>1. Rest \subseteq Nat /\ Rest # {}
    <2>1. \A x \in S : n - x \in Nat
      OBVIOUS
    <2>. QED
      BY <2>1
  <1>2. PICK k \in Rest : \A l \in Rest : <<l, k>> \notin OpToRel(<, Nat)
    BY <1>1, WFMin, NatLessThanWellFounded, Zenon
  <1>3. \A l \in Rest : ~(l < k)
    BY <1>1, <1>2, Zenon DEF OpToRel
  <1>4. PICK m \in S : k = n - m
    BY <1>2
  <1>5. ASSUME NEW x \in S
        PROVE  x <= m
    <2>1. ~(n - x < n - m)
      BY <1>3, <1>4
    <2>. QED
      BY <2>1
  <1>. QED
    BY <1>5

\* A set of prefixes of a name has a longest one.
LEMMA LongestExists ==
  ASSUME NEW full \in Seq(Part), NEW names \in SUBSET PathTo(full), names # {}
  PROVE  /\ Longest(names) \in names
         /\ \A o \in names : Len(o) <= Len(Longest(names))
  <1>. DEFINE Lengths == {Len(o) : o \in names}
  <1>1. \A o \in names : Len(o) \in 0 .. Len(full)
    BY DEF PathTo
  <1>2. Lengths \in SUBSET (0 .. Len(full)) /\ Lengths # {} /\ Len(full) \in Nat
    <2>1. Lengths # {}
      OBVIOUS
    <2>2. Lengths \subseteq 0 .. Len(full)
      BY <1>1
    <2>. QED
      BY <2>1, <2>2
  <1>3. PICK k \in Lengths : \A l \in Lengths : l <= k
    <2>. HIDE DEF Lengths
    <2>. QED
      BY <1>2, LargestNumber
  <1>4. PICK n \in names : k = Len(n)
    BY <1>3
  <1>5. \A o \in names : Len(o) <= Len(n)
    BY <1>3, <1>4
  <1>. QED
    BY <1>4, <1>5 DEF Longest

\* A full name begins with the root, and leads to itself.
LEMMA FullNames ==
  ASSUME NEW name \in Seq(Part)
  PROVE  /\ FullName(name) \in Seq(Part)
         /\ Len(FullName(name)) \in Nat \ {0}
         /\ FullName(name)[1] = RootPart
  BY NamesAssumption DEF FullName, RootName

\* The prefixes of a name.
LEMMA Prefixed ==
  ASSUME NEW full \in Seq(Part), NEW p \in PathTo(full)
  PROVE  /\ p \in Seq(Part)
         /\ Len(p) \in 1 .. Len(full)
         /\ p = SubSeq(full, 1, Len(p))
         /\ \A k \in 1 .. Len(p) : p[k] = full[k]
  <1>1. PICK n \in 1 .. Len(full) : p = SubSeq(full, 1, n)
    BY DEF PathTo
  <1>. QED
    BY <1>1

\* A sequence that agrees with the beginning of a name is one of its prefixes.
LEMMA PrefixBy ==
  ASSUME NEW full \in Seq(Part), NEW p \in Seq(Part), Len(p) \in 1 .. Len(full),
         \A k \in 1 .. Len(p) : p[k] = full[k]
  PROVE  p \in PathTo(full)
  <1>1. p = SubSeq(full, 1, Len(p))
    OBVIOUS
  <1>. QED
    BY <1>1 DEF PathTo

\* The root is above every channel.
LEMMA RootIsAbove ==
  ASSUME NEW full \in Seq(Part), Len(full) \in Nat \ {0}, full[1] = RootPart
  PROVE  RootName \in PathTo(full)
  <1>1. RootName \in Seq(Part) /\ Len(RootName) = 1 /\ RootName[1] = RootPart
    BY NamesAssumption DEF RootName
  <1>2. Len(RootName) \in 1 .. Len(full) /\ \A k \in 1 .. Len(RootName) : RootName[k] = full[k]
    BY <1>1
  <1>. QED
    BY <1>1, <1>2, PrefixBy

\* The parent from which a search goes down: the longest known prefix.
LEMMA NearestIs ==
  ASSUME NEW full \in Seq(Part), Len(full) \in Nat \ {0}, full[1] = RootPart, NEW names
  PROVE  /\ Nearest(names, full) \in PathTo(full)
         /\ \A o \in PathTo(full) \cap names : Len(o) <= Len(Nearest(names, full))
  <1>. DEFINE N == (PathTo(full) \cap names) \cup {RootName}
  <1>1. N \in SUBSET PathTo(full) /\ N # {}
    BY RootIsAbove
  <1>. HIDE DEF N
  <1>2. Longest(N) \in N /\ \A o \in N : Len(o) <= Len(Longest(N))
    BY <1>1, LongestExists
  <1>. QED
    BY <1>1, <1>2 DEF N, Nearest

\* A search with the fallback leads to a name.
LEMMA SearchedIs ==
  ASSUME NEW full \in Seq(Part), Len(full) \in Nat \ {0}, full[1] = RootPart, NEW names
  PROVE  Searched(names, full, TRUE) \in Seq(Part)
  BY NearestIs, Prefixed DEF Searched

\* Without the fallback it leads to the name it was asked for.
LEMMA SearchedDown ==
  ASSUME NEW full \in Seq(Part), Len(full) \in Nat \ {0}, full[1] = RootPart, NEW names
  PROVE  Searched(names, full, FALSE) = full
  BY DEF Searched, RootName

\* The channels of the text: what is above its names.
LEMMA ConfiguredIs ==
  ASSUME text \in Texts, NEW p \in Configured(text)
  PROVE  \E e \in Range(text) : /\ e.name \in Seq(Part)
                                /\ p \in PathTo(FullName(e.name))
  <1>1. PICK e \in Range(text) : p \in KnownAfter({RootName}, FullName(e.name), FALSE)
    BY DEF Configured
  <1>2. e \in Entries
    BY ServersAssumption DEF Range
  <1>3. e.name \in Seq(Part)
    BY <1>2 DEF Entries
  <1>4. p \in {RootName} \cup PathTo(FullName(e.name))
    BY <1>1, <1>3, FullNames, SearchedDown DEF KnownAfter
  <1>. QED
    BY <1>3, <1>4, FullNames, RootIsAbove

\* A channel of the text never repeats the part after the root.
LEMMA ConfiguredPlain ==
  ASSUME text \in Texts, Plain, NEW p \in Configured(text)
  PROVE  /\ p \in Seq(Part)
         /\ \A k \in 3 .. Len(p) : p[k] # p[2]
  <1>1. PICK e \in Range(text) : e.name \in Seq(Part) /\ p \in PathTo(FullName(e.name))
    BY ConfiguredIs
  <1>. DEFINE full == FullName(e.name)
  <1>2. full \in Seq(Part) /\ p \in PathTo(full) /\ \A k \in 3 .. Len(full) : full[k] # full[2]
    BY <1>1, FullNames DEF Plain
  <1>. HIDE DEF full
  <1>. QED
    BY <1>2, Prefixed

\* From a prefix of a name the search goes down the name without its root.
LEMMA Joined ==
  ASSUME NEW full \in Seq(Part), Len(full) \in Nat \ {0},
         NEW n \in PathTo(full), NEW found, found = n \o Tail(full)
  PROVE  /\ found \in Seq(Part)
         /\ Len(found) = Len(n) + Len(full) - 1
         /\ \A k \in 1 .. Len(n) : found[k] = full[k]
         /\ Len(full) > 1 => found[Len(n) + 1] = full[2]
         /\ Len(n) = 1 => found = full
  <1>1. /\ n \in Seq(Part) /\ Len(n) \in 1 .. Len(full)
        /\ \A k \in 1 .. Len(n) : n[k] = full[k]
    BY Prefixed
  <1>2. /\ found \in Seq(Part) /\ Len(found) = Len(n) + Len(full) - 1
        /\ \A k \in 1 .. Len(n) : found[k] = full[k]
    BY <1>1
  <1>3. Len(full) > 1 => found[Len(n) + 1] = full[2]
    BY <1>1
  <1>4. ASSUME Len(n) = 1
        PROVE  found = full
    <2>1. ASSUME NEW k \in 1 .. Len(full)
          PROVE  found[k] = full[k]
      <3>1. ASSUME k # 1
            PROVE  found[k] = full[k]
        <4>0. /\ Tail(full) \in Seq(Part) /\ Len(Tail(full)) = Len(full) - 1
              /\ k - 1 \in 1 .. Len(Tail(full)) /\ Tail(full)[k - 1] = full[k]
          BY <3>1
        <4>1. PICK rest \in Seq(Part) :
                /\ rest = Tail(full) /\ Len(rest) = Len(full) - 1
                /\ k - 1 \in 1 .. Len(rest) /\ rest[k - 1] = full[k]
          BY <4>0
        <4>2. (n \o rest)[Len(n) + (k - 1)] = rest[k - 1]
          BY <1>1, <4>1
        <4>3. Len(n) + (k - 1) = k
          BY <1>4
        <4>. QED
          BY <4>1, <4>2, <4>3
      <3>. QED
        BY <1>2, <1>4, <3>1
    <2>. QED
      BY <1>2, <1>4, <2>1
  <1>. QED
    BY <1>2, <1>3, <1>4

\* Past a prefix of two parts or more it repeats the second one.
LEMMA NothingConfiguredPast ==
  ASSUME text \in Texts, Plain, NEW full \in Seq(Part), Len(full) \in Nat \ {0},
         NEW n \in PathTo(full), NEW found, found = n \o Tail(full),
         NEW p \in Configured(text), p \in PathTo(found)
  PROVE  p \in PathTo(full)
  <1>1. /\ found \in Seq(Part) /\ Len(found) = Len(n) + Len(full) - 1
        /\ \A k \in 1 .. Len(n) : found[k] = full[k]
        /\ Len(full) > 1 => found[Len(n) + 1] = full[2]
        /\ Len(n) = 1 => found = full
    BY Joined, ZenonT(40)
  <1>2. Len(n) \in 1 .. Len(full) /\ Len(full) \in Nat
    BY Prefixed
  <1>3. /\ p \in Seq(Part) /\ Len(p) \in 1 .. Len(found)
        /\ \A k \in 1 .. Len(p) : p[k] = found[k]
        /\ \A k \in 3 .. Len(p) : p[k] # p[2]
    BY <1>1, Prefixed, ConfiguredPlain
  <1>4. CASE Len(p) <= Len(n)
    BY <1>1, <1>2, <1>3, <1>4, PrefixBy
  <1>5. CASE Len(p) > Len(n) /\ Len(n) >= 2
    <2>1. Len(full) > 1 /\ Len(n) + 1 \in 3 .. Len(p) /\ 2 \in 1 .. Len(n) /\ 2 \in 1 .. Len(p)
      BY <1>1, <1>2, <1>3, <1>5
    <2>2. Len(n) + 1 \in 1 .. Len(p)
      BY <1>2, <2>1
    <2>3. p[Len(n) + 1] = full[2] /\ p[2] = full[2]
      BY <1>1, <1>3, <2>1, <2>2
    <2>. QED
      BY <1>3, <2>1, <2>3
  <1>6. CASE Len(n) = 1
    BY <1>1, <1>6
  <1>7. PICK a \in Nat, b \in Nat \ {0} : a = Len(p) /\ b = Len(n)
    BY <1>2, <1>3
  <1>8. a <= b \/ (a > b /\ b >= 2) \/ b = 1
    BY <1>7
  <1>. QED
    BY <1>4, <1>5, <1>6, <1>7, <1>8

\* Where a search with the fallback ends, it is below the same channels of the
\* text as the name: past the nearest known channel it repeats the part after
\* the root, which no channel of the text does.
LEMMA FallsBackBelow ==
  ASSUME text \in Texts, Plain, NEW names, Configured(text) \subseteq names,
         NEW full \in Seq(Part), Len(full) \in Nat \ {0}, full[1] = RootPart
  PROVE  PathTo(Searched(names, full, TRUE)) \cap Configured(text)
           = PathTo(full) \cap Configured(text)
  <1>1. PICK n \in PathTo(full) : /\ n = Nearest(names, full)
                                 /\ \A o \in PathTo(full) \cap names : Len(o) <= Len(n)
    BY NearestIs
  <1>2. PICK found : found = n \o Tail(full)
    OBVIOUS
  <1>3. /\ found \in Seq(Part) /\ Len(found) = Len(n) + Len(full) - 1
        /\ \A k \in 1 .. Len(n) : found[k] = full[k]
        /\ Len(n) \in 1 .. Len(full)
    BY <1>2, Joined, Prefixed
  <1>4. ASSUME NEW p \in Configured(text), p \in PathTo(full)
        PROVE  p \in PathTo(found)
    <2>1. /\ Len(p) <= Len(n) /\ p \in Seq(Part) /\ Len(p) \in 1 .. Len(full)
          /\ \A k \in 1 .. Len(p) : p[k] = full[k]
      BY <1>1, <1>4, Prefixed
    <2>2. Len(p) \in 1 .. Len(found) /\ \A k \in 1 .. Len(p) : p[k] = found[k]
      BY <1>3, <2>1
    <2>. QED
      BY <1>3, <2>1, <2>2, PrefixBy
  <1>5. \A p \in Configured(text) : p \in PathTo(found) <=> p \in PathTo(full)
    BY <1>2, <1>4, NothingConfiguredPast
  <1>6. full \notin names => Searched(names, full, TRUE) = found
    BY <1>1, <1>2 DEF Searched
  <1>7. full \in names => Searched(names, full, TRUE) = full
    BY DEF Searched
  <1>. QED
    BY <1>5, <1>6, <1>7

-----------------------------------------------------------------------------
(* Types *)

\* The records of a runner, and what it remembers of a job.
ServerStates == [at : Places, next : Nat \ {0}, alive : BOOLEAN, told : BOOLEAN, recover : BOOLEAN]
Memories == [state : {"unknown", "pending", "enqueued"}, channel : Seq(Part)]

\* A runner can go to any place.
LEMMA ServerTypes ==
  ASSUME SvTypeOK, NEW s \in Server
  PROVE  /\ Down \in ServerStates
         /\ server[s] \in ServerStates
         /\ Unknown \in Memories
         /\ \A p \in Places : [server EXCEPT ![s].at = p] \in [Server -> ServerStates]
  <1>1. server \in [Server -> ServerStates]
    BY DEF SvTypeOK, ServerStates
  <1>2. \A p \in Places : [server EXCEPT ![s].at = p] \in [Server -> ServerStates]
    BY <1>1 DEF ServerStates
  <1>. QED
    BY <1>1, <1>2 DEF Down, Places, ServerStates, Unknown, Memories

\* Closing, forgetting and notifying keep the types.
LEMMA ClosedTyped ==
  ASSUME SvTypeOK, NEW s \in Server, CloseDatabases(s)
  PROVE  /\ session' \in [Server -> [Db -> {"none", "open", "broken"}]]
         /\ holder' \in [Db -> Server \cup {Nobody, Ghost}]
         /\ notes' \in [Server -> SUBSET Job]
  BY DEF CloseDatabases, SvTypeOK

LEMMA ForgottenTyped ==
  ASSUME SvTypeOK, NEW s \in Server,
         memory' = [memory EXCEPT ![s] = [j \in Job |-> Unknown]]
  PROVE  memory' \in [Server -> [Job -> Memories]]
  BY DEF SvTypeOK, Unknown, Memories

LEMMA NotifiedTyped ==
  ASSUME SvTypeOK, NEW j \in Job, NEW names
  PROVE  Notified(names, j) \in Memories
  <1>1. CASE row[j] = "done"
    BY <1>1 DEF Notified, Unknown, Memories
  <1>2. CASE row[j] # "done"
    <2>1. row[j] \in {"pending", "enqueued"}
      BY <1>2 DEF SvTypeOK
    <2>2. Searched(names, FullChannelOf(j), TRUE) \in Seq(Part)
      BY ServersAssumption, FullNames, SearchedIs DEF FullChannelOf
    <2>. QED
      BY <1>2, <2>1, <2>2 DEF Notified, Memories
  <1>. QED
    BY <1>1, <1>2

\* What notifying some jobs changes: what is remembered of them, and the channels
\* known, of which none is lost.
LEMMA NotifyEffect ==
  ASSUME SvTypeOK, NEW s \in Server, NEW jobs \in SUBSET Job, NotifyEach(s, jobs)
  PROVE  /\ \E names : known' = [known EXCEPT ![s] = known[s] \cup names]
         /\ \E f : memory' = [memory EXCEPT ![s] = f]
         /\ memory' \in [Server -> [Job -> Memories]]
         /\ \A j \in Job \ jobs : memory'[s][j] = memory[s][j]
         /\ \A j \in jobs : \E names : known[s] \subseteq names /\ memory'[s][j] = Notified(names, j)
  <1>1. PICK before :
          \E all : /\ known' = [known EXCEPT ![s] = known[s] \cup all]
                  /\ memory' = [memory EXCEPT ![s] =
                       [j \in Job |-> IF j \in jobs THEN Notified(known[s] \cup before[j], j)
                                      ELSE memory[s][j]]]
    <2>1. PICK order \in SetToSeqs(jobs) :
            LET before(j) == SubSeq(order, 1, SelectInSeq(order, LAMBDA i : i = j) - 1) IN
            /\ known' = [known EXCEPT ![s] = KnownWith(s, order)]
            /\ memory' = [memory EXCEPT ![s] =
                 [j \in Job |-> IF j \in jobs THEN Notified(KnownWith(s, before(j)), j)
                                ELSE memory[s][j]]]
      BY DEF NotifyEach
    <2>. DEFINE before(j) == SubSeq(order, 1, SelectInSeq(order, LAMBDA i : i = j) - 1)
                folded(some) == FoldLeft(LAMBDA names, j : KnownAfter(names, FullChannelOf(j), TRUE),
                                         known[s], some)
                b == [j \in jobs |-> folded(before(j))]
    <2>2. /\ known' = [known EXCEPT ![s] = known[s] \cup folded(order)]
          /\ memory' = [memory EXCEPT ![s] =
                 [j \in Job |-> IF j \in jobs THEN Notified(known[s] \cup folded(before(j)), j)
                                ELSE memory[s][j]]]
      BY <2>1 DEF KnownWith
    <2>. HIDE DEF before, folded
    <2>3. memory' = [memory EXCEPT ![s] =
                 [j \in Job |-> IF j \in jobs THEN Notified(known[s] \cup b[j], j)
                                ELSE memory[s][j]]]
      BY <2>2
    <2>. HIDE DEF b
    <2>. QED
      BY <2>2, <2>3
  <1>2. memory \in [Server -> [Job -> Memories]]
    BY DEF SvTypeOK, Memories
  <1>. DEFINE f == [j \in Job |-> IF j \in jobs THEN Notified(known[s] \cup before[j], j)
                                 ELSE memory[s][j]]
  <1>3. f \in [Job -> Memories]
    BY <1>2, NotifiedTyped
  <1>4. /\ memory' = [memory EXCEPT ![s] = f]
        /\ \A j \in Job \ jobs : f[j] = memory[s][j]
        /\ \A j \in jobs : f[j] = Notified(known[s] \cup before[j], j)
    BY <1>1
  <1>. HIDE DEF f
  <1>5. memory' \in [Server -> [Job -> Memories]] /\ memory'[s] = f
    BY <1>2, <1>3, <1>4
  <1>. QED
    BY <1>1, <1>4, <1>5

\* Type correctness.
LEMMA SvTypeInit == SvInit => SvTypeOK
  <1>. SUFFICES ASSUME SvInit PROVE SvTypeOK
    OBVIOUS
  <1>1. Down \in ServerStates /\ Unknown \in Memories
    BY DEF Down, Places, ServerStates, Unknown, Memories
  <1>. QED
    BY <1>1, ServersAssumption DEF SvInit, SvTypeOK, ServerStates, Memories

LEMMA SvTypeStep ==
  ASSUME SvTypeOK, NEW s \in Server, Spawn(s) \/ Step(s)
  PROVE  SvTypeOK'
  <1>. USE DEF Places
  <1>0. /\ server \in [Server -> ServerStates] /\ server[s] \in ServerStates
        /\ Down \in ServerStates /\ Unknown \in Memories
        /\ memory \in [Server -> [Job -> Memories]]
        /\ \A p \in Places : [server EXCEPT ![s].at = p] \in [Server -> ServerStates]
    BY ServerTypes DEF SvTypeOK, ServerStates, Memories
  <1>t. ASSUME server' \in [Server -> ServerStates],
               session' \in [Server -> [Db -> {"none", "open", "broken"}]],
               holder' \in [Db -> Server \cup {Nobody, Ghost}],
               notes' \in [Server -> SUBSET Job],
               memory' \in [Server -> [Job -> Memories]],
               row' \in [Job -> {"pending", "enqueued", "done"}],
               UNCHANGED <<text, faults>>
        PROVE  SvTypeOK'
    BY <1>t DEF SvTypeOK, ServerStates, Memories
  <1>f. ASSUME memory' = [memory EXCEPT ![s] = [j \in Job |-> Unknown]]
        PROVE  memory' \in [Server -> [Job -> Memories]]
    BY <1>0, <1>f
  <1>u. ASSUME UNCHANGED <<text, session, holder, notes, row, faults>>,
               server' \in [Server -> ServerStates], memory' \in [Server -> [Job -> Memories]]
        PROVE  SvTypeOK'
    BY <1>t, <1>u DEF SvTypeOK
  <1>1. CASE Spawn(s)
    <2>1. server' \in [Server -> ServerStates]
      <3>1. \A p \in Places : [Down EXCEPT !.at = p, !.alive = TRUE] \in ServerStates
        <4>. HIDE DEF Places
        <4>1. ASSUME NEW p \in Places
              PROVE  [Down EXCEPT !.at = p, !.alive = TRUE] \in ServerStates
          BY <1>0, <4>1 DEF ServerStates
        <4>. QED
          BY <4>1
      <3>. QED
        BY <1>0, <1>1, <3>1 DEF Spawn
    <2>. QED
      BY <1>1, <1>f, <1>u, <2>1 DEF Spawn, Fresh
  <1>2. CASE Work(s)
    BY <1>0, <1>2, <1>u DEF Work, GoTo
  <1>3. CASE End(s)
    BY <1>0, <1>3, <1>f, <1>u DEF End, Forget
  <1>4. CASE Rebuild(s)
    <2>1. server' \in [Server -> ServerStates]
      BY <1>0, <1>4 DEF Rebuild, ServerStates
    <2>. QED
      BY <1>4, <1>f, <1>u, <2>1 DEF Rebuild, Fresh
  <1>n. \A p \in Places : [server EXCEPT ![s].at = p, ![s].next = 1] \in [Server -> ServerStates]
    <2>. HIDE DEF Places
    <2>1. 1 \in Nat \ {0}
      OBVIOUS
    <2>2. \A p \in Places : [server[s] EXCEPT !.at = p, !.next = 1] \in ServerStates
      BY <1>0, <2>1 DEF ServerStates
    <2>3. \A p \in Places : [server EXCEPT ![s].at = p, ![s].next = 1]
                             = [server EXCEPT ![s] = [server[s] EXCEPT !.at = p, !.next = 1]]
      BY <1>0
    <2>. QED
      BY <1>0, <2>2, <2>3
  <1>l. ASSUME Left(s)
        PROVE  server' \in [Server -> ServerStates] /\ memory' \in [Server -> [Job -> Memories]]
    <2>1. CASE s \in Prefork
      BY <1>0, <1>l, <1>n, <2>1 DEF Left
    <2>2. CASE s \notin Prefork
      BY <1>0, <1>l, <1>f, <2>2, ZenonT(40) DEF Left, Forget
    <2>. QED
      BY <2>1, <2>2
  <1>5. CASE Outer(s)
    <2>1. CASE server[s].told
      BY <1>5, <1>l, <1>u, <2>1 DEF Outer
    <2>2. CASE ~server[s].told
      BY <1>0, <1>5, <1>u, <2>2 DEF Outer, GoTo
    <2>. QED
      BY <2>1, <2>2
  <1>6. CASE Leave(s)
    BY <1>6, <1>l, <1>t, ClosedTyped DEF Leave, SvTypeOK
  <1>r. ASSUME Recover(s)
        PROVE  SvTypeOK'
    <2>1. server' \in [Server -> ServerStates]
      BY <1>n, <1>r DEF Recover
    <2>2. memory' \in [Server -> [Job -> Memories]]
      BY <1>0, <1>r DEF Recover
    <2>. QED
      BY <1>r, <1>t, <2>1, <2>2, ClosedTyped DEF Recover, SvTypeOK
  <1>7. CASE PassOver(s) \/ ReadJobs(s)
    <2>1. Skip(s) /\ UNCHANGED <<text, session, holder, notes, row, faults>>
      BY <1>7 DEF PassOver, ReadJobs
    <2>2. server' \in [Server -> ServerStates]
      BY <1>0, <2>1 DEF Skip, ServerStates
    <2>3. memory' \in [Server -> [Job -> Memories]]
      BY <1>0, <1>7, NotifyEffect DEF PassOver, ReadJobs
    <2>. QED
      BY <1>u, <2>1, <2>2, <2>3
  <1>8. CASE AcquireMasterLock(s)
    <2>1. session' \in [Server -> [Db -> {"none", "open", "broken"}]]
      BY <1>8 DEF AcquireMasterLock, SvTypeOK
    <2>2. holder' \in [Db -> Server \cup {Nobody, Ghost}]
      BY <1>8 DEF AcquireMasterLock, SvTypeOK
    <2>. QED
      BY <1>0, <1>8, <1>t, <2>1, <2>2 DEF AcquireMasterLock, GoTo, SvTypeOK
  <1>9. CASE ElectionLost(s) \/ SessionLost(s)
    BY <1>9, <1>r DEF ElectionLost, SessionLost
  <1>10. CASE StartLoop(s) \/ Sweep(s) \/ BeginPass(s) \/ EndTurn(s)
    BY <1>0, <1>10, <1>u DEF StartLoop, Sweep, BeginPass, EndTurn, GoTo
  <1>11. ASSUME NEW j \in Job, ProcessNotification(s, j)
         PROVE  SvTypeOK'
    <2>1. memory' \in [Server -> [Job -> Memories]]
      BY <1>11, NotifyEffect DEF ProcessNotification
    <2>2. notes' \in [Server -> SUBSET Job]
      BY <1>11 DEF ProcessNotification, SvTypeOK
    <2>. QED
      BY <1>0, <1>11, <1>t, <2>1, <2>2 DEF ProcessNotification, SvTypeOK
  <1>12. ASSUME NEW j \in Job, RunJob(s, j)
         PROVE  SvTypeOK'
    <2>1. memory' \in [Server -> [Job -> Memories]]
      <3>1. memory[s] \in [Job -> Memories] /\ memory[s][j] \in Memories
        BY <1>0
      <3>2. [memory[s][j] EXCEPT !.state = "enqueued"] \in Memories
        BY <3>1 DEF Memories
      <3>3. PICK x \in Memories : x = [memory[s][j] EXCEPT !.state = "enqueued"]
        BY <3>2
      <3>4. PICK f \in [Job -> Memories] : f = [memory[s] EXCEPT ![j] = x]
        BY <3>1, <3>3
      <3>5. memory' = [memory EXCEPT ![s] = f]
        BY <1>12, <3>3, <3>4 DEF RunJob
      <3>. QED
        BY <1>0, <3>4, <3>5
    <2>2. notes' \in [Server -> SUBSET Job]
      BY <1>12 DEF RunJob, Notifying, SvTypeOK
    <2>3. row' \in [Job -> {"pending", "enqueued", "done"}]
      BY <1>12 DEF RunJob, SvTypeOK
    <2>. QED
      BY <1>0, <1>12, <1>t, <2>1, <2>2, <2>3 DEF RunJob, SvTypeOK
  <1>. QED
    BY <1>1, <1>2, <1>3, <1>4, <1>5, <1>6, <1>7, <1>8, <1>9, <1>10, <1>11, <1>12 DEF Step

LEMMA SvTypeNext == SvTypeOK /\ [SvNext]_svVars => SvTypeOK'
  <1>. SUFFICES ASSUME SvTypeOK, [SvNext]_svVars PROVE SvTypeOK'
    OBVIOUS
  <1>0. /\ server \in [Server -> ServerStates] /\ Down \in ServerStates /\ Unknown \in Memories
    BY DEF SvTypeOK, Down, Places, ServerStates, Unknown, Memories
  <1>f. ASSUME Fault
        PROVE  faults' \in 0 .. MaxFaults
    BY <1>f, ServersAssumption DEF Fault, SvTypeOK
  <1>1. ASSUME NEW j \in Job, EndJob(j)
        PROVE  SvTypeOK'
    <2>1. row' \in [Job -> {"pending", "enqueued", "done"}] /\ notes' \in [Server -> SUBSET Job]
      BY <1>1 DEF EndJob, Notifying, SvTypeOK
    <2>. QED
      BY <1>1, <2>1 DEF EndJob, SvTypeOK
  <1>2. ASSUME NEW s \in Server, Interrupt(s) \/ TimeExpired(s)
        PROVE  SvTypeOK'
    <2>1. server' \in [Server -> ServerStates]
      <3>1. CASE Interrupt(s)
        BY <1>0, <3>1 DEF Interrupt, ServerStates
      <3>2. CASE TimeExpired(s)
        BY <1>0, <3>2 DEF TimeExpired, ServerStates
      <3>. QED
        BY <1>2, <3>1, <3>2
    <2>. QED
      BY <1>2, <1>f, <2>1 DEF Interrupt, TimeExpired, SvTypeOK, ServerStates
  <1>3. ASSUME NEW s \in Server, Kill(s)
        PROVE  SvTypeOK'
    <2>1. session' \in [Server -> [Db -> {"none", "open", "broken"}]] /\ notes' \in [Server -> SUBSET Job]
      BY <1>3 DEF Kill, SvTypeOK
    <2>2. holder' \in [Db -> Server \cup {Nobody, Ghost}]
      BY <1>3 DEF Kill, SvTypeOK
    <2>3. server' \in [Server -> ServerStates]
      BY <1>0, <1>3 DEF Kill
    <2>4. memory' \in [Server -> [Job -> Memories]]
      BY <1>3, ForgottenTyped DEF Kill, Forget
    <2>. QED
      BY <1>3, <1>f, <2>1, <2>2, <2>3, <2>4 DEF Kill, SvTypeOK, ServerStates, Memories
  <1>4. ASSUME NEW s \in Server, NEW d \in Db, Break(s, d)
        PROVE  SvTypeOK'
    <2>1. session' \in [Server -> [Db -> {"none", "open", "broken"}]]
      BY <1>4 DEF Break, SvTypeOK
    <2>2. holder' \in [Db -> Server \cup {Nobody, Ghost}]
      BY <1>4 DEF Break, SvTypeOK
    <2>. QED
      BY <1>4, <1>f, <2>1, <2>2 DEF Break, SvTypeOK
  <1>5. ASSUME NEW d \in Db, Expire(d)
        PROVE  SvTypeOK'
    BY <1>5 DEF Expire, SvTypeOK
  <1>6. CASE UNCHANGED svVars
    BY <1>6 DEF svVars, SvTypeOK
  <1>. QED
    BY <1>1, <1>2, <1>3, <1>4, <1>5, <1>6, SvTypeStep DEF SvNext

-----------------------------------------------------------------------------
(* The election *)

\* The lock of a database and the open session of its holder come and go
\* together: the invariant needs both directions, because a runner that closes
\* gives back the locks that are its own, not those of its sessions.
ElectionInv ==
  /\ session \in [Server -> [Db -> {"none", "open", "broken"}]]
  /\ holder \in [Db -> Server \cup {Nobody, Ghost}]
  /\ \A s \in Server, d \in Db : session[s][d] = "open" <=> holder[d] = s

LEMMA ElectionInit == SvInit => ElectionInv
  BY ServersAssumption DEF SvInit, ElectionInv

\* Two runners have no database in common.
LEMMA OneSession ==
  ASSUME ElectionInv, NEW s \in Server, NEW q \in Server, NEW d \in Db,
         session[s][d] = "open", session[q][d] = "open"
  PROVE  s = q
  BY DEF ElectionInv

\* Closing gives back the locks and nothing else.
LEMMA CloseKeeps ==
  ASSUME ElectionInv, NEW s \in Server, CloseDatabases(s)
  PROVE  ElectionInv'
<1>1. /\ session' = [session EXCEPT ![s] = [d \in Db |-> "none"]]
      /\ holder' = [d \in Db |-> IF holder[d] = s THEN Nobody ELSE holder[d]]
  BY DEF CloseDatabases
<1>2. /\ session' \in [Server -> [Db -> {"none", "open", "broken"}]]
      /\ holder' \in [Db -> Server \cup {Nobody, Ghost}]
  BY <1>1 DEF ElectionInv
<1>3. ASSUME NEW q \in Server, NEW d \in Db
      PROVE  session'[q][d] = "open" <=> holder'[d] = q
  <2>1. CASE q = s
    BY <1>1, <2>1, ServersAssumption DEF ElectionInv
  <2>2. CASE q # s
    BY <1>1, <2>2, ServersAssumption DEF ElectionInv
  <2> QED
    BY <2>1, <2>2
<1> QED
  BY <1>2, <1>3 DEF ElectionInv

\* The lock is taken when nobody holds it.
LEMMA AcquireKeeps ==
  ASSUME ElectionInv, NEW s \in Server, AcquireMasterLock(s)
  PROVE  ElectionInv'
<1> DEFINE e == Turn(s)
<1>1. /\ e \in Installed /\ holder[e] = Nobody
      /\ holder' = [holder EXCEPT ![e] = s]
      /\ session' = [session EXCEPT ![s][e] = "open"]
  BY DEF AcquireMasterLock
<1> HIDE DEF e
<1>2. e \in Db
  BY <1>1, ServersAssumption
<1>3. /\ session' \in [Server -> [Db -> {"none", "open", "broken"}]]
      /\ holder' \in [Db -> Server \cup {Nobody, Ghost}]
  BY <1>1, <1>2 DEF ElectionInv
<1>4. ASSUME NEW q \in Server, NEW d \in Db
      PROVE  session'[q][d] = "open" <=> holder'[d] = q
  <2>1. CASE d = e
    BY <1>1, <1>2, <2>1, ServersAssumption DEF ElectionInv
  <2>2. CASE d # e
    BY <1>1, <1>2, <2>2 DEF ElectionInv
  <2> QED
    BY <2>1, <2>2
<1> QED
  BY <1>3, <1>4 DEF ElectionInv

LEMMA ElectionNext == ElectionInv /\ [SvNext]_svVars => ElectionInv'
<1> SUFFICES ASSUME ElectionInv, [SvNext]_svVars PROVE ElectionInv'
  OBVIOUS
<1>a. ASSUME UNCHANGED <<session, holder>> PROVE ElectionInv'
  BY <1>a DEF ElectionInv
<1>b. ASSUME NEW s \in Server, Spawn(s) PROVE ElectionInv'
  BY <1>a, <1>b DEF Spawn
<1>c. ASSUME NEW s \in Server, Step(s) PROVE ElectionInv'
  <2>1. CASE Work(s) \/ End(s) \/ Rebuild(s) \/ Outer(s)
    BY <1>a, <2>1 DEF Work, End, Rebuild, Outer
  <2>2. CASE PassOver(s) \/ ReadJobs(s) \/ StartLoop(s) \/ Sweep(s) \/ BeginPass(s) \/ EndTurn(s)
    BY <1>a, <2>2 DEF PassOver, ReadJobs, StartLoop, Sweep, BeginPass, EndTurn
  <2>3. CASE \E j \in Job : ProcessNotification(s, j) \/ RunJob(s, j)
    BY <1>a, <2>3 DEF ProcessNotification, RunJob
  <2>4. CASE AcquireMasterLock(s)
    BY <2>4, AcquireKeeps
  <2>5. CASE Leave(s) \/ ElectionLost(s) \/ SessionLost(s)
    <3>1. CloseDatabases(s)
      BY <2>5 DEF Leave, ElectionLost, SessionLost, Recover
    <3> QED
      BY <3>1, CloseKeeps
  <2> QED
    BY <1>c, <2>1, <2>2, <2>3, <2>4, <2>5 DEF Step
<1>d. ASSUME NEW j \in Job, EndJob(j) PROVE ElectionInv'
  BY <1>a, <1>d DEF EndJob
<1>e. ASSUME NEW s \in Server, Interrupt(s) \/ TimeExpired(s) PROVE ElectionInv'
  BY <1>a, <1>e DEF Interrupt, TimeExpired
<1>f. ASSUME NEW s \in Server, Kill(s) PROVE ElectionInv'
  <2>1. /\ session' = [session EXCEPT ![s] = [d \in Db |-> "none"]]
        /\ holder' = [d \in Db |-> IF holder[d] = s THEN Ghost ELSE holder[d]]
    BY <1>f DEF Kill
  <2>2. /\ session' \in [Server -> [Db -> {"none", "open", "broken"}]]
        /\ holder' \in [Db -> Server \cup {Nobody, Ghost}]
    BY <2>1 DEF ElectionInv
  <2>3. ASSUME NEW q \in Server, NEW d \in Db
        PROVE  session'[q][d] = "open" <=> holder'[d] = q
    <3>1. CASE q = s
      BY <2>1, <3>1, ServersAssumption DEF ElectionInv
    <3>2. CASE q # s
      BY <2>1, <3>2, ServersAssumption DEF ElectionInv
    <3> QED
      BY <3>1, <3>2
  <2> QED
    BY <2>2, <2>3 DEF ElectionInv
<1>g. ASSUME NEW s \in Server, NEW e \in Db, Break(s, e) PROVE ElectionInv'
  <2>1. PICK h \in {Nobody, Ghost} : holder' = [holder EXCEPT ![e] = h]
    BY <1>g DEF Break
  <2>2. session[s][e] = "open" /\ session' = [session EXCEPT ![s][e] = "broken"]
    BY <1>g DEF Break
  <2>3. /\ session' \in [Server -> [Db -> {"none", "open", "broken"}]]
        /\ holder' \in [Db -> Server \cup {Nobody, Ghost}]
    BY <2>1, <2>2 DEF ElectionInv
  <2>4. ASSUME NEW q \in Server, NEW d \in Db
        PROVE  session'[q][d] = "open" <=> holder'[d] = q
    <3>1. CASE d = e
      BY <2>1, <2>2, <3>1, OneSession, ServersAssumption DEF ElectionInv
    <3>2. CASE d # e
      BY <2>1, <2>2, <3>2 DEF ElectionInv
    <3> QED
      BY <3>1, <3>2
  <2> QED
    BY <2>3, <2>4 DEF ElectionInv
<1>h. ASSUME NEW e \in Db, Expire(e) PROVE ElectionInv'
  <2>1. /\ holder[e] = Ghost /\ holder' = [holder EXCEPT ![e] = Nobody]
        /\ session' = session
    BY <1>h DEF Expire
  <2> QED
    BY <2>1, ServersAssumption DEF ElectionInv
<1>i. CASE UNCHANGED svVars
  BY <1>a, <1>i DEF svVars
<1> QED
  BY <1>b, <1>c, <1>d, <1>e, <1>f, <1>g, <1>h, <1>i DEF SvNext

\* THEOREM: at most one runner has an open session that serves a database, whatever is
\* killed, broken, restarted or told to stop, and in whatever order servers
\* open their databases.
THEOREM OneMasterEach == SvSpec => []OneMaster
<1>1. SvInit => ElectionInv
  BY ElectionInit
<1>2. ElectionInv /\ [SvNext]_svVars => ElectionInv'
  BY ElectionNext
<1>3. ElectionInv => OneMaster
  BY DEF ElectionInv, OneMaster
<1> QED
  BY <1>1, <1>2, <1>3, PTL DEF SvSpec

-----------------------------------------------------------------------------
(* What a runner remembers *)

\* A job is in no channel, or below the channels of the text its name is below.
Below(j, channel) ==
  PathTo(channel) \cap Configured(text) = PathTo(FullChannelOf(j)) \cap Configured(text)

\* A runner that is not in its loop, nor about to be, has no session; the one it
\* reads has just been opened; the channels of the text are known; and a job that
\* is enqueued in a database it has read is counted, wherever the runner stands.
MemoryOf(s) ==
  /\ server[s].at \notin {"opening", "reading"} \cup InTurn => \A d \in Db : session[s][d] = "none"
  /\ At(s, "reading") => Turn(s) \in Installed /\ session[s][Turn(s)] # "none"
  /\ \A d \in Db \ Installed : session[s][d] = "none"
  /\ ~At(s, "down") => Configured(text) \subseteq known[s]
  /\ \A j \in Job :
       /\ session[s][DbOf[j]] = "open" /\ row[j] = "enqueued"
       /\ ~(At(s, "reading") /\ Turn(s) = DbOf[j])
       => memory[s][j].state = "enqueued"
  /\ Plain => \A j \in Job : memory[s][j] = Unknown \/ Below(j, memory[s][j].channel)

MemoryInv ==
  /\ SvTypeOK
  /\ ElectionInv
  /\ known = [s \in Server |-> known[s]]
  /\ \A s \in Server : MemoryOf(s)

\* A step that leaves a runner where it is and what it remembers as it is.
LEMMA MemoryKept ==
  ASSUME MemoryInv, NEW t \in Server, text' = text,
         server'[t].at = server[t].at, server'[t].next = server[t].next,
         known'[t] = known[t], memory'[t] = memory[t],
         \A d \in Db : /\ session[t][d] = "none" <=> session'[t][d] = "none"
                       /\ session'[t][d] = "open" => session[t][d] = "open",
         \A j \in Job : session[t][DbOf[j]] = "open" /\ row'[j] = "enqueued" => row[j] = "enqueued"
  PROVE  MemoryOf(t)'
  <1>1. /\ \A j \in Job : DbOf[j] \in Db
        /\ Installed \subseteq Db
    BY ServersAssumption
  <1>2. Configured(text)' = Configured(text) /\ (Plain <=> Plain')
    BY DEF Configured, Plain
  <1>. QED
    BY <1>1, <1>2 DEF MemoryInv, MemoryOf, At, Turn, Below

\* A step after which a runner has no session and remembers no job.
LEMMA MemoryReset ==
  ASSUME MemoryInv, NEW s \in Server, text' = text,
         \A d \in Db : session'[s][d] = "none",
         server'[s].at # "reading",
         memory'[s] = [j \in Job |-> Unknown],
         server'[s].at = "down" \/ Configured(text) \subseteq known'[s]
  PROVE  MemoryOf(s)'
  <1>1. \A j \in Job : DbOf[j] \in Db
    BY ServersAssumption
  <1>2. Configured(text)' = Configured(text)
    BY DEF Configured
  <1>. QED
    BY <1>1, <1>2, ServersAssumption DEF MemoryOf, At

\* What the runners but one see of its steps.
LEMMA OthersUntouched ==
  ASSUME MemoryInv, NEW s \in Server, Spawn(s) \/ Step(s), NEW t \in Server \ {s}
  PROVE  /\ server'[t] = server[t] /\ session'[t] = session[t]
         /\ known'[t] = known[t] /\ memory'[t] = memory[t]
  <1>. USE DEF MemoryInv, SvTypeOK
  <1>1. CASE Spawn(s)
    BY <1>1 DEF Spawn, Fresh
  <1>2. CASE Work(s) \/ End(s) \/ Rebuild(s)
    BY <1>2 DEF Work, End, Rebuild, GoTo, Forget, Fresh
  <1>3. CASE Outer(s) \/ Leave(s)
    BY <1>3 DEF Outer, Leave, Left, CloseDatabases, GoTo, Forget
  <1>4. CASE PassOver(s) \/ AcquireMasterLock(s)
    BY <1>4 DEF PassOver, AcquireMasterLock, Skip, GoTo
  <1>5. CASE ElectionLost(s) \/ SessionLost(s)
    BY <1>5 DEF ElectionLost, SessionLost, Recover, CloseDatabases
  <1>6. CASE ReadJobs(s)
    <2>1. PICK names : known' = [known EXCEPT ![s] = known[s] \cup names]
      BY <1>6, NotifyEffect DEF ReadJobs
    <2>2. PICK f : memory' = [memory EXCEPT ![s] = f]
      BY <1>6, NotifyEffect DEF ReadJobs
    <2>. QED
      BY <1>6, <2>1, <2>2 DEF ReadJobs, Skip
  <1>7. CASE StartLoop(s) \/ Sweep(s) \/ BeginPass(s) \/ EndTurn(s)
    BY <1>7 DEF StartLoop, Sweep, BeginPass, EndTurn, GoTo
  <1>8. ASSUME NEW j \in Job, ProcessNotification(s, j)
        PROVE  /\ server'[t] = server[t] /\ session'[t] = session[t]
               /\ known'[t] = known[t] /\ memory'[t] = memory[t]
    <2>1. PICK names : known' = [known EXCEPT ![s] = known[s] \cup names]
      BY <1>8, NotifyEffect, ZenonT(40) DEF ProcessNotification
    <2>2. PICK f : memory' = [memory EXCEPT ![s] = f]
      BY <1>8, NotifyEffect DEF ProcessNotification
    <2>. QED
      BY <1>8, <2>1, <2>2 DEF ProcessNotification
  <1>9. ASSUME NEW j \in Job, RunJob(s, j)
        PROVE  /\ server'[t] = server[t] /\ session'[t] = session[t]
               /\ known'[t] = known[t] /\ memory'[t] = memory[t]
    BY <1>9 DEF RunJob
  <1>. QED
    BY <1>1, <1>2, <1>3, <1>4, <1>5, <1>6, <1>7, <1>8, <1>9 DEF Step

\* What a runner remembers of the jobs it notifies.
LEMMA MemoryNotified ==
  ASSUME MemoryInv, NEW s \in Server, NEW jobs \in SUBSET Job, NotifyEach(s, jobs),
         Configured(text) \subseteq known[s], UNCHANGED <<text, row>>
  PROVE  /\ Configured(text) \subseteq known'[s]
         /\ \A j \in jobs : row[j] = "enqueued" => memory'[s][j].state = "enqueued"
         /\ \A j \in Job \ jobs : memory'[s][j] = memory[s][j]
         /\ Plain => \A j \in Job : memory'[s][j] = Unknown \/ Below(j, memory'[s][j].channel)
  <1>1. PICK names : known' = [known EXCEPT ![s] = known[s] \cup names]
    BY NotifyEffect DEF MemoryInv
  <1>2. \A j \in Job \ jobs : memory'[s][j] = memory[s][j]
    BY NotifyEffect DEF MemoryInv
  <1>3. known'[s] = known[s] \cup names
    BY <1>1 DEF MemoryInv
  <1>4. ASSUME NEW j \in jobs
        PROVE  /\ row[j] = "enqueued" => memory'[s][j].state = "enqueued"
               /\ Plain => memory'[s][j] = Unknown \/ Below(j, memory'[s][j].channel)
    <2>1. PICK all : known[s] \subseteq all /\ memory'[s][j] = Notified(all, j)
      BY NotifyEffect DEF MemoryInv
    <2>2. CASE row[j] = "done"
      BY <2>1, <2>2 DEF Notified
    <2>3. CASE row[j] # "done"
      <3>1. memory'[s][j] = [state |-> row[j], channel |-> Searched(all, FullChannelOf(j), TRUE)]
        BY <2>1, <2>3 DEF Notified
      <3>2. /\ FullChannelOf(j) \in Seq(Part) /\ Len(FullChannelOf(j)) \in Nat \ {0}
            /\ FullChannelOf(j)[1] = RootPart
        BY ServersAssumption, FullNames DEF FullChannelOf
      <3>3. Plain => Below(j, Searched(all, FullChannelOf(j), TRUE))
        BY <2>1, <3>2, FallsBackBelow DEF MemoryInv, SvTypeOK, Below
      <3>4. /\ memory'[s][j].state = row[j]
            /\ memory'[s][j].channel = Searched(all, FullChannelOf(j), TRUE)
        BY <3>1
      <3>. QED
        BY <3>3, <3>4 DEF Below
    <2>. QED
      BY <2>2, <2>3
  <1>. QED
    BY <1>2, <1>3, <1>4 DEF MemoryInv, MemoryOf

\* A runner that closes its databases and starts again, or leaves its loop.
LEMMA MemoryClosed ==
  ASSUME MemoryInv, NEW s \in Server, CloseDatabases(s), text' = text,
         server'[s].at \in {"resting", "work"}, known'[s] = known[s], ~At(s, "down"),
         \A j \in Job : memory'[s][j] = memory[s][j] \/ memory'[s][j] = Unknown
  PROVE  MemoryOf(s)'
  <1>1. \A d \in Db : session'[s][d] = "none"
    BY DEF CloseDatabases, MemoryInv, SvTypeOK
  <1>2. Configured(text)' = Configured(text) /\ (Plain <=> Plain')
    BY DEF Configured, Plain
  <1>3. \A j \in Job : DbOf[j] \in Db
    BY ServersAssumption
  <1>4. Plain => \A j \in Job : memory[s][j] = Unknown \/ Below(j, memory[s][j].channel)
    BY DEF MemoryInv, MemoryOf
  <1>5. (Plain => \A j \in Job : memory[s][j] = Unknown \/ Below(j, memory[s][j].channel))'
    BY <1>2, <1>4 DEF Below
  <1>. QED
    BY <1>1, <1>2, <1>3, <1>5, ServersAssumption DEF MemoryInv, MemoryOf, At, InTurn

LEMMA MemoryStep ==
  ASSUME MemoryInv, NEW s \in Server, Spawn(s) \/ Step(s)
  PROVE  MemoryOf(s)'
  <1>0. /\ \A j \in Job : DbOf[j] \in Installed /\ DbOf[j] \in Db
        /\ Installed \subseteq Db
    BY ServersAssumption
  <1>t. /\ MemoryOf(s) /\ s \in DOMAIN server /\ s \in DOMAIN session
        /\ s \in DOMAIN known /\ s \in DOMAIN memory
        /\ server[s] = [at |-> server[s].at, next |-> server[s].next, alive |-> server[s].alive,
                        told |-> server[s].told, recover |-> server[s].recover]
        /\ server[s].at \in Places
    BY DEF MemoryInv, SvTypeOK
  <1>c. text' = text
    BY DEF Spawn, Step, Work, End, Rebuild, Outer, Leave, PassOver, AcquireMasterLock,
           ElectionLost, ReadJobs, StartLoop, SessionLost, Sweep, BeginPass, EndTurn,
           ProcessNotification, RunJob, Recover
  <1>p. Configured(text)' = Configured(text) /\ (Plain <=> Plain')
    BY <1>c DEF Configured, Plain
  <1>1. CASE Spawn(s)
    <2>1. /\ \A d \in Db : session'[s][d] = "none"
          /\ server'[s].at # "reading"
          /\ memory'[s] = [j \in Job |-> Unknown] /\ known'[s] = Configured(text)
      BY <1>1, <1>t DEF Spawn, Fresh, Down, At, MemoryOf, InTurn
    <2>. QED
      BY <1>c, <2>1, MemoryReset
  <1>2. CASE Work(s)
    BY <1>0, <1>2, <1>t, <1>p DEF Work, GoTo, MemoryOf, At, InTurn, Below
  <1>3. CASE End(s)
    <2>1. /\ \A d \in Db : session'[s][d] = "none"
          /\ server'[s].at = "down"
          /\ memory'[s] = [j \in Job |-> Unknown]
      BY <1>3, <1>t DEF End, Forget, Down, At, MemoryOf, InTurn
    <2>. QED
      BY <1>c, <2>1, MemoryReset
  <1>4. CASE Rebuild(s)
    <2>1. /\ \A d \in Db : session'[s][d] = "none"
          /\ server'[s].at = "starting"
          /\ memory'[s] = [j \in Job |-> Unknown] /\ known'[s] = Configured(text)
      BY <1>4, <1>t DEF Rebuild, Fresh, At, MemoryOf, InTurn
    <2>. QED
      BY <1>c, <2>1, MemoryReset
  <1>5. CASE Outer(s)
    <2>1. CASE server[s].told /\ s \notin Prefork
      <3>1. /\ \A d \in Db : session'[s][d] = "none"
            /\ server'[s].at = "down"
            /\ memory'[s] = [j \in Job |-> Unknown]
        BY <1>5, <1>t, <2>1 DEF Outer, Left, Forget, Down, MemoryOf, InTurn
      <3>. QED
        BY <1>c, <3>1, MemoryReset
    <2>2. CASE server[s].told /\ s \in Prefork
      BY <1>0, <1>5, <1>t, <1>p, <2>2 DEF Outer, Left, MemoryOf, At, InTurn, Below
    <2>3. CASE ~server[s].told
      BY <1>0, <1>5, <1>t, <1>p, <2>3 DEF Outer, GoTo, MemoryOf, At, InTurn, Below
    <2>. QED
      BY <2>1, <2>2, <2>3
  <1>6. CASE Leave(s)
    <2>1. CASE s \in Prefork
      BY <1>6, <1>c, <1>t, <2>1, MemoryClosed DEF Leave, Left, At
    <2>2. CASE s \notin Prefork
      <3>1. /\ \A d \in Db : session'[s][d] = "none"
            /\ server'[s].at = "down"
            /\ memory'[s] = [j \in Job |-> Unknown]
        BY <1>6, <1>t, <2>2 DEF Leave, Left, Forget, Down, CloseDatabases
      <3>. QED
        BY <1>c, <3>1, MemoryReset
    <2>. QED
      BY <2>1, <2>2
  <1>7. CASE ElectionLost(s) \/ SessionLost(s)
    <2>1. Recover(s) /\ ~At(s, "down")
      BY <1>7 DEF ElectionLost, SessionLost, Touched, InTurn, At
    <2>2. \A j \in Job : memory'[s][j] = memory[s][j] \/ memory'[s][j] = Unknown
      BY <1>t, <2>1 DEF Recover
    <2>. QED
      BY <1>c, <1>t, <2>1, <2>2, MemoryClosed DEF Recover
  <1>8. CASE PassOver(s)
    BY <1>0, <1>8, <1>t, <1>p DEF PassOver, Skip, MemoryOf, At, InTurn, Below
  <1>9. CASE AcquireMasterLock(s)
    <2>1. /\ Turn(s) \in Installed /\ session'[s][Turn(s)] = "open"
          /\ \A d \in Db \ {Turn(s)} : session'[s][d] = session[s][d]
      BY <1>9, <1>0, <1>t DEF AcquireMasterLock, MemoryInv, SvTypeOK
    <2>2. server'[s].at = "reading" /\ Turn(s)' = Turn(s)
      BY <1>9, <1>t DEF AcquireMasterLock, GoTo, Turn
    <2>3. known' = known /\ memory' = memory /\ row' = row /\ At(s, "opening")
      BY <1>9 DEF AcquireMasterLock
    <2>. QED
      BY <1>0, <1>t, <1>p, <2>1, <2>2, <2>3 DEF MemoryOf, At, InTurn, Below
  <1>10. CASE ReadJobs(s)
    <2>. DEFINE jobs == {j \in Job : DbOf[j] = Turn(s) /\ row[j] # "done"}
    <2>1. /\ At(s, "reading") /\ server'[s].at = "opening" /\ UNCHANGED <<session, row>>
          /\ jobs \in SUBSET Job /\ NotifyEach(s, jobs) /\ Configured(text) \subseteq known[s]
      BY <1>10, <1>t DEF ReadJobs, Skip, MemoryOf, At
    <2>2. /\ Configured(text) \subseteq known'[s]
          /\ \A j \in jobs : row[j] = "enqueued" => memory'[s][j].state = "enqueued"
          /\ \A j \in Job \ jobs : memory'[s][j] = memory[s][j]
          /\ Plain => \A j \in Job : memory'[s][j] = Unknown \/ Below(j, memory'[s][j].channel)
      BY <1>c, <2>1, MemoryNotified
    <2>. QED
      BY <1>0, <1>t, <1>p, <2>1, <2>2 DEF MemoryOf, At, InTurn, Below
  <1>11. CASE StartLoop(s) \/ Sweep(s) \/ BeginPass(s) \/ EndTurn(s)
    <2>1. /\ server'[s].at \in InTurn /\ server[s].at \in {"opening"} \cup InTurn
          /\ UNCHANGED <<session, known, memory, row>>
      BY <1>11, <1>t DEF StartLoop, Sweep, BeginPass, EndTurn, GoTo, At, InTurn
    <2>. QED
      BY <1>0, <1>t, <1>p, <2>1 DEF MemoryOf, At, InTurn, Below
  <1>12. ASSUME NEW j \in Job, ProcessNotification(s, j)
         PROVE  MemoryOf(s)'
    <2>1. /\ At(s, "handling") /\ UNCHANGED <<server, session, row>>
          /\ {j} \in SUBSET Job /\ NotifyEach(s, {j}) /\ Configured(text) \subseteq known[s]
      BY <1>12, <1>t DEF ProcessNotification, MemoryOf, At
    <2>2. /\ Configured(text) \subseteq known'[s]
          /\ \A i \in {j} : row[i] = "enqueued" => memory'[s][i].state = "enqueued"
          /\ \A i \in Job \ {j} : memory'[s][i] = memory[s][i]
          /\ Plain => \A i \in Job : memory'[s][i] = Unknown \/ Below(i, memory'[s][i].channel)
      BY <1>c, <2>1, MemoryNotified
    <2>. QED
      BY <1>0, <1>t, <1>p, <2>1, <2>2 DEF MemoryOf, At, InTurn, Below
  <1>13. ASSUME NEW j \in Job, RunJob(s, j)
         PROVE  MemoryOf(s)'
    <2>1. /\ At(s, "passing") /\ UNCHANGED <<server, session, known>>
          /\ memory[s][j].state = "pending"
          /\ memory'[s][j].state = "enqueued" /\ memory'[s][j].channel = memory[s][j].channel
          /\ \A i \in Job \ {j} : memory'[s][i] = memory[s][i] /\ row'[i] = row[i]
      BY <1>13 DEF RunJob, MemoryInv, SvTypeOK
    <2>2. memory[s][j] # Unknown
      BY <2>1 DEF Unknown
    <2>. QED
      BY <1>0, <1>t, <1>p, <2>1, <2>2 DEF MemoryOf, At, InTurn, Below
  <1>. QED
    BY <1>1, <1>2, <1>3, <1>4, <1>5, <1>6, <1>7, <1>8, <1>9, <1>10, <1>11, <1>12, <1>13 DEF Step

\* The invariant holds at the start and is kept.
LEMMA MemoryInit == SvInit => MemoryInv
  <1>1. SvInit => \A s \in Server : MemoryOf(s)
    BY ServersAssumption DEF SvInit, MemoryOf, At, Down, InTurn
  <1>. QED
    BY <1>1, SvTypeInit, ElectionInit DEF SvInit, MemoryInv

LEMMA MemoryNext == MemoryInv /\ [SvNext]_svVars => MemoryInv'
  <1>. SUFFICES ASSUME MemoryInv, [SvNext]_svVars PROVE MemoryInv'
    OBVIOUS
  <1>. DEFINE Kept == /\ known' = [t \in Server |-> known'[t]]
                      /\ \A t \in Server : MemoryOf(t)'
  <1>0. /\ \A j \in Job : DbOf[j] \in Db
        /\ SvTypeOK' /\ ElectionInv'
    BY ServersAssumption, SvTypeNext, ElectionNext DEF MemoryInv
  <1>1. ASSUME NEW s \in Server, Spawn(s) \/ Step(s)
        PROVE  Kept
    <2>1. known' = [t \in Server |-> known'[t]]
      <3>1. CASE \E j \in Job : ProcessNotification(s, j)
        <4>1. PICK names : known' = [known EXCEPT ![s] = known[s] \cup names]
          BY <3>1, NotifyEffect, ZenonT(40) DEF ProcessNotification, MemoryInv
        <4>. QED
          BY <4>1 DEF MemoryInv
      <3>2. CASE ReadJobs(s)
        <4>1. PICK names : known' = [known EXCEPT ![s] = known[s] \cup names]
          BY <3>2, NotifyEffect DEF ReadJobs, MemoryInv
        <4>. QED
          BY <4>1 DEF MemoryInv
      <3>3. CASE Spawn(s) \/ Rebuild(s) \/ End(s) \/ Outer(s) \/ Leave(s)
        BY <3>3 DEF Spawn, Rebuild, End, Outer, Leave, Left, Fresh, Forget, MemoryInv
      <3>4. CASE UNCHANGED known
        BY <3>4 DEF MemoryInv
      <3>5. ASSUME NEW j \in Job, RunJob(s, j)
            PROVE  UNCHANGED known
        BY <3>5 DEF RunJob
      <3>. QED
        BY <1>1, <3>1, <3>2, <3>3, <3>4, <3>5
        DEF Step, Work, PassOver, AcquireMasterLock, ElectionLost, SessionLost, Recover,
            StartLoop, Sweep, BeginPass, EndTurn
    <2>2. ASSUME NEW t \in Server \ {s}
          PROVE  MemoryOf(t)'
      <3>1. /\ server'[t] = server[t] /\ session'[t] = session[t]
            /\ known'[t] = known[t] /\ memory'[t] = memory[t]
        BY <1>1, OthersUntouched
      <3>2. text' = text
        BY <1>1
        DEF Spawn, Step, Work, End, Rebuild, Outer, Leave, PassOver, AcquireMasterLock,
            ElectionLost, ReadJobs, StartLoop, SessionLost, Sweep, BeginPass, EndTurn,
            ProcessNotification, RunJob, Recover
      <3>3. ASSUME NEW j \in Job, session[t][DbOf[j]] = "open", row'[j] = "enqueued"
            PROVE  row[j] = "enqueued"
        <4>1. CASE UNCHANGED row
          BY <3>3, <4>1
        <4>2. ASSUME NEW i \in Job, RunJob(s, i)
              PROVE  row[j] = "enqueued"
          <5>1. session[s][DbOf[i]] = "open" /\ row' = [row EXCEPT ![i] = "enqueued"]
            BY <4>2 DEF RunJob
          <5>2. DbOf[i] # DbOf[j]
            BY <1>0, <3>3, <5>1, OneSession DEF MemoryInv
          <5>. QED
            BY <3>3, <5>1, <5>2 DEF MemoryInv, SvTypeOK
        <4>. QED
          BY <1>1, <4>1, <4>2
          DEF Spawn, Step, Work, End, Rebuild, Outer, Leave, PassOver, AcquireMasterLock,
              ElectionLost, ReadJobs, StartLoop, SessionLost, Sweep, BeginPass, EndTurn,
              ProcessNotification, Recover
      <3>. QED
        BY <3>1, <3>2, <3>3, MemoryKept
    <2>. QED
      BY <1>1, <2>1, <2>2, MemoryStep
  <1>2. ASSUME NEW s \in Server, Kill(s)
        PROVE  Kept
    <2>1. /\ \A d \in Db : session'[s][d] = "none"
          /\ server'[s].at = "down"
          /\ memory'[s] = [j \in Job |-> Unknown] /\ text' = text
      BY <1>2 DEF Kill, Forget, Down, MemoryInv, SvTypeOK
    <2>2. ASSUME NEW t \in Server \ {s}
          PROVE  MemoryOf(t)'
      <3>1. /\ server'[t] = server[t] /\ session'[t] = session[t] /\ row' = row
            /\ known'[t] = known[t] /\ memory'[t] = memory[t] /\ text' = text
        BY <1>2 DEF Kill, Forget, MemoryInv, SvTypeOK
      <3>. QED
        BY <3>1, MemoryKept
    <2>3. known' = [t \in Server |-> known'[t]]
      BY <1>2 DEF Kill, Forget, MemoryInv
    <2>. QED
      BY <2>1, <2>2, <2>3, MemoryReset
  <1>3. ASSUME UNCHANGED <<text, known, memory>>,
               \A t \in Server : /\ server'[t].at = server[t].at
                                 /\ server'[t].next = server[t].next
                                 /\ \A d \in Db : /\ session[t][d] = "none" <=> session'[t][d] = "none"
                                                  /\ session'[t][d] = "open" => session[t][d] = "open",
               \A j \in Job : row'[j] = "enqueued" => row[j] = "enqueued"
        PROVE  Kept
    <2>1. ASSUME NEW t \in Server
          PROVE  MemoryOf(t)'
      BY <1>3, MemoryKept
    <2>. QED
      BY <1>3, <2>1 DEF MemoryInv
  <1>4. ASSUME NEW j \in Job, EndJob(j)
        PROVE  Kept
    <2>1. \A i \in Job : row'[i] = "enqueued" => row[i] = "enqueued"
      BY <1>4 DEF EndJob, MemoryInv, SvTypeOK
    <2>. QED
      BY <1>3, <1>4, <2>1 DEF EndJob
  <1>5. ASSUME NEW s \in Server, Interrupt(s) \/ TimeExpired(s)
        PROVE  Kept
    <2>1. \A t \in Server : server'[t].at = server[t].at /\ server'[t].next = server[t].next
      <3>1. CASE Interrupt(s)
        BY <3>1 DEF Interrupt, MemoryInv, SvTypeOK
      <3>2. CASE TimeExpired(s)
        BY <3>2 DEF TimeExpired, MemoryInv, SvTypeOK
      <3>. QED
        BY <1>5, <3>1, <3>2
    <2>. QED
      BY <1>3, <1>5, <2>1 DEF Interrupt, TimeExpired
  <1>6. ASSUME NEW s \in Server, NEW e \in Db, Break(s, e)
        PROVE  Kept
    <2>1. \A t \in Server, d \in Db :
            /\ session[t][d] = "none" <=> session'[t][d] = "none"
            /\ session'[t][d] = "open" => session[t][d] = "open"
      BY <1>6 DEF Break, MemoryInv, SvTypeOK
    <2>. QED
      BY <1>3, <1>6, <2>1 DEF Break
  <1>7. ASSUME NEW e \in Db, Expire(e)
        PROVE  Kept
    BY <1>3, <1>7 DEF Expire
  <1>8. ASSUME UNCHANGED svVars
        PROVE  Kept
    <2>1. UNCHANGED <<text, known, memory, server, session, row>>
      BY <1>8 DEF svVars
    <2>2. \A t \in Server : /\ server'[t].at = server[t].at
                            /\ server'[t].next = server[t].next
                            /\ \A d \in Db : /\ session[t][d] = "none" <=> session'[t][d] = "none"
                                             /\ session'[t][d] = "open" => session[t][d] = "open"
      BY <2>1
    <2>3. \A j \in Job : row'[j] = "enqueued" => row[j] = "enqueued"
      BY <2>1
    <2>. QED
      BY <1>3, <2>1, <2>2, <2>3
  <1>. HIDE DEF Kept
  <1>9. ASSUME SvNext
        PROVE  Kept
    BY <1>1, <1>2, <1>4, <1>5, <1>6, <1>7, <1>9 DEF SvNext
  <1>. QED
    BY <1>0, <1>8, <1>9 DEF MemoryInv, Kept

LEMMA MemoryInvariant == SvSpec => []MemoryInv
  BY MemoryInit, MemoryNext, PTL DEF SvSpec

\* THEOREM: every variable of the servers has its type.
THEOREM SvTypeCorrect == SvSpec => []SvTypeOK
  BY SvTypeInit, SvTypeNext, PTL DEF SvSpec

\* THEOREM: a runner in its loop counts every job that is enqueued in a database
\* it serves, although others enqueued or ended it before.
THEOREM RunningIsCounted == SvSpec => []RunningCounted
  <1>1. MemoryInv => RunningCounted
    BY DEF MemoryInv, MemoryOf, RunningCounted, At, InTurn
  <1>. QED
    BY <1>1, MemoryInvariant, PTL

\* THEOREM: a job that falls back is below the nearest channel of the text,
\* whatever channels earlier jobs created.
THEOREM PlacedBelowNearest == SvSpec => []NearestConfigured
  <1>1. MemoryInv => NearestConfigured
    BY DEF MemoryInv, MemoryOf, NearestConfigured, Below
  <1>. QED
    BY <1>1, MemoryInvariant, PTL

-----------------------------------------------------------------------------
(* The order in which databases are opened *)

\* Every list of numbers has a sorted arrangement: the place of an entry is the
\* number of entries that are smaller, or equal and not after it.
LEMMA SortedArranges ==
  ASSUME NEW names \in Seq(Nat)
  PROVE  /\ Sorted(names) \in Seq(Nat) /\ Range(Sorted(names)) = Range(names)
         /\ \A i, j \in DOMAIN Sorted(names) : i <= j => Sorted(names)[i] <= Sorted(names)[j]
  <1>. DEFINE n == Len(names)
              D == 1 .. n
              Precedes(i, j) == names[i] < names[j] \/ (names[i] = names[j] /\ i <= j)
              Upto(j) == {i \in D : Precedes(i, j)}
              rank == [j \in D |-> Cardinality(Upto(j))]
              arranged == {[i \in D |-> names[p[i]]] : p \in Orders(n)}
              InOrder(t) == \A i, j \in D : i <= j => t[i] <= t[j]
  <1>1. n \in Nat /\ \A i \in D : i \in Nat /\ names[i] \in Nat
    OBVIOUS
  <1>2. IsFiniteSet(D) /\ Cardinality(D) = n
    <2>. DEFINE m == n
    <2>. HIDE DEF m
    <2>1. m \in Nat /\ 1 \in Int /\ m \in Int
      BY <1>1 DEF m
    <2>2. IsFiniteSet(1 .. m) /\ Cardinality(1 .. m) = IF 1 > m THEN 0 ELSE m - 1 + 1
      BY <2>1, FS_Interval
    <2>3. IsFiniteSet(1 .. m) /\ Cardinality(1 .. m) = m
      BY <2>1, <2>2
    <2>. QED
      BY <2>3 DEF m
  <1>3. \A j \in D : /\ Upto(j) \in SUBSET D /\ j \in Upto(j) /\ IsFiniteSet(Upto(j))
                     /\ Cardinality(Upto(j)) \in D
    <2>. SUFFICES ASSUME NEW j \in D
                  PROVE  /\ Upto(j) \in SUBSET D /\ j \in Upto(j) /\ IsFiniteSet(Upto(j))
                         /\ Cardinality(Upto(j)) \in D
      OBVIOUS
    <2>1. Upto(j) \in SUBSET D /\ j \in Upto(j)
      BY <1>1
    <2>. HIDE DEF Upto, D
    <2>2. IsFiniteSet(Upto(j)) /\ Cardinality(Upto(j)) <= n /\ Cardinality(Upto(j)) \in Nat
      BY <1>2, <2>1, FS_Subset, FS_CardinalityType
    <2>3. Cardinality(Upto(j)) # 0
      BY <2>1, <2>2, FS_EmptySet
    <2>. QED
      BY <1>1, <2>1, <2>2, <2>3 DEF D
  <1>4. \A i, j \in D : Precedes(i, j) \/ Precedes(j, i)
    BY <1>1
  <1>5. \A i, j \in D : i # j /\ Precedes(i, j) => Upto(i) \subseteq Upto(j) /\ j \notin Upto(i)
    BY <1>1
  <1>. HIDE DEF Upto, D
  <1>6. \A i, j \in D : i # j /\ Precedes(i, j) => rank[i] < rank[j]
    <2>. SUFFICES ASSUME NEW i \in D, NEW j \in D, i # j, Precedes(i, j)
                  PROVE  Cardinality(Upto(i)) < Cardinality(Upto(j))
      OBVIOUS
    <2>1. Upto(i) \in SUBSET Upto(j) /\ Upto(i) # Upto(j)
      BY <1>3, <1>5
    <2>2. Cardinality(Upto(i)) \in Nat /\ Cardinality(Upto(j)) \in Nat
      BY <1>3, FS_CardinalityType
    <2>. QED
      BY <1>3, <2>1, <2>2, FS_Subset
  <1>7. rank \in [D -> D] /\ \A j \in D : rank[j] \in Nat
    BY <1>1, <1>3 DEF D
  <1>. HIDE DEF rank
  <1>8. rank \in Injection(D, D)
    <2>1. \A i, j \in D : rank[i] = rank[j] => i = j
      BY <1>4, <1>6, <1>7
    <2>. HIDE DEF Precedes
    <2>. QED
      BY <1>7, <2>1 DEF Injection, IsInjective
  <1>9. rank \in Surjection(D, D)
    BY <1>2, <1>8, FS_Injection
  <1>. DEFINE place == [k \in D |-> CHOOSE j \in D : rank[j] = k]
  <1>10. place \in [D -> D] /\ \A k \in D : rank[place[k]] = k
    BY <1>9 DEF Surjection
  <1>11. \A j \in D : place[rank[j]] = j
    BY <1>7, <1>8, <1>10 DEF Injection, IsInjective
  <1>. HIDE DEF place
  <1>12. place \in Orders(n)
    <2>1. \A k, l \in D : place[k] = place[l] => k = l
      BY <1>10
    <2>2. \A j \in D : \E k \in D : place[k] = j
      BY <1>7, <1>11
    <2>. QED
      BY <1>10, <2>1, <2>2 DEF Orders, Bijection, Injection, IsInjective, Surjection, D
  <1>13. InOrder([i \in D |-> names[place[i]]])
    <2>. SUFFICES ASSUME NEW i \in D, NEW j \in D, i <= j, ~(names[place[i]] <= names[place[j]])
                  PROVE  FALSE
      OBVIOUS
    <2>1. place[i] \in D /\ place[j] \in D /\ names[place[i]] \in Nat /\ names[place[j]] \in Nat
      BY <1>1, <1>10
    <2>2. Precedes(place[j], place[i]) /\ place[i] # place[j]
      BY <2>1
    <2>3. rank[place[j]] < rank[place[i]]
      BY <1>6, <2>1, <2>2
    <2>. QED
      BY <1>1, <1>10, <2>3
  <1>14. \E t \in arranged : InOrder(t)
    BY <1>12, <1>13
  <1>15. Sorted(names) = CHOOSE t \in arranged : InOrder(t)
    BY DEF Sorted, D
  <1>16. Sorted(names) \in arranged /\ InOrder(Sorted(names))
    <2>. HIDE DEF arranged, InOrder
    <2>. QED
      BY <1>14, <1>15
  <1>17. PICK p \in Orders(n) : Sorted(names) = [i \in D |-> names[p[i]]]
    BY <1>16
  <1>18. p \in [D -> D] /\ \A j \in D : \E k \in D : p[k] = j
    BY DEF Orders, Bijection, Surjection, Injection, D
  <1>19. DOMAIN Sorted(names) = D /\ \A i \in D : Sorted(names)[i] = names[p[i]] /\ names[p[i]] \in Nat
    BY <1>1, <1>17, <1>18
  <1>20. Sorted(names) \in Seq(Nat)
    <2>1. Sorted(names) \in [1 .. n -> Nat]
      BY <1>17, <1>19 DEF D
    <2>. QED
      BY <1>1, <2>1
  <1>21. Range(Sorted(names)) = Range(names)
    <2>1. DOMAIN names = D
      BY DEF D
    <2>. QED
      BY <1>18, <1>19, <2>1 DEF Range
  <1>. QED
    BY <1>16, <1>19, <1>20, <1>21

-----------------------------------------------------------------------------
(* The order of the elections *)

\* While a runner opens its databases, those it has are among those before the
\* next one, or the one it reads.
Taken(s) ==
  server[s].at \in {"opening", "reading"} =>
    \A d \in Db : session[s][d] # "none" =>
      \E i \in 1 .. server[s].next :
        Opened[s][i] = d /\ (At(s, "opening") => i # server[s].next)

OrderInv == MemoryInv /\ \A s \in Server : Taken(s)

LEMMA TakenKept ==
  ASSUME OrderInv, NEW t \in Server,
         server'[t].at = server[t].at, server'[t].next = server[t].next,
         \A d \in Db : session[t][d] = "none" <=> session'[t][d] = "none"
  PROVE  Taken(t)'
  BY DEF OrderInv, Taken, At

LEMMA TakenStep ==
  ASSUME OrderInv, NEW s \in Server, Spawn(s) \/ Step(s)
  PROVE  Taken(s)'
  <1>t. /\ server \in [Server -> ServerStates] /\ server[s] \in ServerStates
        /\ session \in [Server -> [Db -> {"none", "open", "broken"}]]
        /\ server[s].next \in Nat \ {0} /\ Installed \subseteq Db
        /\ Taken(s) /\ MemoryOf(s)
    BY ServersAssumption DEF OrderInv, MemoryInv, SvTypeOK, ServerStates
  <1>1. ASSUME server'[s].at \notin {"opening", "reading"}
        PROVE  Taken(s)'
    BY <1>1 DEF Taken
  <1>2. CASE Spawn(s) \/ End(s)
    <2>1. CASE Spawn(s)
      BY <1>1, <1>t, <2>1 DEF Spawn, Down
    <2>2. CASE End(s)
      BY <1>1, <1>t, <2>2 DEF End, Down
    <2>. QED
      BY <1>2, <2>1, <2>2
  <1>3. CASE Work(s) \/ Rebuild(s)
    BY <1>1, <1>3, <1>t DEF Work, Rebuild, GoTo, ServerStates
  <1>4. CASE Outer(s)
    <2>1. CASE server[s].told
      BY <1>1, <1>4, <1>t, <2>1 DEF Outer, Left, Down, ServerStates
    <2>2. CASE ~server[s].told
      <3>1. server[s].at \in {"starting", "resting"} /\ session' = session
        BY <1>4 DEF Outer
      <3>2. \A d \in Db : session'[s][d] = "none"
        BY <1>t, <3>1 DEF MemoryOf, InTurn
      <3>. QED
        BY <3>2 DEF Taken
    <2>. QED
      BY <2>1, <2>2
  <1>5. CASE Leave(s)
    BY <1>1, <1>5, <1>t DEF Leave, Left, Down, ServerStates
  <1>6. CASE ElectionLost(s) \/ SessionLost(s)
    <2>1. Recover(s)
      BY <1>6 DEF ElectionLost, SessionLost
    <2>. QED
      BY <1>1, <1>t, <2>1 DEF Recover, ServerStates
  <1>7. CASE PassOver(s) \/ ReadJobs(s)
    <2>1. /\ server[s].at \in {"opening", "reading"}
          /\ server'[s].at = "opening" /\ server'[s].next = server[s].next + 1
          /\ session' = session
      BY <1>7, <1>t DEF PassOver, ReadJobs, Skip, At, ServerStates
    <2>2. ASSUME NEW d \in Db, session'[s][d] # "none"
          PROVE  \E i \in 1 .. server'[s].next : Opened[s][i] = d /\ i # server'[s].next
      <3>1. PICK i \in 1 .. server[s].next : Opened[s][i] = d
        BY <1>t, <2>1, <2>2 DEF Taken
      <3>2. i \in 1 .. server'[s].next /\ i # server'[s].next
        BY <1>t, <2>1, <3>1
      <3>. QED
        BY <3>1, <3>2
    <2>. QED
      BY <2>1, <2>2 DEF Taken, At
  <1>8. CASE AcquireMasterLock(s)
    <2>1. /\ server[s].at = "opening" /\ server'[s].at = "reading"
          /\ server'[s].next = server[s].next
          /\ Turn(s) = Opened[s][server[s].next]
      BY <1>8, <1>t DEF AcquireMasterLock, GoTo, At, Turn, ServerStates
    <2>2. \A d \in Db : d # Turn(s) => session'[s][d] = session[s][d]
      BY <1>8, <1>t DEF AcquireMasterLock
    <2>3. ASSUME NEW d \in Db, session'[s][d] # "none"
          PROVE  \E i \in 1 .. server[s].next : Opened[s][i] = d
      <3>1. CASE d = Turn(s)
        BY <1>t, <2>1, <3>1
      <3>2. CASE d # Turn(s)
        BY <1>t, <2>1, <2>2, <2>3, <3>2 DEF Taken
      <3>. QED
        BY <3>1, <3>2
    <2>. QED
      BY <2>1, <2>3 DEF Taken, At
  <1>9. CASE StartLoop(s) \/ Sweep(s) \/ BeginPass(s) \/ EndTurn(s)
    BY <1>1, <1>9, <1>t DEF StartLoop, Sweep, BeginPass, EndTurn, GoTo, ServerStates
  <1>10. CASE \E j \in Job : ProcessNotification(s, j) \/ RunJob(s, j)
    BY <1>10, TakenKept DEF ProcessNotification, RunJob
  <1>. QED
    BY <1>2, <1>3, <1>4, <1>5, <1>6, <1>7, <1>8, <1>9, <1>10 DEF Step

LEMMA OrderNext == OrderInv /\ [SvNext]_svVars => OrderInv'
  <1>. SUFFICES ASSUME OrderInv, [SvNext]_svVars PROVE OrderInv'
    OBVIOUS
  <1>0. MemoryInv /\ MemoryInv'
    BY MemoryNext DEF OrderInv
  <1>1. ASSUME NEW s \in Server, Spawn(s) \/ Step(s)
        PROVE  OrderInv'
    <2>1. \A t \in Server \ {s} : server'[t] = server[t] /\ session'[t] = session[t]
      BY <1>0, <1>1, OthersUntouched
    <2>2. \A t \in Server : Taken(t)'
      BY <1>1, <2>1, TakenKept, TakenStep
    <2>. QED
      BY <1>0, <2>2 DEF OrderInv
  <1>2. ASSUME \A t \in Server : /\ server'[t].at = server[t].at
                                  /\ server'[t].next = server[t].next
                                  /\ \A d \in Db : session[t][d] = "none" <=> session'[t][d] = "none"
        PROVE  OrderInv'
    BY <1>0, <1>2, TakenKept DEF OrderInv
  <1>3. ASSUME NEW s \in Server, Kill(s)
        PROVE  OrderInv'
    <2>1. /\ server'[s] = Down
          /\ \A t \in Server \ {s} : server'[t] = server[t] /\ session'[t] = session[t]
      BY <1>0, <1>3 DEF Kill, MemoryInv, SvTypeOK
    <2>2. Taken(s)'
      BY <2>1 DEF Taken, Down
    <2>. QED
      BY <1>0, <2>1, <2>2, TakenKept DEF OrderInv
  <1>4. ASSUME NEW j \in Job, EndJob(j)
        PROVE  OrderInv'
    BY <1>2, <1>4 DEF EndJob
  <1>5. ASSUME NEW s \in Server, Interrupt(s) \/ TimeExpired(s)
        PROVE  OrderInv'
    <2>1. \A t \in Server : server'[t].at = server[t].at /\ server'[t].next = server[t].next
      <3>1. CASE Interrupt(s)
        BY <1>0, <3>1 DEF Interrupt, MemoryInv, SvTypeOK
      <3>2. CASE TimeExpired(s)
        BY <1>0, <3>2 DEF TimeExpired, MemoryInv, SvTypeOK
      <3>. QED
        BY <1>5, <3>1, <3>2
    <2>. QED
      BY <1>2, <1>5, <2>1 DEF Interrupt, TimeExpired
  <1>6. ASSUME NEW s \in Server, NEW e \in Db, Break(s, e)
        PROVE  OrderInv'
    <2>1. \A t \in Server, d \in Db : session[t][d] = "none" <=> session'[t][d] = "none"
      BY <1>0, <1>6 DEF Break, MemoryInv, SvTypeOK
    <2>. QED
      BY <1>2, <1>6, <2>1 DEF Break
  <1>7. ASSUME NEW e \in Db, Expire(e)
        PROVE  OrderInv'
    BY <1>2, <1>7 DEF Expire
  <1>8. CASE UNCHANGED svVars
    BY <1>2, <1>8 DEF svVars
  <1>. QED
    BY <1>1, <1>3, <1>4, <1>5, <1>6, <1>7, <1>8 DEF SvNext

\* What a runner has is not after what it is about to ask for.
LEMMA TakenBefore ==
  ASSUME OrderInv, NEW s \in Opening, NEW d \in Db, session[s][d] # "none"
  PROVE  d \in Nat /\ Turn(s) \in Nat /\ d <= Turn(s)
  <1>1. /\ s \in Server /\ server[s].at = "opening" /\ server[s].next \in Nat \ {0}
        /\ server[s].next <= Len(Opened[s])
    BY DEF Opening, At, HasNext, OrderInv, MemoryInv, SvTypeOK
  <1>2. /\ Opened[s] \in Seq(Nat)
        /\ \A i, j \in DOMAIN Opened[s] : i <= j => Opened[s][i] <= Opened[s][j]
    BY <1>1, ServersAssumption, SortedArranges DEF Opened
  <1>3. PICK i \in 1 .. server[s].next : Opened[s][i] = d
    BY <1>1 DEF OrderInv, Taken
  <1>4. i \in DOMAIN Opened[s] /\ server[s].next \in DOMAIN Opened[s] /\ i <= server[s].next
    BY <1>1, <1>2
  <1>. QED
    BY <1>2, <1>3, <1>4 DEF Turn

\* THEOREM: runners that open their databases never stand in each other's way,
\* whatever lists of databases they have and whatever fails meanwhile: what each
\* has comes before what it is about to ask for in the one order of the names.
THEOREM ElectionsInOrder == SvSpec => []NeverCrosswise
  <1>1. SvInit => OrderInv
    BY MemoryInit DEF OrderInv, Taken, SvInit, Down
  <1>2. OrderInv => NeverCrosswise
    <2>. SUFFICES ASSUME OrderInv, NEW s \in Opening, NEW t \in Opening, s # t,
                         session[t][Turn(s)] = "open", session[s][Turn(t)] = "open"
                  PROVE  FALSE
      BY DEF NeverCrosswise
    <2>1. s \in Server /\ t \in Server /\ ElectionInv
      BY DEF Opening, OrderInv, MemoryInv
    <2>2. Turn(s) \in Db /\ Turn(t) \in Db
      <3>1. ASSUME NEW q \in Opening
            PROVE  Turn(q) \in Db
        <4>1. /\ q \in Server /\ server[q].next \in Nat \ {0}
              /\ server[q].next <= Len(Opened[q])
          BY DEF Opening, HasNext, OrderInv, MemoryInv, SvTypeOK
        <4>2. Opened[q] \in Seq(Nat) /\ Range(Opened[q]) = Range(DbNames[q])
          BY <4>1, ServersAssumption, SortedArranges DEF Opened
        <4>3. Turn(q) \in Range(Opened[q])
          BY <4>1, <4>2 DEF Turn, Range
        <4>. QED
          BY <4>1, <4>2, <4>3 DEF Db
      <3>. QED
        BY <3>1
    <2>3. Turn(s) <= Turn(t) /\ Turn(t) <= Turn(s) /\ Turn(s) \in Nat /\ Turn(t) \in Nat
      BY <2>1, <2>2, TakenBefore
    <2>4. Turn(s) = Turn(t)
      BY <2>3
    <2>. QED
      BY <2>1, <2>2, <2>4, OneSession
  <1>. QED
    BY <1>1, <1>2, OrderNext, PTL DEF SvSpec

-----------------------------------------------------------------------------
(* The capacity of the fleet *)

\* Every server lists every database with queue_job.
Shared == \A s \in Server : Installed \subseteq Range(DbNames[s])

LEMMA SharedOpened ==
  ASSUME Shared
  PROVE  \A s \in Server : Opened[s] \in Seq(Nat) /\ Installed \subseteq Range(Opened[s])
  BY ServersAssumption, SortedArranges DEF Shared, Opened

\* Between the statement that opens a turn and its end, with a session left.
Serving(s) ==
  /\ server[s].at \in {"handling", "passing"}
  /\ \E d \in Db : session[s][d] = "open"

\* The databases before the next one were tried, all of them once in the loop.
Tried(s) ==
  /\ server[s].at \notin {"opening", "reading"} \cup InTurn => server[s].next = 1
  /\ server[s].at \in {"opening", "reading"} =>
       \A i \in 1 .. server[s].next - 1 :
         Opened[s][i] \in Installed => session[s][Opened[s][i]] # "none"
  /\ server[s].at \in InTurn => \A d \in Installed : session[s][d] # "none"

\* A runner that lost some sessions may still let jobs through by the others:
\* as long as it has one no other runner is in a turn, and it counts the jobs of
\* all databases, also of those it lost.
FleetInv ==
  /\ MemoryInv
  /\ \A s \in Server : Tried(s)
  /\ \A s, t \in Server : Serving(s) /\ Serving(t) => s = t
  /\ \A s \in Server, j \in Job :
       Serving(s) /\ row[j] = "enqueued" => memory[s][j].state = "enqueued"
  /\ FleetWithinCapacity

\* The limit of a channel is a number, if it has one.
LEMMA LimitIsNumber ==
  ASSUME text \in Texts, NEW c
  PROVE  LimitOf(text, c) \in Nat \cup {Unlimited}
  <1>1. text \in Seq(Entries)
    BY ServersAssumption
  <1>2. ASSUME NEW e \in Entries
        PROVE  Parsed(e).capacity \in Nat \cup {Unlimited}
    BY DEF Parsed, Entries
  <1>. DEFINE given == {n \in DOMAIN text : FullName(text[n].name) = c}
  <1>3. ASSUME given # {}
        PROVE  (CHOOSE n \in given : \A o \in given : o <= n) \in DOMAIN text
    <2>1. given \in SUBSET (0 .. Len(text)) /\ Len(text) \in Nat /\ given \subseteq DOMAIN text
      BY <1>1
    <2>. HIDE DEF given
    <2>2. \E n \in given : \A o \in given : o <= n
      BY <1>3, <2>1, LargestNumber
    <2>. QED
      BY <2>1, <2>2
  <1>4. CapacityOf(text, c) \in Nat \cup {Unlimited}
    <2>1. CASE given # {}
      <3>1. PICK n \in DOMAIN text : CapacityOf(text, c) = Parsed(text[n]).capacity
        BY <1>3, <2>1 DEF CapacityOf
      <3>. QED
        BY <1>1, <1>2, <3>1
    <2>2. CASE given = {}
      BY <2>2 DEF CapacityOf
    <2>. QED
      BY <2>1, <2>2
  <1>. QED
    BY <1>4 DEF LimitOf

\* The jobs enqueued in a channel, in the whole fleet.
Enqueued(c) == {j \in Job : row[j] = "enqueued" /\ IsPrefix(c, FullChannelOf(j))}

\* A step that lets no job through and begins no turn.
LEMMA FleetKept ==
  ASSUME FleetInv, MemoryInv', text' = text, \A t \in Server : Tried(t)',
         \A t \in Server : Serving(t)' => Serving(t),
         \A j \in Job : row'[j] = "enqueued" => row[j] = "enqueued",
         \A t \in Server, j \in Job :
           Serving(t)' /\ memory[t][j].state = "enqueued" /\ row'[j] = "enqueued"
             => memory'[t][j].state = "enqueued"
  PROVE  FleetInv'
  <1>1. /\ Configured(text)' = Configured(text) /\ (Plain <=> Plain')
        /\ \A c : LimitOf(text, c)' = LimitOf(text, c)
    BY DEF Configured, Plain, LimitOf, CapacityOf
  <1>2. FleetWithinCapacity'
    <2>1. SUFFICES ASSUME Plain, NEW c \in Configured(text), LimitOf(text, c) # Unlimited
                   PROVE  Cardinality(Enqueued(c)') <= LimitOf(text, c)
      BY <1>1 DEF FleetWithinCapacity, Enqueued
    <2>2. Enqueued(c)' \subseteq Enqueued(c) /\ Enqueued(c) \subseteq Job
      BY DEF Enqueued
    <2>3. /\ IsFiniteSet(Enqueued(c)) /\ IsFiniteSet(Enqueued(c)')
          /\ Cardinality(Enqueued(c)') <= Cardinality(Enqueued(c))
          /\ Cardinality(Enqueued(c)) \in Nat /\ Cardinality(Enqueued(c)') \in Nat
      BY <2>2, ServersAssumption, FS_Subset, FS_CardinalityType
    <2>4. Cardinality(Enqueued(c)) <= LimitOf(text, c)
      BY <2>1 DEF FleetInv, FleetWithinCapacity, Enqueued
    <2>5. LimitOf(text, c) \in Nat
      BY <2>1, LimitIsNumber DEF FleetInv, MemoryInv, SvTypeOK
    <2>. QED
      BY <2>3, <2>4, <2>5
  <1>. QED
    BY <1>2 DEF FleetInv

\* After the statement on all databases a runner has them all, so that no other
\* runner has a session, and it counts every job that is enqueued.
LEMMA FleetAtSweep ==
  ASSUME FleetInv, MemoryInv', NEW s \in Server, Sweep(s), \A t \in Server : Tried(t)'
  PROVE  FleetInv'
  <1>1. /\ At(s, "looping") /\ \A d \in Db : session[s][d] # "none" => session[s][d] = "open"
        /\ server' = [server EXCEPT ![s].at = "handling"]
        /\ UNCHANGED <<text, session, memory, row>>
    BY DEF Sweep, GoTo, OpenDbs
  <1>2. \A d \in Installed : session[s][d] = "open" /\ d \in Db
    BY <1>1, ServersAssumption DEF FleetInv, Tried, At, InTurn
  <1>3. ASSUME NEW t \in Server, t # s
        PROVE  ~Serving(t)
    <2>1. ASSUME NEW d \in Db, session[t][d] = "open"
          PROVE  FALSE
      <3>1. d \in Installed
        BY <2>1 DEF FleetInv, MemoryInv, MemoryOf
      <3>. QED
        BY <1>2, <1>3, <2>1, <3>1, OneSession DEF FleetInv, MemoryInv
    <2>. QED
      BY <2>1 DEF Serving
  <1>4. \A t \in Server : Serving(t)' => t = s
    <2>1. ASSUME NEW t \in Server, t # s, Serving(t)'
          PROVE  Serving(t)
      <3>1. server'[t] = server[t] /\ session' = session
        BY <1>1, <2>1 DEF FleetInv, MemoryInv, SvTypeOK
      <3>. QED
        BY <2>1, <3>1 DEF Serving
    <2>. QED
      BY <1>3, <2>1
  <1>5. ASSUME NEW j \in Job, row[j] = "enqueued"
        PROVE  memory[s][j].state = "enqueued"
    BY <1>1, <1>2, <1>5, ServersAssumption DEF FleetInv, MemoryInv, MemoryOf, At
  <1>6. FleetWithinCapacity'
    <2>1. /\ Configured(text)' = Configured(text) /\ (Plain <=> Plain')
          /\ \A c : LimitOf(text, c)' = LimitOf(text, c)
      BY <1>1 DEF Configured, Plain, LimitOf, CapacityOf
    <2>. QED
      BY <1>1, <2>1 DEF FleetInv, FleetWithinCapacity
  <1>. QED
    BY <1>1, <1>4, <1>5, <1>6 DEF FleetInv

\* A runner lets a job through when every channel above it has a place, and it
\* counts there all jobs of the fleet.
LEMMA FleetAtRunJob ==
  ASSUME FleetInv, MemoryInv', NEW s \in Server, NEW j \in Job, RunJob(s, j),
         \A t \in Server : Tried(t)'
  PROVE  FleetInv'
  <1>0. DbOf[j] \in Db
    BY ServersAssumption
  <1>1. /\ At(s, "passing") /\ memory[s][j].state = "pending" /\ HasPlace(s, j)
        /\ session[s][DbOf[j]] = "open"
        /\ memory' = [memory EXCEPT ![s][j].state = "enqueued"]
        /\ row' = [row EXCEPT ![j] = "enqueued"]
        /\ UNCHANGED <<text, server, session>>
    BY DEF RunJob
  <1>2. Serving(s) /\ \A t \in Server : Serving(t)' <=> Serving(t)
    BY <1>0, <1>1 DEF Serving, At
  <1>3. /\ memory'[s][j].state = "enqueued" /\ row'[j] = "enqueued"
        /\ \A i \in Job \ {j} : memory'[s][i] = memory[s][i] /\ row'[i] = row[i]
    BY <1>1 DEF FleetInv, MemoryInv, SvTypeOK
  <1>4. \A i \in Job : row'[i] = "enqueued" => memory'[s][i].state = "enqueued"
    BY <1>2, <1>3 DEF FleetInv
  <1>5. /\ Configured(text)' = Configured(text) /\ (Plain <=> Plain')
        /\ \A c : LimitOf(text, c)' = LimitOf(text, c)
    BY <1>1 DEF Configured, Plain, LimitOf, CapacityOf
  <1>6. FleetWithinCapacity'
    <2>1. SUFFICES ASSUME Plain, NEW c \in Configured(text), LimitOf(text, c) # Unlimited
                   PROVE  Cardinality(Enqueued(c)') <= LimitOf(text, c)
      BY <1>5 DEF FleetWithinCapacity, Enqueued
    <2>2. LimitOf(text, c) \in Nat
      BY <2>1, LimitIsNumber DEF FleetInv, MemoryInv, SvTypeOK
    <2>3. Enqueued(c) \subseteq Job /\ Enqueued(c)' \subseteq Job
      BY DEF Enqueued
    <2>4. Cardinality(Enqueued(c)) <= LimitOf(text, c)
      BY <2>1 DEF FleetInv, FleetWithinCapacity, Enqueued
    <2>5. CASE ~IsPrefix(c, FullChannelOf(j))
      <3>1. Enqueued(c)' \subseteq Enqueued(c)
        BY <1>3, <2>5 DEF Enqueued
      <3>2. /\ IsFiniteSet(Enqueued(c)) /\ IsFiniteSet(Enqueued(c)')
            /\ Cardinality(Enqueued(c)') <= Cardinality(Enqueued(c))
        BY <2>3, <3>1, ServersAssumption, FS_Subset
      <3>3. Cardinality(Enqueued(c)) \in Nat /\ Cardinality(Enqueued(c)') \in Nat
        BY <3>2, FS_CardinalityType
      <3>. QED
        BY <2>2, <2>4, <3>2, <3>3
    <2>6. CASE IsPrefix(c, FullChannelOf(j))
      <3>1. ASSUME NEW i \in Job, memory[s][i] # Unknown, IsPrefix(c, FullChannelOf(i))
            PROVE  c \in PathTo(memory[s][i].channel) /\ IsPrefix(c, memory[s][i].channel)
        <4>1. /\ c \in PathTo(memory[s][i].channel) <=> c \in PathTo(FullChannelOf(i))
              /\ memory[s][i].channel \in Seq(Part)
          BY <2>1, <3>1 DEF FleetInv, MemoryInv, MemoryOf, Below, SvTypeOK
        <4>2. c \in Seq(Part) /\ Len(c) \in Nat \ {0}
          <5>1. PICK e \in Range(text) : e.name \in Seq(Part) /\ c \in PathTo(FullName(e.name))
            BY <2>1, ConfiguredIs DEF FleetInv, MemoryInv, SvTypeOK
          <5>. QED
            BY <5>1, FullNames, Prefixed
        <4>3. FullChannelOf(i) \in Seq(Part)
          BY ServersAssumption, FullNames DEF FullChannelOf
        <4>4. c \in PathTo(FullChannelOf(i))
          BY <3>1, <4>2, <4>3 DEF PathTo, IsPrefix
        <4>. QED
          BY <4>1, <4>2, <4>4, Prefixed DEF IsPrefix
      <3>2. memory[s][j] # Unknown
        BY <1>1 DEF Unknown
      <3>3. Cardinality(Running(s, c)) < LimitOf(text, c)
        BY <1>1, <2>1, <2>6, <3>1, <3>2 DEF HasPlace
      <3>4. Enqueued(c)' \subseteq Running(s, c) \cup {j} /\ Running(s, c) \subseteq Job
        <4>1. ASSUME NEW i \in Job, i # j, row[i] = "enqueued", IsPrefix(c, FullChannelOf(i))
              PROVE  i \in Running(s, c)
          <5>1. memory[s][i].state = "enqueued" /\ memory[s][i] # Unknown
            BY <1>2, <4>1 DEF FleetInv, Unknown
          <5>. QED
            BY <3>1, <4>1, <5>1 DEF Running
        <4>. QED
          BY <1>3, <4>1 DEF Enqueued, Running
      <3>5. /\ IsFiniteSet(Running(s, c)) /\ Cardinality(Running(s, c)) \in Nat
            /\ IsFiniteSet(Running(s, c) \cup {j})
            /\ Cardinality(Running(s, c) \cup {j}) <= Cardinality(Running(s, c)) + 1
            /\ Cardinality(Running(s, c) \cup {j}) \in Nat
        <4>1. IsFiniteSet(Running(s, c)) /\ Cardinality(Running(s, c)) \in Nat
          BY <3>4, ServersAssumption, FS_Subset, FS_CardinalityType
        <4>2. /\ IsFiniteSet(Running(s, c) \cup {j})
              /\ \/ Cardinality(Running(s, c) \cup {j}) = Cardinality(Running(s, c))
                 \/ Cardinality(Running(s, c) \cup {j}) = Cardinality(Running(s, c)) + 1
          BY <4>1, FS_AddElement
        <4>. QED
          BY <4>1, <4>2
      <3>6. /\ Cardinality(Enqueued(c)') <= Cardinality(Running(s, c) \cup {j})
            /\ Cardinality(Enqueued(c)') \in Nat
        BY <3>4, <3>5, FS_Subset, FS_CardinalityType
      <3>. QED
        BY <2>2, <3>3, <3>5, <3>6
    <2>. QED
      BY <2>5, <2>6
  <1>. QED
    BY <1>2, <1>4, <1>6 DEF FleetInv

\* A step that leaves a runner where it is tries no database.
LEMMA TriedKept ==
  ASSUME FleetInv, NEW t \in Server,
         server'[t].at = server[t].at, server'[t].next = server[t].next,
         \A d \in Db : session[t][d] = "none" <=> session'[t][d] = "none"
  PROVE  Tried(t)'
  BY ServersAssumption DEF FleetInv, Tried

\* A runner tries its databases one after the other, and is in its loop once it
\* has tried all of them.
LEMMA TriedStep ==
  ASSUME Shared, FleetInv, NEW s \in Server, Spawn(s) \/ Step(s)
  PROVE  Tried(s)'
  <1>t. /\ server \in [Server -> ServerStates] /\ server[s] \in ServerStates
        /\ session \in [Server -> [Db -> {"none", "open", "broken"}]]
        /\ server[s].next \in Nat \ {0} /\ Installed \subseteq Db
        /\ Tried(s) /\ MemoryOf(s)
    BY ServersAssumption DEF FleetInv, MemoryInv, SvTypeOK, ServerStates
  <1>1. ASSUME server'[s].at \notin {"opening", "reading"} \cup InTurn, server'[s].next = 1
        PROVE  Tried(s)'
    BY <1>1 DEF Tried
  <1>2. CASE Spawn(s) \/ End(s)
    <2>1. server'[s].at \in {"down", "work", "starting"} /\ server'[s].next = 1
      <3>1. CASE Spawn(s)
        BY <1>t, <3>1 DEF Spawn, Down
      <3>2. CASE End(s)
        BY <1>t, <3>2 DEF End, Down
      <3>. QED
        BY <1>2, <3>1, <3>2
    <2>. QED
      BY <1>1, <2>1 DEF InTurn
  <1>12. CASE Rebuild(s)
    BY <1>1, <1>12, <1>t DEF Rebuild, Tried, At, InTurn, ServerStates
  <1>3. CASE Work(s)
    BY <1>1, <1>3, <1>t DEF Work, GoTo, Tried, At, InTurn, ServerStates
  <1>4. CASE Outer(s)
    <2>1. CASE server[s].told
      BY <1>1, <1>4, <1>t, <2>1 DEF Outer, Left, Down, InTurn, ServerStates
    <2>2. CASE ~server[s].told
      <3>1. server'[s].at = "opening" /\ server'[s].next = 1
        BY <1>4, <1>t, <2>2 DEF Outer, GoTo, Tried, InTurn, ServerStates
      <3>. QED
        BY <3>1 DEF Tried, InTurn
    <2>. QED
      BY <2>1, <2>2
  <1>5. CASE Leave(s)
    BY <1>1, <1>5, <1>t DEF Leave, Left, Down, InTurn, ServerStates
  <1>6. CASE ElectionLost(s) \/ SessionLost(s)
    <2>1. Recover(s)
      BY <1>6 DEF ElectionLost, SessionLost
    <2>. QED
      BY <1>1, <1>t, <2>1 DEF Recover, InTurn, ServerStates
  <1>7. CASE PassOver(s) \/ ReadJobs(s)
    <2>1. /\ server[s].at \in {"opening", "reading"}
          /\ server'[s].at = "opening" /\ server'[s].next = server[s].next + 1
          /\ session' = session
      BY <1>7, <1>t DEF PassOver, ReadJobs, Skip, At, ServerStates
    <2>2. Turn(s) \notin Installed \/ session[s][Turn(s)] # "none"
      BY <1>7, <1>t DEF PassOver, ReadJobs, MemoryOf
    <2>3. ASSUME NEW i \in 1 .. server'[s].next - 1, Opened[s][i] \in Installed
          PROVE  session'[s][Opened[s][i]] # "none"
      <3>1. i = server[s].next \/ i \in 1 .. server[s].next - 1
        <4>1. server[s].next \in Nat /\ i \in 1 .. (server[s].next + 1) - 1
          BY <1>t, <2>1
        <4>. QED
          BY <4>1
      <3>. QED
        BY <1>t, <2>1, <2>2, <2>3, <3>1 DEF Tried, Turn
    <2>. QED
      BY <2>1, <2>3 DEF Tried, InTurn
  <1>8. CASE AcquireMasterLock(s)
    <2>1. /\ server[s].at = "opening" /\ server'[s].at = "reading"
          /\ server'[s].next = server[s].next
          /\ \A d \in Db : session[s][d] # "none" => session'[s][d] # "none"
      BY <1>8, <1>t DEF AcquireMasterLock, GoTo, At, ServerStates
    <2>. QED
      BY <1>t, <2>1 DEF Tried, InTurn
  <1>9. CASE StartLoop(s)
    <2>1. /\ server[s].at = "opening" /\ server'[s].at = "looping" /\ session' = session
          /\ ~(server[s].next <= Len(Opened[s]))
      BY <1>9, <1>t DEF StartLoop, HasNext, GoTo, At, ServerStates
    <2>2. ASSUME NEW d \in Installed
          PROVE  session[s][d] # "none"
      <3>1. PICK i \in 1 .. Len(Opened[s]) : Opened[s][i] = d
        BY SharedOpened DEF Range
      <3>2. Len(Opened[s]) \in Nat
        BY SharedOpened
      <3>3. i \in 1 .. server[s].next - 1
        BY <1>t, <2>1, <3>1, <3>2
      <3>. QED
        BY <1>t, <2>1, <3>1, <3>3 DEF Tried
    <2>. QED
      BY <2>1, <2>2 DEF Tried, InTurn
  <1>10. CASE Sweep(s) \/ BeginPass(s) \/ EndTurn(s)
    <2>1. server[s].at \in InTurn /\ server'[s].at \in InTurn /\ session' = session
      BY <1>10, <1>t DEF Sweep, BeginPass, EndTurn, GoTo, At, InTurn, ServerStates
    <2>. QED
      BY <1>t, <2>1 DEF Tried, InTurn
  <1>11. CASE \E j \in Job : ProcessNotification(s, j) \/ RunJob(s, j)
    BY <1>11, TriedKept DEF ProcessNotification, RunJob
  <1>. QED
    BY <1>2, <1>3, <1>4, <1>5, <1>6, <1>7, <1>8, <1>9, <1>10, <1>11, <1>12 DEF Step

\* The invariant is kept and holds at the start.
LEMMA FleetNext == Shared /\ FleetInv /\ [SvNext]_svVars => FleetInv'
  <1>. SUFFICES ASSUME Shared, FleetInv, [SvNext]_svVars PROVE FleetInv'
    OBVIOUS
  <1>0. /\ MemoryInv /\ MemoryInv'
        /\ \A j \in Job : DbOf[j] \in Db
    BY MemoryNext, ServersAssumption DEF FleetInv
  <1>1. ASSUME NEW s \in Server, Spawn(s) \/ Step(s)
        PROVE  FleetInv'
    <2>0. /\ server' \in [Server -> ServerStates] /\ session' \in [Server -> [Db -> {"none", "open", "broken"}]]
          /\ server \in [Server -> ServerStates] /\ session \in [Server -> [Db -> {"none", "open", "broken"}]]
      BY <1>0 DEF MemoryInv, SvTypeOK, ServerStates
    <2>1. \A t \in Server \ {s} : /\ server'[t] = server[t] /\ session'[t] = session[t]
                                  /\ memory'[t] = memory[t]
      BY <1>0, <1>1, OthersUntouched
    <2>2. \A t \in Server : Tried(t)'
      BY <1>1, <2>1, TriedKept, TriedStep
    <2>3. ASSUME text' = text, row' = row, Serving(s)' => Serving(s),
                 \A j \in Job : Serving(s)' /\ memory[s][j].state = "enqueued" /\ row[j] = "enqueued"
                                  => memory'[s][j].state = "enqueued"
          PROVE  FleetInv'
      <3>1. ASSUME NEW t \in Server, t # s
            PROVE  (Serving(t) <=> Serving(t)') /\ memory'[t] = memory[t]
        BY <2>1, <3>1 DEF Serving
      <3>. QED
        BY <1>0, <2>2, <2>3, <3>1, FleetKept
    <2>4. CASE Sweep(s)
      BY <1>0, <2>2, <2>4, FleetAtSweep
    <2>5. ASSUME NEW j \in Job, RunJob(s, j)
          PROVE  FleetInv'
      BY <1>0, <2>2, <2>5, FleetAtRunJob
    <2>6. CASE Spawn(s) \/ Work(s) \/ End(s) \/ Rebuild(s) \/ Outer(s) \/ Leave(s)
      <3>1. server'[s].at \notin {"handling", "passing"} /\ text' = text /\ row' = row
        <4>1. CASE Spawn(s)
          BY <2>0, <4>1 DEF Spawn, Down
        <4>2. CASE Work(s) \/ End(s) \/ Rebuild(s)
          BY <2>0, <4>2 DEF Work, End, Rebuild, Down, GoTo, ServerStates
        <4>3. CASE Outer(s) \/ Leave(s)
          BY <2>0, <4>3 DEF Outer, Leave, Left, Down, GoTo, ServerStates
        <4>. QED
          BY <2>6, <4>1, <4>2, <4>3
      <3>. QED
        BY <2>3, <3>1 DEF Serving
    <2>7. CASE PassOver(s) \/ AcquireMasterLock(s) \/ ElectionLost(s) \/ ReadJobs(s)
               \/ StartLoop(s) \/ SessionLost(s) \/ EndTurn(s)
      <3>1. server'[s].at \notin {"handling", "passing"} /\ text' = text /\ row' = row
        BY <2>0, <2>7
        DEF PassOver, AcquireMasterLock, ElectionLost, ReadJobs, StartLoop, SessionLost, EndTurn,
            Recover, Skip, GoTo, ServerStates
      <3>. QED
        BY <2>3, <3>1 DEF Serving
    <2>8. CASE BeginPass(s)
      <3>1. /\ text' = text /\ row' = row /\ memory' = memory /\ session' = session
            /\ server[s].at = "handling"
        BY <2>8 DEF BeginPass, At
      <3>. QED
        BY <2>3, <3>1 DEF Serving
    <2>9. ASSUME NEW i \in Job, ProcessNotification(s, i)
          PROVE  FleetInv'
      <3>1. /\ UNCHANGED <<text, row, server, session>> /\ NotifyEach(s, {i}) /\ {i} \in SUBSET Job
            /\ At(s, "handling")
        BY <2>9 DEF ProcessNotification
      <3>2. /\ \A j \in {i} : row[j] = "enqueued" => memory'[s][j].state = "enqueued"
            /\ \A j \in Job \ {i} : memory'[s][j] = memory[s][j]
        BY <1>0, <3>1, MemoryNotified DEF MemoryInv, MemoryOf, At
      <3>. QED
        BY <2>3, <3>1, <3>2 DEF Serving
    <2>. QED
      BY <1>1, <2>4, <2>5, <2>6, <2>7, <2>8, <2>9 DEF Step
  <1>2. ASSUME UNCHANGED <<text, memory>>,
               \A t \in Server : /\ server'[t].at = server[t].at
                                 /\ server'[t].next = server[t].next
                                 /\ \A d \in Db : /\ session[t][d] = "none" <=> session'[t][d] = "none"
                                                  /\ session'[t][d] = "open" => session[t][d] = "open",
               \A j \in Job : row'[j] = "enqueued" => row[j] = "enqueued"
        PROVE  FleetInv'
    <2>1. \A t \in Server : Tried(t)'
      BY <1>2, TriedKept
    <2>2. \A t \in Server : Serving(t)' => Serving(t)
      BY <1>2 DEF Serving
    <2>. QED
      BY <1>0, <1>2, <2>1, <2>2, FleetKept
  <1>3. ASSUME NEW s \in Server, Kill(s)
        PROVE  FleetInv'
    <2>1. /\ server'[s] = Down /\ \A d \in Db : session'[s][d] = "none"
          /\ \A t \in Server \ {s} : /\ server'[t] = server[t] /\ session'[t] = session[t]
                                     /\ memory'[t] = memory[t]
          /\ text' = text /\ row' = row
      BY <1>0, <1>3 DEF Kill, Forget, MemoryInv, SvTypeOK
    <2>2. Tried(s)' /\ ~Serving(s)'
      BY <2>1 DEF Tried, Serving, Down, InTurn
    <2>3. \A t \in Server : Tried(t)'
      BY <2>1, <2>2, TriedKept
    <2>4. \A t \in Server : Serving(t)' => t # s /\ Serving(t)
      BY <2>1, <2>2 DEF Serving
    <2>. QED
      BY <1>0, <2>1, <2>3, <2>4, FleetKept
  <1>4. ASSUME NEW j \in Job, EndJob(j)
        PROVE  FleetInv'
    <2>1. \A i \in Job : row'[i] = "enqueued" => row[i] = "enqueued"
      BY <1>0, <1>4 DEF EndJob, MemoryInv, SvTypeOK
    <2>. QED
      BY <1>2, <1>4, <2>1 DEF EndJob
  <1>5. ASSUME NEW s \in Server, Interrupt(s) \/ TimeExpired(s)
        PROVE  FleetInv'
    <2>1. \A t \in Server : server'[t].at = server[t].at /\ server'[t].next = server[t].next
      <3>1. CASE Interrupt(s)
        BY <1>0, <3>1 DEF Interrupt, MemoryInv, SvTypeOK
      <3>2. CASE TimeExpired(s)
        BY <1>0, <3>2 DEF TimeExpired, MemoryInv, SvTypeOK
      <3>. QED
        BY <1>5, <3>1, <3>2
    <2>. QED
      BY <1>2, <1>5, <2>1 DEF Interrupt, TimeExpired
  <1>6. ASSUME NEW s \in Server, NEW e \in Db, Break(s, e)
        PROVE  FleetInv'
    <2>1. \A t \in Server, d \in Db :
            /\ session[t][d] = "none" <=> session'[t][d] = "none"
            /\ session'[t][d] = "open" => session[t][d] = "open"
      BY <1>0, <1>6 DEF Break, MemoryInv, SvTypeOK
    <2>. QED
      BY <1>2, <1>6, <2>1 DEF Break
  <1>7. ASSUME NEW e \in Db, Expire(e)
        PROVE  FleetInv'
    BY <1>2, <1>7 DEF Expire
  <1>8. CASE UNCHANGED svVars
    BY <1>2, <1>8 DEF svVars
  <1>. QED
    BY <1>1, <1>3, <1>4, <1>5, <1>6, <1>7, <1>8 DEF SvNext

LEMMA FleetInit == SvInit => FleetInv
  <1>. SUFFICES ASSUME SvInit PROVE FleetInv
    OBVIOUS
  <1>1. MemoryInv
    BY MemoryInit
  <1>2. \A s \in Server : Tried(s) /\ ~Serving(s)
    BY DEF SvInit, Tried, Serving, Down, InTurn
  <1>3. FleetWithinCapacity
    <2>1. ASSUME NEW c \in Configured(text), LimitOf(text, c) # Unlimited
          PROVE  Cardinality(Enqueued(c)) <= LimitOf(text, c)
      <3>1. Enqueued(c) = {}
        BY DEF SvInit, Enqueued
      <3>2. Cardinality(Enqueued(c)) = 0
        BY <3>1, FS_EmptySet
      <3>3. LimitOf(text, c) \in Nat
        BY <2>1, LimitIsNumber DEF SvInit
      <3>. QED
        BY <3>2, <3>3
    <2>. QED
      BY <2>1 DEF FleetWithinCapacity, Enqueued
  <1>. QED
    BY <1>1, <1>2, <1>3 DEF FleetInv

\* THEOREM: when all servers open all databases, they never have more jobs
\* enqueued in a channel together than the text allows, whatever fails.
THEOREM FleetKeepsCapacity == ASSUME Shared PROVE SvSpec => []FleetWithinCapacity
  <1>1. FleetInv => FleetWithinCapacity
    BY DEF FleetInv
  <1>2. FleetInv /\ [SvNext]_svVars => FleetInv'
    BY FleetNext
  <1>. QED
    BY <1>1, <1>2, FleetInit, PTL DEF SvSpec
=============================================================================
