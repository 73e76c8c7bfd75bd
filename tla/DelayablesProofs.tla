-------------------------- MODULE DelayablesProofs --------------------------
(***************************************************************************)
(* Proofs about the graphs of delayables, for chains and groups nested to  *)
(* any depth: what delay() connects are delayables, and it keeps the order *)
(* the caller meant when no chain begins or ends with another.             *)
(***************************************************************************)
EXTENDS Delayables, FiniteSetTheorems, WellFoundedInduction, TLAPS

-----------------------------------------------------------------------------
(* Visits *)

\* A set that next does not lead out of.
Closed(T, next) == \A x \in T : next[x] \subseteq T

\* The visit computes the least closed set around S: the function with this
\* value satisfies the recursive equation, and, as what is left shrinks, no other
\* one does.
LEMMA ReachedIsLeast ==
  ASSUME NEW U, IsFiniteSet(U), NEW next \in [U -> SUBSET U], NEW S \in SUBSET U
  PROVE  /\ S \subseteq ReachedFrom(S, next)
         /\ ReachedFrom(S, next) \subseteq U
         /\ Closed(ReachedFrom(S, next), next)
         /\ \A C \in SUBSET U : S \subseteq C /\ Closed(C, next) => ReachedFrom(S, next) \subseteq C
<1> DEFINE Least(T) == {x \in U : \A C \in SUBSET U : T \subseteq C /\ Closed(C, next) => x \in C}
           Next(T) == T \cup UNION {next[x] : x \in T}
           least == [T \in SUBSET U |-> Least(T)]
           Rec(f) == [T \in SUBSET U |-> IF Next(T) = T THEN T ELSE f[Next(T)]]
           reached == CHOOSE f : f = Rec(f)
<1>1. \A T \in SUBSET U : Next(T) \in SUBSET U /\ T \subseteq Next(T)
  OBVIOUS
<1>2. \A T \in SUBSET U : /\ Least(T) \in SUBSET U /\ T \subseteq Least(T)
                          /\ Closed(Least(T), next)
                          /\ \A C \in SUBSET U : T \subseteq C /\ Closed(C, next) => Least(T) \subseteq C
  BY DEF Closed
<1>3. \A T \in SUBSET U : Next(T) = T => Closed(T, next)
  BY DEF Closed
<1>4. \A T, C \in SUBSET U : T \subseteq C /\ Closed(C, next) => Next(T) \subseteq C
  BY DEF Closed
<1>5. \A T \in SUBSET U : Least(T) = IF Next(T) = T THEN T ELSE Least(Next(T))
  <2> SUFFICES ASSUME NEW T \in SUBSET U
               PROVE  Least(T) = IF Next(T) = T THEN T ELSE Least(Next(T))
    OBVIOUS
  <2> HIDE DEF Next
  <2>1. CASE Next(T) = T
    BY <1>2, <1>3, <2>1
  <2>2. CASE Next(T) # T
    <3>1. Least(Next(T)) = Least(T)
      BY <1>1, <1>4
    <3> QED
      BY <2>2, <3>1
  <2> QED
    BY <2>1, <2>2
<1> HIDE DEF Least, Next
<1>6. least = Rec(least)
  <2>1. \A T \in SUBSET U : least[T] = IF Next(T) = T THEN T ELSE least[Next(T)]
    BY <1>1, <1>5
  <2> QED
    BY <2>1
<1>7. reached = Rec(reached)
  <2> HIDE DEF Rec
  <2> QED
    BY <1>6
<1>8. ReachedFrom(S, next) = reached[S]
  BY DEF ReachedFrom, Next
<1> HIDE DEF reached
<1>9. \A T \in SUBSET U : reached[T] = Least(T)
  <2> DEFINE Bad == {T \in SUBSET U : reached[T] # Least(T)}
             Sizes == {Cardinality(U \ T) : T \in Bad}
  <2> SUFFICES ASSUME Bad # {}
               PROVE  FALSE
    OBVIOUS
  <2>1. Sizes \subseteq Nat /\ Sizes # {}
    <3>1. \A T \in Bad : Cardinality(U \ T) \in Nat
      BY FS_Difference, FS_CardinalityType
    <3> QED
      BY <3>1
  <2>2. PICK n \in Sizes : \A m \in Sizes : <<m, n>> \notin OpToRel(<, Nat)
    BY <2>1, WFMin, NatLessThanWellFounded, Zenon
  <2>3. PICK T \in Bad : n = Cardinality(U \ T)
    BY <2>2
  <2>4. reached[T] = IF Next(T) = T THEN T ELSE reached[Next(T)]
    BY <1>7, <2>3
  <2>5. Next(T) # T /\ Next(T) \in Bad
    BY <1>1, <1>5, <2>3, <2>4
  <2>6. Cardinality(U \ Next(T)) < n
    <3>1. U \ Next(T) \subseteq U \ T /\ U \ Next(T) # U \ T
      BY <1>1, <2>3, <2>5
    <3> QED
      BY <2>3, <3>1, FS_Difference, FS_Subset, FS_CardinalityType
  <2>7. Cardinality(U \ Next(T)) \in Sizes
    BY <2>5
  <2> HIDE DEF Sizes, Bad
  <2> QED
    BY <2>1, <2>2, <2>6, <2>7 DEF OpToRel
<1> QED
  BY <1>2, <1>8, <1>9

\* What is reached from one element, through its successors.
LEMMA ReachedThrough ==
  ASSUME NEW U, IsFiniteSet(U), NEW next \in [U -> SUBSET U], NEW x \in U
  PROVE  ReachedFrom({x}, next) = {x} \cup UNION {ReachedFrom({y}, next) : y \in next[x]}
<1> DEFINE R(y) == ReachedFrom({y}, next)
           All == {x} \cup UNION {R(y) : y \in next[x]}
<1>1. \A y \in U : /\ y \in R(y) /\ R(y) \subseteq U /\ Closed(R(y), next)
                   /\ \A C \in SUBSET U : y \in C /\ Closed(C, next) => R(y) \subseteq C
  <2> SUFFICES ASSUME NEW y \in U
               PROVE  /\ y \in R(y) /\ R(y) \subseteq U /\ Closed(R(y), next)
                      /\ \A C \in SUBSET U : y \in C /\ Closed(C, next) => R(y) \subseteq C
    OBVIOUS
  <2>1. {y} \in SUBSET U
    OBVIOUS
  <2>2. /\ {y} \subseteq R(y) /\ R(y) \subseteq U /\ Closed(R(y), next)
        /\ \A C \in SUBSET U : {y} \subseteq C /\ Closed(C, next) => R(y) \subseteq C
    BY <2>1, ReachedIsLeast
  <2> QED
    BY <2>2
<1> HIDE DEF R
<1>2. next[x] \subseteq U
  OBVIOUS
<1>3. All \subseteq U /\ x \in All /\ Closed(All, next)
  BY <1>1, <1>2 DEF Closed
<1>4. R(x) \subseteq All
  BY <1>1, <1>3
<1>5. \A y \in next[x] : R(y) \subseteq R(x)
  BY <1>1, <1>2 DEF Closed
<1>6. All \subseteq R(x)
  BY <1>1, <1>5
<1> QED
  BY <1>4, <1>6 DEF R

-----------------------------------------------------------------------------
(* Objects *)

Side == {"head", "tail"}

\* What the caller has built: an object is made of objects that existed before,
\* and its graph has at least the edges this and the calls of on_done gave it.
GraphInv ==
  /\ made \in [Composite -> [kind : {"none", "chain", "group"}, items : Seq(Object)]]
  /\ \A c \in Composite : (made[c].kind = "none" <=> made[c] = Unmade)
                          /\ (made[c].items = <<>> <=> made[c] = Unmade)
  /\ graph \in [Object -> [node : SUBSET Object, edge : SUBSET (Object \X Object)]]
  /\ \A o \in Object : graph[o].edge \subseteq graph[o].node \X graph[o].node
  /\ \A l \in Leaf : l \in graph[l].node
  /\ \A c \in Composite :
       /\ Range(made[c].items) \subseteq graph[c].node
       /\ Range(made[c].items) \subseteq Existing
       /\ made[c].kind = "chain" =>
            \A k \in 1 .. Len(made[c].items) - 1 :
              <<made[c].items[k], made[c].items[k + 1]>> \in graph[c].edge
  /\ \A e \in after : /\ e \in Existing \X Object
                       /\ Sources(e[1]) \X {e[2]} \subseteq graph[e[1]].edge
  /\ \A T \in SUBSET Composite : T # {} => \E c \in T : Range(made[c].items) \cap T = {}

LEMMA ObjectsFinite == IsFiniteSet(Object) /\ IsFiniteSet(Side \X Object)
<1>1. IsFiniteSet(Object)
  BY DelayablesAssumption, FS_Union DEF Object
<1>2. IsFiniteSet({"head"}) /\ Side = {"head"} \cup {"tail"} /\ IsFiniteSet({"tail"})
  BY FS_Singleton DEF Side
<1>3. IsFiniteSet(Side)
  BY <1>2, FS_Union
<1> QED
  BY <1>1, <1>3, FS_Product

LEMMA Successors ==
  ASSUME GraphInv
  PROVE  /\ ItemsOf \in [Object -> SUBSET Object]
         /\ Vertices \in [Object -> SUBSET Object]
         /\ \A o \in Object : ItemsOf[o] \subseteq Vertices[o]
         /\ \A l \in Leaf : ItemsOf[l] = {}
         /\ \A c \in Composite : ItemsOf[c] = Range(made[c].items)
<1>1. \A c \in Composite : c \in Object /\ c \notin Leaf
  BY DelayablesAssumption DEF Object
<1>2. \A c \in Composite : Range(made[c].items) \in SUBSET Object
  BY DEF GraphInv, Range
<1>3. \A o \in Object : o \in Leaf \/ o \in Composite
  BY DEF Object
<1>4. ItemsOf \in [Object -> SUBSET Object]
  BY <1>1, <1>2, <1>3 DEF ItemsOf
<1>5. Vertices \in [Object -> SUBSET Object]
  BY DEF Vertices, GraphInv
<1>6. (\A l \in Leaf : ItemsOf[l] = {}) /\ \A c \in Composite : ItemsOf[c] = Range(made[c].items)
  BY <1>1 DEF ItemsOf, Object
<1>7. \A o \in Object : ItemsOf[o] \subseteq Vertices[o]
  BY <1>3, <1>6 DEF Vertices, GraphInv
<1> QED
  BY <1>4, <1>5, <1>6, <1>7

\* The parts of an object are it and the parts of its items.
LEMMA PartsThrough ==
  ASSUME GraphInv, NEW o \in Object
  PROVE  /\ Parts(o) \subseteq Object /\ o \in Parts(o)
         /\ Parts(o) = {o} \cup UNION {Parts(x) : x \in ItemsOf[o]}
<1>1. ItemsOf \in [Object -> SUBSET Object] /\ {o} \in SUBSET Object
  BY Successors
<1>2. Parts(o) \subseteq Object /\ {o} \subseteq Parts(o)
  BY <1>1, ObjectsFinite, ReachedIsLeast DEF Parts
<1>3. Parts(o) = {o} \cup UNION {Parts(x) : x \in ItemsOf[o]}
  BY <1>1, ObjectsFinite, ReachedThrough DEF Parts
<1> QED
  BY <1>2, <1>3

LEMMA LeavesThrough ==
  ASSUME GraphInv
  PROVE  /\ \A o \in Object : LeavesOf(o) \subseteq Leaf
         /\ \A l \in Leaf : LeavesOf(l) = {l}
         /\ \A c \in Composite : LeavesOf(c) = UNION {LeavesOf(x) : x \in Range(made[c].items)}
<1>1. \A l \in Leaf : LeavesOf(l) = {l}
  <2>1. \A l \in Leaf : l \in Object /\ Parts(l) = {l} \cup UNION {Parts(x) : x \in {}}
    BY PartsThrough, Successors DEF Object
  <2> QED
    BY <2>1 DEF LeavesOf
<1>2. ASSUME NEW c \in Composite
      PROVE  LeavesOf(c) = UNION {LeavesOf(x) : x \in Range(made[c].items)}
  <2>1. c \notin Leaf /\ Parts(c) = {c} \cup UNION {Parts(x) : x \in Range(made[c].items)}
    BY DelayablesAssumption, PartsThrough, Successors DEF Object
  <2> QED
    BY <2>1 DEF LeavesOf
<1> QED
  BY <1>1, <1>2 DEF LeavesOf

\* The visit reaches the vertices of all graphs, and so the parts of the object.
LEMMA VisitedClosed ==
  ASSUME GraphInv, NEW o \in Object
  PROVE  /\ Visited(o) \subseteq Object /\ o \in Visited(o)
         /\ \A x \in Visited(o) : graph[x].node \subseteq Visited(o)
         /\ \A x \in Visited(o) : Parts(x) \subseteq Visited(o)
<1>1. /\ ItemsOf \in [Object -> SUBSET Object] /\ Vertices \in [Object -> SUBSET Object]
      /\ \A x \in Object : ItemsOf[x] \subseteq Vertices[x] /\ {x} \in SUBSET Object
  BY Successors
<1>2. Visited(o) \subseteq Object /\ {o} \subseteq Visited(o) /\ Closed(Visited(o), Vertices)
  BY <1>1, ObjectsFinite, ReachedIsLeast DEF Visited
<1>3. Closed(Visited(o), ItemsOf)
  BY <1>1, <1>2 DEF Closed
<1>4. ASSUME NEW x \in Visited(o)
      PROVE  Parts(x) \subseteq Visited(o)
  <2>1. {x} \in SUBSET Object /\ {x} \subseteq Visited(o) /\ Visited(o) \in SUBSET Object
    BY <1>2
  <2> QED
    BY <1>1, <1>3, <2>1, ObjectsFinite, ReachedIsLeast DEF Parts
<1> QED
  BY <1>2, <1>4 DEF Closed, Vertices

LEMMA AskedTypes ==
  ASSUME GraphInv
  PROVE  /\ Asked \in [Side \X Object -> SUBSET (Side \X Object)]
         /\ \A s \in Side, l \in Leaf : Asked[<<s, l>>] = {}
         /\ \A s \in Side, c \in Composite :
              /\ made[c].kind = "group" => Asked[<<s, c>>] = {s} \X Range(made[c].items)
              /\ made[c].kind = "chain" =>
                   Asked[<<s, c>>] = IF s = "head" THEN {<<"tail", made[c].items[1]>>}
                                     ELSE {<<"head", Last(made[c].items)>>}
              /\ made[c].kind = "none" => Asked[<<s, c>>] = {}
<1>1. \A c \in Composite : c \in Object /\ c \notin Leaf
  BY DelayablesAssumption DEF Object
<1>2. \A c \in Composite :
        /\ made[c].items \in Seq(Object) /\ made[c].kind \in {"none", "chain", "group"}
        /\ Range(made[c].items) \in SUBSET Object
        /\ made[c].items # <<>> => made[c].items[1] \in Object /\ Last(made[c].items) \in Object
        /\ made[c].items = <<>> <=> made[c].kind = "none"
  BY DEF GraphInv, Range, Last
<1>3. \A s \in Side, l \in Leaf : l \in Object /\ Asked[<<s, l>>] = {}
  BY DEF Asked, Unmade, Side, Object
<1>4. ASSUME NEW s \in Side, NEW c \in Composite
      PROVE  /\ made[c].kind = "group" => Asked[<<s, c>>] = {s} \X Range(made[c].items)
             /\ made[c].kind = "chain" =>
                  Asked[<<s, c>>] = IF s = "head" THEN {<<"tail", made[c].items[1]>>}
                                    ELSE {<<"head", Last(made[c].items)>>}
             /\ made[c].kind = "none" => Asked[<<s, c>>] = {}
  BY <1>1, <1>2 DEF Asked, Side
<1>5. \A s \in Side, c \in Composite : Asked[<<s, c>>] \subseteq Side \X Object
  BY <1>2, <1>4 DEF Side
<1>6. \A p \in Side \X Object : \E s \in Side, x \in Object :
        p = <<s, x>> /\ (x \in Leaf \/ x \in Composite)
  BY DEF Object
<1>7. \A p \in Side \X Object : Asked[p] \in SUBSET (Side \X Object)
  BY <1>3, <1>5, <1>6
<1>8. Asked = [p \in Side \X Object |-> Asked[p]]
  BY DEF Asked, Side
<1>9. Asked \in [Side \X Object -> SUBSET (Side \X Object)]
  BY <1>7, <1>8
<1> QED
  BY <1>3, <1>4, <1>9

\* What _head and _tail return for each kind of object.
LEMMA EndsThrough ==
  ASSUME GraphInv, NEW s \in Side
  PROVE  /\ \A o \in Object : Ends(s, o) \subseteq Leaf
         /\ \A l \in Leaf : Ends(s, l) = {l}
         /\ \A c \in Composite :
              /\ made[c].kind = "group" => Ends(s, c) = UNION {Ends(s, x) : x \in Range(made[c].items)}
              /\ made[c].kind = "chain" =>
                   Ends(s, c) = IF s = "head" THEN Ends("tail", made[c].items[1])
                                ELSE Ends("head", Last(made[c].items))
              /\ made[c].kind = "none" => Ends(s, c) = {}
<1> DEFINE R(p) == ReachedFrom({p}, Asked)
           L(p) == {l \in Leaf : \E t \in Side : <<t, l>> \in R(p)}
<1>1. \A t \in Side, o \in Object : Ends(t, o) = L(<<t, o>>)
  BY DEF Ends, Side
<1>2. \A p \in Side \X Object : R(p) = {p} \cup UNION {R(q) : q \in Asked[p]}
  BY AskedTypes, ObjectsFinite, ReachedThrough
<1> HIDE DEF R
<1>3. \A l \in Leaf : l \in Object /\ <<s, l>> \in Side \X Object
  BY DEF Object
<1>4. \A l \in Leaf : R(<<s, l>>) = {<<s, l>>}
  BY <1>2, <1>3, AskedTypes
<1>5. ASSUME NEW l \in Leaf
      PROVE  Ends(s, l) = {l}
  <2>1. \A m \in Leaf : (\E t \in Side : <<t, m>> \in {<<s, l>>}) <=> m = l
    OBVIOUS
  <2>2. L(<<s, l>>) = {l}
    BY <1>4, <2>1
  <2> QED
    BY <1>1, <1>3, <2>2
<1>6. ASSUME NEW c \in Composite
      PROVE  L(<<s, c>>) = UNION {L(q) : q \in Asked[<<s, c>>]}
  <2>1. c \in Object /\ c \notin Leaf /\ <<s, c>> \in Side \X Object
    BY DelayablesAssumption DEF Object
  <2>2. \A t \in Side, l \in Leaf : <<t, l>> # <<s, c>>
    BY <2>1
  <2>3. \A t \in Side, l \in Leaf :
          <<t, l>> \in R(<<s, c>>) <=> \E q \in Asked[<<s, c>>] : <<t, l>> \in R(q)
    BY <1>2, <2>1, <2>2
  <2>4. \A l \in Leaf : l \in L(<<s, c>>) <=> \E q \in Asked[<<s, c>>] : l \in L(q)
    BY <2>3
  <2>5. \A q : L(q) \subseteq Leaf
    OBVIOUS
  <2> HIDE DEF L
  <2> QED
    BY <2>4, <2>5
<1> HIDE DEF L
<1>7. ASSUME NEW c \in Composite, made[c].kind = "group"
      PROVE  Ends(s, c) = UNION {Ends(s, x) : x \in Range(made[c].items)}
  <2>1. c \in Object /\ Range(made[c].items) \subseteq Object
    BY DEF Object, GraphInv, Existing
  <2>2. Asked[<<s, c>>] = {s} \X Range(made[c].items)
    BY <1>7, AskedTypes
  <2>3. UNION {L(q) : q \in {s} \X Range(made[c].items)}
          = UNION {L(<<s, x>>) : x \in Range(made[c].items)}
    <3> DEFINE S == Range(made[c].items)
    <3>1. (\A q \in {s} \X S : \E x \in S : q = <<s, x>>) /\ \A x \in S : <<s, x>> \in {s} \X S
      OBVIOUS
    <3> HIDE DEF S
    <3>2. UNION {L(q) : q \in {s} \X S} = UNION {L(<<s, x>>) : x \in S}
      BY <3>1
    <3> QED
      BY <3>2 DEF S
  <2> QED
    BY <1>1, <1>6, <2>1, <2>2, <2>3
<1>8. ASSUME NEW c \in Composite, made[c].kind = "chain"
      PROVE  Ends(s, c) = IF s = "head" THEN Ends("tail", made[c].items[1])
                          ELSE Ends("head", Last(made[c].items))
  <2>1. c \in Object /\ made[c].items \in Seq(Object) /\ made[c].items # <<>>
    BY <1>8 DEF Object, GraphInv, Unmade
  <2>2. made[c].items[1] \in Object /\ Last(made[c].items) \in Object
    BY <2>1 DEF Last
  <2>3. Asked[<<s, c>>] = IF s = "head" THEN {<<"tail", made[c].items[1]>>}
                          ELSE {<<"head", Last(made[c].items)>>}
    BY <1>8, AskedTypes
  <2>4. CASE s = "head"
    <3>1. L(<<s, c>>) = L(<<"tail", made[c].items[1]>>)
      BY <1>6, <2>3, <2>4
    <3> QED
      BY <1>1, <2>1, <2>2, <2>4, <3>1 DEF Side
  <2>5. CASE s # "head"
    <3>1. L(<<s, c>>) = L(<<"head", Last(made[c].items)>>)
      BY <1>6, <2>3, <2>5
    <3> QED
      BY <1>1, <2>1, <2>2, <2>5, <3>1 DEF Side
  <2> QED
    BY <2>4, <2>5
<1>9. ASSUME NEW c \in Composite, made[c].kind = "none"
      PROVE  Ends(s, c) = {}
  <2>1. c \in Object
    BY DEF Object
  <2>2. L(<<s, c>>) = UNION {L(q) : q \in {}}
    BY <1>6, <1>9, AskedTypes
  <2> QED
    BY <1>1, <2>1, <2>2
<1>10. \A o \in Object : Ends(s, o) \subseteq Leaf
  BY DEF Ends
<1> QED
  BY <1>5, <1>7, <1>8, <1>9, <1>10

\* All ends are among the objects visited.
LEMMA EndsVisited ==
  ASSUME GraphInv, NEW o \in Object, NEW x \in Visited(o), NEW s \in Side
  PROVE  Ends(s, x) \subseteq Visited(o)
<1> DEFINE C == Side \X Visited(o)
<1>1. x \in Object /\ C \in SUBSET (Side \X Object) /\ <<s, x>> \in C
  BY VisitedClosed
<1>2. ASSUME NEW t \in Side, NEW y \in Visited(o)
      PROVE  Asked[<<t, y>>] \subseteq C
  <2>1. y \in Object /\ graph[y].node \subseteq Visited(o)
    BY VisitedClosed
  <2>2. CASE y \in Leaf
    BY <2>2, AskedTypes
  <2>3. CASE y \in Composite
    <3>1. Range(made[y].items) \subseteq Visited(o)
      BY <2>1, <2>3 DEF GraphInv
    <3>2. /\ made[y].kind \in {"none", "chain", "group"} /\ made[y].items \in Seq(Object)
          /\ made[y].kind = "chain" => made[y].items # <<>>
      BY <2>3 DEF GraphInv, Unmade
    <3>3. made[y].kind = "chain" =>
            made[y].items[1] \in Visited(o) /\ Last(made[y].items) \in Visited(o)
      BY <3>1, <3>2 DEF Range, Last
    <3> QED
      BY <2>3, <3>1, <3>2, <3>3, AskedTypes DEF Side
  <2> QED
    BY <2>1, <2>2, <2>3 DEF Object
<1>3. Closed(C, Asked)
  BY <1>2 DEF Closed
<1>4. {<<s, x>>} \in SUBSET (Side \X Object) /\ {<<s, x>>} \subseteq C
  BY <1>1
<1>5. ReachedFrom({<<s, x>>}, Asked) \subseteq C
  <2> HIDE DEF C
  <2> QED
    BY <1>1, <1>3, <1>4, AskedTypes, ObjectsFinite, ReachedIsLeast
<1> QED
  BY <1>5 DEF Ends, Side

-----------------------------------------------------------------------------
(* Building *)

LEMMA GraphInit ==
  /\ DyInit => GraphInv
  /\ \A o, g, step : Connect(o, g, step) => GraphInv'
<1> DEFINE Fresh(m, g, a) == m = [c \in Composite |-> Unmade] /\ g = FreshGraph /\ a = {}
<1>1. ASSUME Fresh(made, graph, after)
      PROVE  GraphInv
  <2>1. /\ made \in [Composite -> [kind : {"none", "chain", "group"}, items : Seq(Object)]]
        /\ \A c \in Composite : made[c] = Unmade
    BY <1>1 DEF Unmade
  <2>2. /\ graph \in [Object -> [node : SUBSET Object, edge : SUBSET (Object \X Object)]]
        /\ \A o \in Object : graph[o].edge = {}
        /\ \A l \in Leaf : l \in graph[l].node
    BY <1>1 DEF FreshGraph, Object
  <2>3. \A c \in Composite : made[c].kind = "none" /\ made[c].items = <<>>
                             /\ Range(made[c].items) = {}
    BY <2>1 DEF Unmade, Range
  <2> QED
    BY <1>1, <2>1, <2>2, <2>3 DEF GraphInv
<1>2. ASSUME Fresh(made, graph, after)'
      PROVE  GraphInv'
  <2>1. /\ made' \in [Composite -> [kind : {"none", "chain", "group"}, items : Seq(Object)]]
        /\ \A c \in Composite : made'[c] = Unmade
    BY <1>2 DEF Unmade
  <2>2. /\ graph' \in [Object -> [node : SUBSET Object, edge : SUBSET (Object \X Object)]]
        /\ \A o \in Object : graph'[o].edge = {}
        /\ \A l \in Leaf : l \in graph'[l].node
    BY <1>2 DEF FreshGraph, Object
  <2>3. \A c \in Composite : made'[c].kind = "none" /\ made'[c].items = <<>>
                             /\ Range(made'[c].items) = {}
    BY <2>1 DEF Unmade, Range
  <2> QED
    BY <1>2, <2>1, <2>2, <2>3 DEF GraphInv
<1> QED
  BY <1>1, <1>2 DEF DyInit, Connect

LEMMA ItemsTypes ==
  ASSUME NEW items \in Items
  PROVE  items \in Seq(Existing) /\ Range(items) \subseteq Existing /\ Len(items) \in Nat
<1>1. \E m \in Nat : items \in [1 .. m -> Existing]
  BY DelayablesAssumption DEF Items, SeqOf
<1> QED
  BY <1>1 DEF Range

\* A new chain or group, with the edges E among its items.
LEMMA MadeKeeps ==
  ASSUME GraphInv, NEW c \in Composite, made[c] = Unmade,
         NEW items \in Items, items # <<>>, NEW kind \in {"chain", "group"},
         made' = [made EXCEPT ![c] = [kind |-> kind, items |-> items]],
         NEW E \in SUBSET (Range(items) \X Range(items)),
         graph' = [graph EXCEPT ![c] = [node |-> Range(items), edge |-> E]],
         kind = "chain" => E = {<<items[k], items[k + 1]>> : k \in 1 .. Len(items) - 1},
         after' = after
  PROVE  GraphInv'
<1>1. Existing \subseteq Object /\ c \notin Existing /\ c \notin Leaf /\ c \in Object
  BY DelayablesAssumption DEF Existing, Object
<1>2. items \in Seq(Existing) /\ items \in Seq(Object) /\ Range(items) \subseteq Existing /\ Len(items) \in Nat
  BY <1>1, ItemsTypes
<1>3. /\ made'[c].kind = kind /\ made'[c].items = items
      /\ \A d \in Composite \ {c} : made'[d] = made[d]
      /\ made' \in [Composite -> [kind : {"none", "chain", "group"}, items : Seq(Object)]]
  BY <1>2 DEF GraphInv
<1>4. /\ graph'[c].node = Range(items) /\ graph'[c].edge = E
      /\ \A o \in Object \ {c} : graph'[o] = graph[o]
      /\ graph' \in [Object -> [node : SUBSET Object, edge : SUBSET (Object \X Object)]]
  <2>1. [node |-> Range(items), edge |-> E] \in [node : SUBSET Object, edge : SUBSET (Object \X Object)]
    BY <1>1, <1>2
  <2> QED
    BY <1>1, <2>1 DEF GraphInv
<1>5. Existing' = Existing \cup {c} /\ made'[c] # Unmade
  BY <1>3 DEF Existing, Unmade
<1>6. \A d \in Composite : d \in Object
  BY DEF Object
<1>7. \A d \in Composite : (made'[d].kind = "none" <=> made'[d] = Unmade)
                           /\ (made'[d].items = <<>> <=> made'[d] = Unmade)
  BY <1>3, <1>5 DEF GraphInv
<1>8. \A o \in Object : graph'[o].edge \subseteq graph'[o].node \X graph'[o].node
  BY <1>4 DEF GraphInv
<1>9. \A l \in Leaf : l \in graph'[l].node
  BY <1>1, <1>4 DEF GraphInv, Object
<1>10. ASSUME NEW d \in Composite
       PROVE  /\ Range(made'[d].items) \subseteq graph'[d].node
              /\ Range(made'[d].items) \subseteq Existing'
              /\ made'[d].kind = "chain" =>
                   \A k \in 1 .. Len(made'[d].items) - 1 :
                     <<made'[d].items[k], made'[d].items[k + 1]>> \in graph'[d].edge
  <2>1. CASE d = c
    BY <1>2, <1>3, <1>4, <1>5, <2>1
  <2>2. CASE d # c
    BY <1>3, <1>4, <1>5, <1>6, <2>2 DEF GraphInv
  <2> QED
    BY <2>1, <2>2
<1>11. ASSUME NEW e \in after
       PROVE  /\ e \in Existing' \X Object
              /\ Sources(e[1])' \X {e[2]} \subseteq graph'[e[1]].edge
  <2>1. /\ e \in Existing \X Object /\ e[1] # c /\ e[1] \in Object
        /\ Sources(e[1]) \X {e[2]} \subseteq graph[e[1]].edge
    BY <1>1 DEF GraphInv
  <2>2. Sources(e[1])' = Sources(e[1])
    BY <1>3, <2>1 DEF Sources, Existing
  <2> QED
    BY <1>4, <1>5, <2>1, <2>2
<1>12. ASSUME NEW T \in SUBSET Composite, T # {}
       PROVE  \E d \in T : Range(made'[d].items) \cap T = {}
  <2>1. CASE T = {c}
    BY <1>1, <1>2, <1>3, <2>1
  <2>2. CASE T # {c}
    <3>1. T \ {c} \in SUBSET Composite /\ T \ {c} # {}
      BY <1>12, <2>2
    <3>2. PICK d \in T \ {c} : Range(made[d].items) \cap (T \ {c}) = {}
      BY <3>1 DEF GraphInv
    <3>3. c \notin Range(made[d].items)
      BY <1>1, <3>1, <3>2 DEF GraphInv
    <3> QED
      BY <1>3, <3>1, <3>2, <3>3
  <2> QED
    BY <2>1, <2>2
<1> QED
  BY <1>3, <1>4, <1>7, <1>8, <1>9, <1>10, <1>11, <1>12 DEF GraphInv

LEMMA OnDoneKeeps ==
  ASSUME GraphInv, NEW o \in Existing, NEW d \in Existing, OnDone(o, d)
  PROVE  GraphInv'
<1>1. Existing \subseteq Object /\ o \in Object /\ d \in Object
  BY DEF Existing, Object
<1>2. Sources(o) \subseteq graph[o].node
  <2>1. CASE o \in Leaf
    BY <2>1 DEF Sources, GraphInv
  <2>2. CASE o \notin Leaf
    <3>1. o \in Composite /\ made[o].items \in Seq(Object) /\ made[o].items # <<>>
          /\ Range(made[o].items) \subseteq graph[o].node
      BY <2>2 DEF GraphInv, Existing
    <3>2. Last(made[o].items) \in Range(made[o].items)
      BY <3>1 DEF Last, Range
    <3> QED
      BY <2>2, <3>1, <3>2 DEF Sources
  <2> QED
    BY <2>1, <2>2
<1>3. made' = made /\ after' = after \cup {<<o, d>>} /\ Existing' = Existing
  BY DEF OnDone, Existing
<1>4. \A x : Sources(x)' = Sources(x)
  BY <1>3 DEF Sources
<1> DEFINE E == Sources(o) \X {d}
<1>5. /\ graph'[o].node = graph[o].node \cup {d} /\ graph'[o].edge = graph[o].edge \cup E
      /\ \A x \in Object \ {o} : graph'[x] = graph[x]
      /\ graph' \in [Object -> [node : SUBSET Object, edge : SUBSET (Object \X Object)]]
  <2>1. graph[o].node \in SUBSET Object /\ graph[o].edge \in SUBSET (Object \X Object)
    BY <1>1 DEF GraphInv
  <2>2. AddEdges(graph[o], Sources(o), d) = [node |-> graph[o].node \cup {d}, edge |-> graph[o].edge \cup E]
    BY DEF AddEdges
  <2>3. AddEdges(graph[o], Sources(o), d) \in [node : SUBSET Object, edge : SUBSET (Object \X Object)]
    BY <1>1, <1>2, <2>1, <2>2
  <2>4. graph' = [graph EXCEPT ![o] = AddEdges(graph[o], Sources(o), d)]
    BY DEF OnDone
  <2> HIDE DEF E
  <2> QED
    BY <1>1, <2>2, <2>3, <2>4 DEF GraphInv
<1>6. \A x \in Object : /\ graph[x].node \subseteq graph'[x].node
                        /\ graph[x].edge \subseteq graph'[x].edge
                        /\ graph'[x].edge \subseteq graph'[x].node \X graph'[x].node
  <2>1. ASSUME NEW x \in Object
        PROVE  /\ graph[x].node \subseteq graph'[x].node
               /\ graph[x].edge \subseteq graph'[x].edge
               /\ graph'[x].edge \subseteq graph'[x].node \X graph'[x].node
    <3>1. graph[x].edge \subseteq graph[x].node \X graph[x].node
      BY DEF GraphInv
    <3>2. CASE x # o
      BY <1>5, <3>1, <3>2
    <3>3. CASE x = o
      BY <1>2, <1>5, <3>1, <3>3
    <3> QED
      BY <3>2, <3>3
  <2> QED
    BY <2>1
<1>7. \A e \in after' : /\ e \in Existing' \X Object
                        /\ Sources(e[1])' \X {e[2]} \subseteq graph'[e[1]].edge
  <2>1. ASSUME NEW e \in after
        PROVE  /\ e \in Existing' \X Object
               /\ Sources(e[1])' \X {e[2]} \subseteq graph'[e[1]].edge
    BY <1>1, <1>3, <1>4, <1>6 DEF GraphInv
  <2>2. <<o, d>> \in Existing' \X Object /\ Sources(o)' \X {d} \subseteq graph'[o].edge
    BY <1>1, <1>3, <1>4, <1>5
  <2> QED
    BY <1>3, <2>1, <2>2
<1>8. \A c \in Composite : c \in Object
  BY DEF Object
<1>9. \A l \in Leaf : l \in graph'[l].node
  BY <1>6 DEF GraphInv, Object
<1> QED
  BY <1>3, <1>5, <1>6, <1>7, <1>8, <1>9 DEF GraphInv

LEMMA GraphNext ==
  ASSUME GraphInv, [DyNext]_dyVars
  PROVE  GraphInv'
<1>1. ASSUME NEW c \in Composite, NEW items \in Items, NewChain(c, items)
      PROVE  GraphInv'
  <2> DEFINE E == {<<items[k], items[k + 1]>> : k \in 1 .. Len(items) - 1}
  <2>1. E \in SUBSET (Range(items) \X Range(items))
    BY ItemsTypes DEF Range
  <2> HIDE DEF E
  <2>2. /\ graph' = [graph EXCEPT ![c] = [node |-> Range(items), edge |-> E]]
        /\ made' = [made EXCEPT ![c] = [kind |-> "chain", items |-> items]]
        /\ made[c] = Unmade /\ items # <<>> /\ after' = after
    BY <1>1 DEF NewChain, E
  <2> QED
    BY <2>1, <2>2, MadeKeeps DEF E
<1>2. ASSUME NEW c \in Composite, NEW items \in Items, NewGroup(c, items)
      PROVE  GraphInv'
  <2>1. /\ graph' = [graph EXCEPT ![c] = [node |-> Range(items), edge |-> {}]]
        /\ made' = [made EXCEPT ![c] = [kind |-> "group", items |-> items]]
        /\ made[c] = Unmade /\ items # <<>> /\ after' = after
    BY <1>2 DEF NewGroup
  <2>2. {} \in SUBSET (Range(items) \X Range(items))
    OBVIOUS
  <2> QED
    BY <2>1, <2>2, MadeKeeps
<1>3. CASE UNCHANGED <<made, graph, after>>
  BY <1>3 DEF GraphInv, Existing, Sources
<1> QED
  BY <1>1, <1>2, <1>3, OnDoneKeeps, GraphInit
  DEF DyNext, Build, Delay, DelayDirectly, RunDirectly, dyVars

-----------------------------------------------------------------------------
(* What delay() connects *)

LEMMA Connected ==
  ASSUME GraphInv, NEW o \in Object, NEW g, g = Merged(Visited(o))
  PROVE  /\ g.node \subseteq Leaf /\ g.edge \subseteq g.node \X g.node
         /\ \A x \in Visited(o) : \A e \in graph[x].edge : TailOf(e[1]) \X HeadOf(e[2]) \subseteq g.edge
<1>1. /\ Visited(o) \subseteq Object
      /\ \A x \in Visited(o) : /\ graph[x].node \subseteq Visited(o)
                               /\ graph[x].edge \subseteq graph[x].node \X graph[x].node
  BY VisitedClosed DEF GraphInv
<1>2. \A x \in Object : TailOf(x) \subseteq Leaf /\ HeadOf(x) \subseteq Leaf
  BY EndsThrough DEF TailOf, HeadOf, Side
<1>3. \A x \in Visited(o) : HeadOf(x) \subseteq Visited(o)
  BY EndsVisited DEF HeadOf, Side
<1>4. \A l \in Leaf : TailOf(l) = {l} /\ l \in graph[l].node
  BY EndsThrough DEF TailOf, Side, GraphInv
<1>5. /\ g.node = UNION {UNION {TailOf(v) : v \in graph[x].node} : x \in Visited(o)}
      /\ g.edge = UNION {UNION {TailOf(e[1]) \X HeadOf(e[2]) : e \in graph[x].edge} : x \in Visited(o)}
  BY DEF Merged
<1>6. g.node \subseteq Leaf
  BY <1>1, <1>2, <1>5
<1>7. \A x \in Visited(o) : \A v \in graph[x].node : TailOf(v) \subseteq g.node
  BY <1>5
<1>8. \A l \in Leaf : l \in Visited(o) => l \in g.node
  BY <1>4, <1>7
<1>9. ASSUME NEW x \in Visited(o), NEW e \in graph[x].edge
      PROVE  TailOf(e[1]) \X HeadOf(e[2]) \subseteq g.node \X g.node
  <2>1. e[1] \in graph[x].node /\ e[2] \in graph[x].node /\ e[2] \in Visited(o) /\ e[2] \in Object
    BY <1>1
  <2>2. TailOf(e[1]) \subseteq g.node
    BY <1>7, <2>1
  <2>3. HeadOf(e[2]) \subseteq g.node
    BY <1>2, <1>3, <1>8, <2>1
  <2> QED
    BY <2>2, <2>3
<1>10. g.edge \subseteq g.node \X g.node
  BY <1>5, <1>9
<1>11. \A x \in Visited(o) : \A e \in graph[x].edge : TailOf(e[1]) \X HeadOf(e[2]) \subseteq g.edge
  BY <1>5
<1> QED
  BY <1>6, <1>10, <1>11

LEMMA BeforeBasics ==
  ASSUME NEW E \in SUBSET (Leaf \X Leaf)
  PROVE  /\ \A e \in E : e[1] \in Before(E, e[2])
         /\ \A b \in Leaf : Before(E, b) \subseteq Leaf
         /\ \A b, c \in Leaf : b \in Before(E, c) => Before(E, b) \subseteq Before(E, c)
<1> DEFINE from == [x \in Leaf |-> {e[1] : e \in {f \in E : f[2] = x}}]
<1>1. from \in [Leaf -> SUBSET Leaf] /\ IsFiniteSet(Leaf)
  BY DelayablesAssumption
<1>2. \A b \in Leaf : Before(E, b) = ReachedFrom(from[b], from)
  BY DEF Before
<1>3. \A e \in E : e[2] \in Leaf /\ e[1] \in from[e[2]]
  OBVIOUS
<1> HIDE DEF from
<1>4. \A b \in Leaf :
        /\ from[b] \subseteq Before(E, b) /\ Before(E, b) \subseteq Leaf /\ Closed(Before(E, b), from)
        /\ \A C \in SUBSET Leaf : from[b] \subseteq C /\ Closed(C, from) => Before(E, b) \subseteq C
  <2> SUFFICES ASSUME NEW b \in Leaf
               PROVE  /\ from[b] \subseteq Before(E, b) /\ Before(E, b) \subseteq Leaf
                      /\ Closed(Before(E, b), from)
                      /\ \A C \in SUBSET Leaf : from[b] \subseteq C /\ Closed(C, from)
                                                => Before(E, b) \subseteq C
    OBVIOUS
  <2>1. from[b] \in SUBSET Leaf
    BY <1>1
  <2> QED
    BY <1>1, <1>2, <2>1, ReachedIsLeast
<1>5. \A b, c \in Leaf : b \in Before(E, c) => Before(E, b) \subseteq Before(E, c)
  BY <1>4 DEF Closed
<1> QED
  BY <1>3, <1>4, <1>5

\* An object with nothing but groups inside has all its jobs at both ends.
LEMMA NoChainEnds ==
  ASSUME GraphInv, NEW x \in Object, \A y \in Parts(x) \ Leaf : made[y].kind # "chain",
         NEW s \in Side
  PROVE  Ends(s, x) = LeavesOf(x)
<1> DEFINE Plain(y) == \A z \in Parts(y) \ Leaf : made[z].kind # "chain"
           Bad == {c \in Composite : Plain(c) /\ Ends(s, c) # LeavesOf(c)}
<1>1. \A l \in Leaf : Ends(s, l) = LeavesOf(l)
  BY EndsThrough, LeavesThrough
<1>2. Bad = {}
  <2> SUFFICES ASSUME Bad # {}
               PROVE  FALSE
    OBVIOUS
  <2>1. PICK c \in Bad : Range(made[c].items) \cap Bad = {}
    BY DEF GraphInv
  <2>2. c \in Composite /\ c \in Object /\ c \notin Leaf /\ Range(made[c].items) \subseteq Object
    BY DelayablesAssumption DEF Object, GraphInv, Existing
  <2>3. /\ c \in Parts(c) /\ ItemsOf[c] = Range(made[c].items)
        /\ Parts(c) = {c} \cup UNION {Parts(y) : y \in ItemsOf[c]}
    BY <2>2, PartsThrough, Successors
  <2>4. made[c].kind # "chain" /\ made[c].kind \in {"none", "chain", "group"}
        /\ (made[c].kind = "none" => made[c].items = <<>>)
    BY <2>2, <2>3 DEF GraphInv, Unmade
  <2>5. \A y \in Range(made[c].items) : Plain(y)
    BY <2>1, <2>3
  <2>6. \A y \in Range(made[c].items) : Ends(s, y) = LeavesOf(y)
    BY <1>1, <2>1, <2>2, <2>5 DEF Object
  <2>7. LeavesOf(c) = UNION {LeavesOf(y) : y \in Range(made[c].items)}
    BY <2>2, LeavesThrough
  <2>8. CASE made[c].kind = "group"
    <3>1. Ends(s, c) = UNION {Ends(s, y) : y \in Range(made[c].items)}
      BY <2>2, <2>8, EndsThrough
    <3>2. UNION {Ends(s, y) : y \in Range(made[c].items)} = UNION {LeavesOf(y) : y \in Range(made[c].items)}
      BY <2>6
    <3> QED
      BY <2>1, <2>7, <3>1, <3>2
  <2>9. CASE made[c].kind = "none"
    <3>1. Ends(s, c) = {} /\ Range(made[c].items) = {}
      BY <2>2, <2>4, <2>9, EndsThrough DEF Range
    <3>2. LeavesOf(c) = {}
      BY <2>7, <3>1
    <3> QED
      BY <2>1, <3>1, <3>2
  <2> QED
    BY <2>4, <2>8, <2>9
<1>3. x \in Leaf \/ x \in Composite
  BY DEF Object
<1> QED
  BY <1>1, <1>2, <1>3

\* Whatever exists has a job in it.
LEMMA HasLeaves ==
  ASSUME GraphInv, NEW x \in Existing
  PROVE  LeavesOf(x) # {}
<1> DEFINE Bad == {c \in Composite : made[c] # Unmade /\ LeavesOf(c) = {}}
<1>1. Bad = {}
  <2> SUFFICES ASSUME Bad # {}
               PROVE  FALSE
    OBVIOUS
  <2>1. PICK c \in Bad : Range(made[c].items) \cap Bad = {}
    BY DEF GraphInv
  <2>2. made[c].items \in Seq(Object) /\ made[c].items # <<>> /\ Range(made[c].items) \subseteq Existing
    BY <2>1 DEF GraphInv
  <2>3. made[c].items[1] \in Range(made[c].items)
    BY <2>2 DEF Range
  <2>4. LeavesOf(made[c].items[1]) # {}
    <3> DEFINE y == made[c].items[1]
    <3>1. y \in Existing /\ y \notin Bad
      BY <2>1, <2>2, <2>3
    <3>2. y \in Leaf \/ (y \in Composite /\ made[y] # Unmade)
      BY <3>1 DEF Existing
    <3> HIDE DEF y
    <3>3. y \in Leaf => LeavesOf(y) # {}
      BY LeavesThrough
    <3> QED
      BY <3>1, <3>2, <3>3 DEF y
  <2>5. c \in Composite /\ LeavesOf(c) = {}
    BY <2>1
  <2>6. LeavesOf(made[c].items[1]) \subseteq LeavesOf(c)
    BY <2>3, <2>5, LeavesThrough
  <2> QED
    BY <2>4, <2>5, <2>6
<1> QED
  BY <1>1, LeavesThrough DEF Existing

-----------------------------------------------------------------------------
(* The order that delay() keeps *)

LEMMA LeastNumber ==
  ASSUME NEW S \in SUBSET Nat, S # {}
  PROVE  \E n \in S : \A m \in S : n <= m
<1>1. PICK n \in S : \A m \in S : <<m, n>> \notin OpToRel(<, Nat)
  BY WFMin, NatLessThanWellFounded, Zenon
<1>2. \A m \in S : ~(m < n)
  BY <1>1 DEF OpToRel
<1> QED
  BY <1>2

Leads(E, a, b) == a = b \/ a \in Before(E, b)

AllBefore(E, x, y) == \A a \in LeavesOf(x), b \in LeavesOf(y) : a \in Before(E, b)

\* The jobs at the ends of an object stand for all of its jobs: each job leads to
\* one of the tails, and is reached from one of the heads.
Linked(E, x) ==
  /\ \A a \in LeavesOf(x) : \E t \in TailOf(x) : Leads(E, a, t)
  /\ \A b \in LeavesOf(x) : \E h \in HeadOf(x) : Leads(E, h, b)

LEMMA LinkedOrder ==
  ASSUME GraphInv, NEW E \in SUBSET (Leaf \X Leaf), NEW x \in Object, NEW y \in Object,
         Linked(E, x), Linked(E, y), TailOf(x) \X HeadOf(y) \subseteq E
  PROVE  AllBefore(E, x, y)
<1> SUFFICES ASSUME NEW a \in LeavesOf(x), NEW b \in LeavesOf(y)
             PROVE  a \in Before(E, b)
  BY DEF AllBefore
<1>1. PICK t \in TailOf(x), h \in HeadOf(y) : Leads(E, a, t) /\ Leads(E, h, b)
  BY DEF Linked
<1>2. a \in Leaf /\ b \in Leaf /\ t \in Leaf /\ h \in Leaf
  BY LeavesThrough, EndsThrough DEF TailOf, HeadOf, Side
<1>3. t \in Before(E, h)
  <2>1. <<t, h>> \in E
    BY <1>1
  <2> QED
    BY <2>1, BeforeBasics
<1>4. a \in Before(E, h)
  BY <1>1, <1>2, <1>3, BeforeBasics DEF Leads
<1> QED
  BY <1>1, <1>2, <1>4, BeforeBasics DEF Leads

\* The steps of a chain whose first and last items have all their jobs at both
\* ends.
LEMMA ChainLinked ==
  ASSUME GraphInv, NEW E \in SUBSET (Leaf \X Leaf),
         NEW c \in Composite, made[c].kind = "chain", NEW s, s = made[c].items,
         \A k \in 1 .. Len(s) : Linked(E, s[k]),
         \A k \in 1 .. Len(s) - 1 : TailOf(s[k]) \X HeadOf(s[k + 1]) \subseteq E,
         \A x \in {s[1], Last(s)} : \A y \in Parts(x) \ Leaf : made[y].kind # "chain"
  PROVE  Linked(E, c)
<1> DEFINE n == Len(s)
<1>1. s \in Seq(Object) /\ s # <<>> /\ Range(s) \subseteq Existing
  BY DEF GraphInv, Unmade
<1>2. n \in Nat /\ n >= 1 /\ Last(s) = s[n] /\ \A k \in 1 .. n : s[k] \in Object /\ s[k] \in Existing
  BY <1>1 DEF Last, Range
<1>3. \A k \in 1 .. n - 1 : AllBefore(E, s[k], s[k + 1])
  BY <1>2, LinkedOrder
<1>4. \A j \in 1 .. n : \A k \in 1 .. j - 1 : AllBefore(E, s[k], s[j])
  <2> DEFINE Bad == {j \in 1 .. n : \E k \in 1 .. j - 1 : ~AllBefore(E, s[k], s[j])}
  <2> SUFFICES ASSUME Bad # {}
               PROVE  FALSE
    OBVIOUS
  <2>1. PICK j \in Bad : \A m \in Bad : j <= m
    <3>1. Bad \in SUBSET Nat
      BY <1>2
    <3> HIDE DEF Bad
    <3> QED
      BY <3>1, LeastNumber
  <2>2. PICK k \in 1 .. j - 1 : ~AllBefore(E, s[k], s[j])
    BY <2>1
  <2>3. j \in 1 .. n /\ j - 1 \in 1 .. n /\ j - 1 \in 1 .. n - 1 /\ k \in 1 .. n /\ j - 1 \notin Bad
    <3>1. j \in 1 .. n /\ k \in 1 .. j - 1
      BY <2>1, <2>2
    <3>2. j - 1 \in 1 .. n /\ j - 1 \in 1 .. n - 1 /\ k \in 1 .. n /\ ~(j <= j - 1)
      BY <1>2, <3>1
    <3> HIDE DEF Bad
    <3> QED
      BY <2>1, <3>1, <3>2
  <2>4. AllBefore(E, s[j - 1], s[j])
    <3>1. AllBefore(E, s[j - 1], s[(j - 1) + 1])
      BY <1>3, <2>3
    <3>2. (j - 1) + 1 = j
      BY <2>3
    <3> QED
      BY <3>1, <3>2
  <2>5. k # j - 1
    BY <2>2, <2>4
  <2>6. AllBefore(E, s[k], s[j - 1])
    <3>1. k \in 1 .. (j - 1) - 1
      BY <1>2, <2>2, <2>3, <2>5
    <3> QED
      BY <2>3, <3>1
  <2> HIDE DEF Bad, n
  <2>7. PICK m : m \in LeavesOf(s[j - 1])
    BY <1>2, <2>3, HasLeaves
  <2>8. m \in Leaf /\ LeavesOf(s[k]) \subseteq Leaf /\ LeavesOf(s[j]) \subseteq Leaf
    BY <1>2, <2>3, <2>7, LeavesThrough
  <2>9. \A a \in LeavesOf(s[k]), b \in LeavesOf(s[j]) : a \in Before(E, m) /\ m \in Before(E, b)
    BY <2>4, <2>6, <2>7 DEF AllBefore
  <2>10. AllBefore(E, s[k], s[j])
    BY <2>8, <2>9, BeforeBasics DEF AllBefore
  <2> QED
    BY <2>2, <2>10
<1> HIDE DEF n
<1>5. TailOf(c) = LeavesOf(s[n]) /\ HeadOf(c) = LeavesOf(s[1])
  <2>1. TailOf(c) = Ends("head", Last(s)) /\ HeadOf(c) = Ends("tail", s[1])
    BY EndsThrough DEF TailOf, HeadOf, Side
  <2>2. s[1] \in Object /\ s[n] \in Object
    BY <1>2
  <2> QED
    BY <1>2, <2>1, <2>2, NoChainEnds DEF Side
<1>6. \A a \in LeavesOf(c) : \E k \in 1 .. n : a \in LeavesOf(s[k])
  <2>1. \A x \in Range(s) : \E k \in 1 .. n : x = s[k]
    BY <1>1 DEF n, Range
  <2> QED
    BY <2>1, LeavesThrough
<1>7. LeavesOf(s[1]) # {} /\ LeavesOf(s[n]) # {}
  BY <1>2, HasLeaves
<1>8. ASSUME NEW a \in LeavesOf(c)
      PROVE  (\E t \in LeavesOf(s[n]) : Leads(E, a, t)) /\ (\E h \in LeavesOf(s[1]) : Leads(E, h, a))
  <2>1. PICK k \in 1 .. n : a \in LeavesOf(s[k])
    BY <1>6
  <2>2. \E t \in LeavesOf(s[n]) : Leads(E, a, t)
    <3>1. CASE k = n
      BY <2>1, <3>1 DEF Leads
    <3>2. CASE k # n
      <4>1. n \in 1 .. n /\ k \in 1 .. n - 1
        BY <1>2, <3>2
      <4> QED
        BY <1>4, <1>7, <2>1, <4>1 DEF Leads, AllBefore
    <3> QED
      BY <3>1, <3>2
  <2>3. \E h \in LeavesOf(s[1]) : Leads(E, h, a)
    <3>1. CASE k = 1
      BY <2>1, <3>1 DEF Leads
    <3>2. CASE k # 1
      <4>1. 1 \in 1 .. k - 1
        BY <1>2, <3>2
      <4> QED
        BY <1>4, <1>7, <2>1, <4>1 DEF Leads, AllBefore
    <3> QED
      BY <3>1, <3>2
  <2> QED
    BY <2>2, <2>3
<1> QED
  BY <1>5, <1>8 DEF Linked

\* In what delay() merges, when no chain begins or ends with another.
LEMMA VisitedLinked ==
  ASSUME GraphInv, NEW o \in Object, NEW E, E = Merged(Visited(o)).edge, Straight(Visited(o))
  PROVE  /\ E \in SUBSET (Leaf \X Leaf)
         /\ \A x \in Visited(o) : Linked(E, x)
<1>1. /\ E \in SUBSET (Leaf \X Leaf)
      /\ \A x \in Visited(o) : \A e \in graph[x].edge : TailOf(e[1]) \X HeadOf(e[2]) \subseteq E
  BY Connected
<1>2. Visited(o) \subseteq Object /\ \A x \in Visited(o) : graph[x].node \subseteq Visited(o)
  BY VisitedClosed
<1>3. \A l \in Leaf : Linked(E, l)
  BY EndsThrough, LeavesThrough DEF Linked, Leads, HeadOf, TailOf, Side
<1> DEFINE Bad == {c \in Composite \cap Visited(o) : ~Linked(E, c)}
<1>4. Bad = {}
  <2> SUFFICES ASSUME Bad # {}
               PROVE  FALSE
    OBVIOUS
  <2>1. PICK c \in Bad : Range(made[c].items) \cap Bad = {}
    BY DEF GraphInv
  <2>2. /\ c \in Composite /\ c \in Visited(o) /\ c \notin Leaf
        /\ Range(made[c].items) \subseteq Visited(o)
        /\ made[c].items \in Seq(Object)
        /\ made[c].kind \in {"none", "chain", "group"}
        /\ made[c].kind = "none" => made[c].items = <<>>
    BY <1>2, <2>1, DelayablesAssumption DEF GraphInv, Unmade
  <2>3. \A x \in Range(made[c].items) : Linked(E, x)
    BY <1>2, <1>3, <2>1, <2>2 DEF Object
  <2>4. LeavesOf(c) = UNION {LeavesOf(x) : x \in Range(made[c].items)}
    BY <2>2, LeavesThrough
  <2>5. CASE made[c].kind = "chain"
    <3> DEFINE s == made[c].items
    <3>1. \A k \in 1 .. Len(s) : Linked(E, s[k])
      BY <2>2, <2>3 DEF Range
    <3>2. \A k \in 1 .. Len(s) - 1 : TailOf(s[k]) \X HeadOf(s[k + 1]) \subseteq E
      <4> SUFFICES ASSUME NEW k \in 1 .. Len(s) - 1
                   PROVE  TailOf(s[k]) \X HeadOf(s[k + 1]) \subseteq E
        OBVIOUS
      <4>1. <<s[k], s[k + 1]>> \in graph[c].edge
        BY <2>2, <2>5 DEF GraphInv
      <4> QED
        BY <1>1, <2>2, <4>1
    <3>3. \A x \in {s[1], Last(s)} : \A y \in Parts(x) \ Leaf : made[y].kind # "chain"
      BY <2>2, <2>5 DEF Straight
    <3> QED
      BY <1>1, <2>1, <2>2, <2>5, <3>1, <3>2, <3>3, ChainLinked
  <2>6. CASE made[c].kind = "group"
    <3>1. /\ TailOf(c) = UNION {TailOf(x) : x \in Range(made[c].items)}
          /\ HeadOf(c) = UNION {HeadOf(x) : x \in Range(made[c].items)}
      BY <2>2, <2>6, EndsThrough DEF TailOf, HeadOf, Side
    <3>2. Linked(E, c)
      BY <2>3, <2>4, <3>1 DEF Linked
    <3> QED
      BY <2>1, <3>2
  <2>7. CASE made[c].kind = "none"
    <3>1. LeavesOf(c) = {}
      BY <2>2, <2>4, <2>7 DEF Range
    <3> QED
      BY <2>1, <3>1 DEF Linked
  <2> QED
    BY <2>2, <2>5, <2>6, <2>7
<1> QED
  BY <1>1, <1>2, <1>3, <1>4 DEF Object

\* The jobs of an object come before those of its on_done.
LEMMA OnDoneOrder ==
  ASSUME GraphInv, NEW o \in Object, NEW E, E = Merged(Visited(o)).edge, Straight(Visited(o)),
         NEW e \in after, e[1] \in Visited(o)
  PROVE  AllBefore(E, e[1], e[2])
<1> DEFINE x == e[1]
           d == e[2]
<1>1. x \in Existing /\ d \in Object /\ \A z \in Sources(x) : <<z, d>> \in graph[x].edge
  BY DEF GraphInv
<1>2. /\ E \in SUBSET (Leaf \X Leaf)
      /\ \A z \in Visited(o) : Linked(E, z) /\ z \in Object
      /\ \A z \in Visited(o) : \A f \in graph[z].edge :
           TailOf(f[1]) \X HeadOf(f[2]) \subseteq E /\ f[1] \in Visited(o) /\ f[2] \in Visited(o)
  <2>1. \A z \in Visited(o) : \A f \in graph[z].edge : f[1] \in graph[z].node /\ f[2] \in graph[z].node
    <3>1. \A z \in Visited(o) : graph[z].edge \subseteq graph[z].node \X graph[z].node
      BY VisitedClosed DEF GraphInv
    <3> QED
      BY <3>1
  <2> QED
    BY <2>1, VisitedLinked, VisitedClosed, Connected
<1> HIDE DEF x, d
<1>3. \A z \in Sources(x) : AllBefore(E, z, d)
  <2> SUFFICES ASSUME NEW z \in Sources(x)
               PROVE  AllBefore(E, z, d)
    OBVIOUS
  <2>1. TailOf(z) \X HeadOf(d) \subseteq E /\ z \in Visited(o) /\ d \in Visited(o)
    BY <1>1, <1>2 DEF x
  <2> QED
    BY <1>2, <2>1, LinkedOrder
<1>4. CASE x \in Leaf
  BY <1>3, <1>4 DEF Sources, x, d
<1>5. CASE x \notin Leaf
  <2>1. x \in Composite /\ made[x].kind \in {"chain", "group"} /\ made[x].items \in Seq(Object)
        /\ made[x].items # <<>>
    BY <1>1, <1>5 DEF Existing, GraphInv, Unmade
  <2>2. CASE made[x].kind = "group"
    <3>1. LeavesOf(x) = UNION {LeavesOf(z) : z \in Range(made[x].items)}
      BY <2>1, LeavesThrough
    <3>2. \A z \in Range(made[x].items) : AllBefore(E, z, d)
      BY <1>3, <1>5, <2>2 DEF Sources
    <3>3. AllBefore(E, x, d)
      BY <3>1, <3>2 DEF AllBefore
    <3> QED
      BY <3>3 DEF x, d
  <2>3. CASE made[x].kind = "chain"
    <3> DEFINE z == Last(made[x].items)
    <3>1. AllBefore(E, z, d) /\ z \in Object
      BY <1>3, <1>5, <2>1, <2>3 DEF Sources, Last
    <3>2. TailOf(x) = Ends("head", z)
      BY <2>1, <2>3, EndsThrough DEF TailOf, Side
    <3>3. \A y \in Parts(z) \ Leaf : made[y].kind # "chain"
      BY <1>5, <2>3 DEF Straight, x
    <3> HIDE DEF z
    <3>4. TailOf(x) = LeavesOf(z)
      BY <3>1, <3>2, <3>3, NoChainEnds DEF Side
    <3>5. \A a \in LeavesOf(x) : \E t \in LeavesOf(z) : Leads(E, a, t)
      BY <1>2, <3>4 DEF Linked, x
    <3>6. AllBefore(E, x, d)
      <4> SUFFICES ASSUME NEW a \in LeavesOf(x), NEW b \in LeavesOf(d)
                   PROVE  a \in Before(E, b)
        BY DEF AllBefore
      <4>1. PICK t \in LeavesOf(z) : Leads(E, a, t)
        BY <3>5
      <4>2. t \in Before(E, b)
        BY <3>1 DEF AllBefore
      <4>3. t \in Leaf /\ b \in Leaf
        BY <1>1, <3>1, LeavesThrough
      <4> QED
        BY <1>2, <4>1, <4>2, <4>3, BeforeBasics DEF Leads
    <3> QED
      BY <3>6 DEF x, d
  <2> QED
    BY <2>1, <2>2, <2>3
<1> QED
  BY <1>4, <1>5

\* What the caller meant is kept by the graph that delay() connects.
LEMMA MeantKept ==
  ASSUME GraphInv, NEW o \in Object, NEW E, E = Merged(Visited(o)).edge, Straight(Visited(o)),
         NEW m \in Meant(Visited(o))
  PROVE  m[1] \in Before(E, m[2])
<1> DEFINE S == Visited(o)
           steps(c) == {<<made[c].items[k], made[c].items[k + 1]>> : k \in 1 .. Len(made[c].items) - 1}
<1>1. \/ \E e \in after : e[1] \in S /\ m \in LeavesOf(e[1]) \X LeavesOf(e[2])
      \/ \E c \in S \ Leaf : made[c].kind = "chain"
           /\ \E e \in steps(c) : m \in LeavesOf(e[1]) \X LeavesOf(e[2])
  BY DEF Meant
<1>2. CASE \E e \in after : e[1] \in S /\ m \in LeavesOf(e[1]) \X LeavesOf(e[2])
  BY <1>2, OnDoneOrder DEF AllBefore
<1>3. ASSUME NEW c \in S \ Leaf, made[c].kind = "chain",
             NEW e \in steps(c), m \in LeavesOf(e[1]) \X LeavesOf(e[2])
      PROVE  m[1] \in Before(E, m[2])
  <2>1. c \in Composite /\ c \in Object /\ graph[c].edge \subseteq graph[c].node \X graph[c].node
    BY VisitedClosed DEF GraphInv, Object
  <2>2. e \in graph[c].edge /\ graph[c].node \subseteq S /\ S \subseteq Object
    <3>1. \A k \in 1 .. Len(made[c].items) - 1 :
            <<made[c].items[k], made[c].items[k + 1]>> \in graph[c].edge
      BY <1>3, <2>1 DEF GraphInv
    <3> QED
      BY <1>3, <3>1, VisitedClosed
  <2>3. e[1] \in S /\ e[2] \in S /\ TailOf(e[1]) \X HeadOf(e[2]) \subseteq E
    BY <2>1, <2>2, Connected
  <2>4. E \in SUBSET (Leaf \X Leaf) /\ Linked(E, e[1]) /\ Linked(E, e[2])
    BY <2>3, VisitedLinked
  <2>5. AllBefore(E, e[1], e[2])
    BY <2>2, <2>3, <2>4, LinkedOrder
  <2> QED
    BY <1>3, <2>5 DEF AllBefore
<1> QED
  BY <1>1, <1>2, <1>3

LEMMA ConnectKeeps ==
  ASSUME GraphInv, NEW o \in Existing, NEW step, Connect(o, Merged(Visited(o)), step)
  PROVE  GraphOfLeaves' /\ StoredInOrder'
<1> DEFINE g == Merged(Visited(o))
<1>1. o \in Object
  BY DEF Existing, Object
<1>2. Parts(o) \cup Visited(o) = Visited(o)
  BY <1>1, VisitedClosed
<1>3. plan' = [at |-> step, node |-> g.node, edge |-> g.edge,
               meant |-> Meant(Visited(o)), straight |-> Straight(Visited(o))]
  BY <1>2 DEF Connect
<1>4. g.node \subseteq Leaf /\ g.edge \subseteq g.node \X g.node
  BY <1>1, Connected
<1> HIDE DEF g
<1>5. GraphOfLeaves'
  BY <1>3, <1>4 DEF GraphOfLeaves
<1>6. StoredInOrder'
  <2> SUFFICES ASSUME Straight(Visited(o)), NEW m \in Meant(Visited(o))
               PROVE  m[1] \in Before(g.edge, m[2])
    BY <1>3 DEF StoredInOrder, Before
  <2> QED
    BY <1>1, MeantKept DEF g
<1> QED
  BY <1>5, <1>6

\* A graph that is not connected yet, or is connected and does not change.
PlanInv == GraphInv /\ GraphOfLeaves /\ StoredInOrder

LEMMA PlanInit == DyInit => PlanInv
  BY GraphInit DEF DyInit, PlanInv, NoPlan, GraphOfLeaves, StoredInOrder

LEMMA PlanNext == PlanInv /\ [DyNext]_dyVars => PlanInv'
<1> SUFFICES ASSUME PlanInv, [DyNext]_dyVars
             PROVE  PlanInv'
  OBVIOUS
<1>1. GraphInv'
  BY GraphNext DEF PlanInv
<1>2. CASE plan' = plan
  BY <1>1, <1>2 DEF PlanInv, GraphOfLeaves, StoredInOrder, Before
<1>3. ASSUME NEW o \in Existing, Delay(o) \/ DelayDirectly(o)
      PROVE  GraphOfLeaves' /\ StoredInOrder'
  <2>1. \E step : Connect(o, Merged(Visited(o)), step)
    BY <1>3 DEF Delay, DelayDirectly
  <2> QED
    BY <2>1, ConnectKeeps DEF PlanInv
<1> QED
  BY <1>1, <1>2, <1>3
  DEF DyNext, Build, NewChain, NewGroup, OnDone, RunDirectly, dyVars, PlanInv

\* What delay() connects are jobs and edges between them, however chains, groups
\* and on_done are nested (_merge_graph, delay.py:207).
THEOREM GraphsAreOfLeaves == DySpec => []GraphOfLeaves
<1>1. PlanInv => GraphOfLeaves
  BY DEF PlanInv
<1> QED
  BY <1>1, PlanInit, PlanNext, PTL DEF DySpec

\* It keeps the order the caller meant when no chain begins or ends with another.
THEOREM OrderIsStored == DySpec => []StoredInOrder
<1>1. PlanInv => StoredInOrder
  BY DEF PlanInv
<1> QED
  BY <1>1, PlanInit, PlanNext, PTL DEF DySpec
=============================================================================
