----------------------------- MODULE Delayables -----------------------------
(***************************************************************************)
(* The graphs of jobs that a caller builds with delayable, chain, group    *)
(* and on_done, what delay() makes of them (queue_job/delay.py), and their *)
(* direct execution when the environment asks for no delay.                *)
(*                                                                         *)
(* Building a graph is private to a caller and touches no row: a behaviour *)
(* begins with it.  plan is the graph that delay() has connected.          *)
(***************************************************************************)
EXTENDS Naturals, SequencesExt

CONSTANTS
  Leaf,        \* the delayables: each leads to one job
  Composite,   \* the chains and groups
  MaxItems,    \* bound on the items of a chain or group
  MaxOnDone    \* bound on the calls of on_done

VARIABLES
  made,        \* the items a chain or group was made of
  graph,       \* the _graph of every object
  after,       \* the calls of on_done, for what the caller meant
  plan,        \* the graph of delayables that delay() connected
  direct       \* its direct execution

dyVars == <<made, graph, after, plan, direct>>

Object == Leaf \cup Composite

ASSUME DelayablesAssumption ==
  /\ IsFiniteSet(Leaf) /\ IsFiniteSet(Composite)
  /\ Leaf \cap Composite = {}
  /\ MaxItems \in Nat /\ MaxOnDone \in Nat

Unmade == [kind |-> "none", items |-> <<>>]
Existing == Leaf \cup {c \in Composite : made[c] # Unmade}

\* A visit: all that next leads to from the members of S.
ReachedFrom(S, next) ==
  LET reached[T \in SUBSET DOMAIN next] ==
        LET U == T \cup UNION {next[x] : x \in T} IN
        IF U = T THEN T ELSE reached[U]
  IN  reached[S]

\* Every object a chain or group is made of, and the jobs among them.
ItemsOf[o \in Object] == IF o \in Leaf THEN {} ELSE Range(made[o].items)
Parts(o) == ReachedFrom({o}, ItemsOf)
LeavesOf(o) == Parts(o) \cap Leaf

-----------------------------------------------------------------------------
(* Objects and their own graphs *)

\* Graph.add_edge, from each of some vertices to one.
AddEdges(g, parents, child) ==
  [node |-> g.node \cup {child}, edge |-> g.edge \cup (parents \X {child})]

\* DelayableChain(*items) and DelayableGroup(*items); groups of nothing are left
\* out (bound).
NewChain(c, items) ==
  /\ made[c] = Unmade
  /\ items # <<>>
  /\ made' = [made EXCEPT ![c] = [kind |-> "chain", items |-> items]]
  /\ graph' = [graph EXCEPT ![c] =
       [node |-> Range(items),
        edge |-> {<<items[k], items[k + 1]>> : k \in 1 .. Len(items) - 1}]]
  /\ UNCHANGED <<after, plan, direct>>

NewGroup(c, items) ==
  /\ made[c] = Unmade
  /\ items # <<>>
  /\ made' = [made EXCEPT ![c] = [kind |-> "group", items |-> items]]
  /\ graph' = [graph EXCEPT ![c] = [node |-> Range(items), edge |-> {}]]
  /\ UNCHANGED <<after, plan, direct>>

\* The vertices that on_done of an object starts its edges from.
Sources(o) ==
  IF o \in Leaf THEN {o}
  ELSE IF made[o].kind = "chain" THEN {Last(made[o].items)}
  ELSE Range(made[o].items)

OnDone(o, d) ==
  /\ Cardinality(after) < MaxOnDone
  /\ after' = after \cup {<<o, d>>}
  /\ graph' = [graph EXCEPT ![o] = AddEdges(@, Sources(o), d)]
  /\ UNCHANGED <<made, plan, direct>>

-----------------------------------------------------------------------------
(* delay(): the graph of all the jobs *)

\* The ends that _head and _tail of an object ask its items for.  The head of a
\* chain is the _tail of its first item, and the tail the _head of its last.
Asked[end \in {"head", "tail"} \X Object] ==
  LET side == end[1]
      object == IF end[2] \in Leaf THEN Unmade ELSE made[end[2]]
  IN  CASE object.items = <<>> -> {}
        [] object.items # <<>> /\ object.kind = "group" -> {side} \X Range(object.items)
        [] OTHER -> IF side = "head" THEN {<<"tail", object.items[1]>>}
                    ELSE {<<"head", Last(object.items)>>}

\* The delayables this leads to.
Ends(side, o) ==
  {l \in Leaf : \E s \in {"head", "tail"} : <<s, l>> \in ReachedFrom({<<side, o>>}, Asked)}

HeadOf(o) == Ends("head", o)
TailOf(o) == Ends("tail", o)

\* Mutant: only the vertices of the first graph are visited.
VisitedOnce(o) == {o} \cup graph[o].node

\* The visit of _connect_graphs: the objects whose graphs are merged, from the
\* one delay() is called on through the vertices of each.
Vertices[o \in Object] == graph[o].node
Visited(o) == ReachedFrom({o}, Vertices)

\* _merge_graph of each of them: the tails of a vertex are linked to the heads
\* of its neighbours.
Merged(S) ==
  [node |-> UNION {UNION {TailOf(v) : v \in graph[x].node} : x \in S},
   edge |-> UNION {UNION {TailOf(e[1]) \X HeadOf(e[2]) : e \in graph[x].edge} : x \in S}]

\* What the caller meant: every job of an item of a chain before every job of
\* the next, every job of an object before every job of its on_done.
Meant(S) ==
  LET steps(c) == {<<made[c].items[k], made[c].items[k + 1]>> : k \in 1 .. Len(made[c].items) - 1}
      orders == {e \in after : e[1] \in S} \cup
                UNION {steps(c) : c \in {x \in S \ Leaf : made[x].kind = "chain"}}
  IN  UNION {LeavesOf(e[1]) \X LeavesOf(e[2]) : e \in orders}

\* No chain begins or ends with an object that has a chain inside.
Straight(S) ==
  \A c \in S \ Leaf : made[c].kind = "chain" =>
    \A x \in {made[c].items[1], Last(made[c].items)} :
      \A y \in Parts(x) \ Leaf : made[y].kind # "chain"

NoPlan == [at |-> "building", node |-> {}, edge |-> {}, meant |-> {}, straight |-> TRUE]
FreshGraph == [o \in Object |-> [node |-> {o} \cap Leaf, edge |-> {}]]
NotDirect == [left |-> [l \in Leaf |-> 0], queue |-> <<>>, ran |-> <<>>]

\* The objects are forgotten once the whole graph g is known.
Connect(o, g, step) ==
  /\ plan.at = "building"
  /\ LET all == Parts(o) \cup Visited(o) IN
     plan' = [at |-> step, node |-> g.node, edge |-> g.edge,
              meant |-> Meant(all), straight |-> Straight(all)]
  /\ made' = [c \in Composite |-> Unmade]
  /\ graph' = FreshGraph
  /\ after' = {}

\* delay() up to the jobs of the vertices; a job that depends on itself raises
\* ValueError and nothing is stored.
Delay(o) ==
  LET g == Merged(Visited(o)) IN
  /\ Connect(o, g, IF \E e \in g.edge : e[1] = e[2] THEN "refused" ELSE "planned")
  /\ UNCHANGED direct

-----------------------------------------------------------------------------
(* Direct execution *)

ParentsIn(l) == {p \in plan.node : <<p, l>> \in plan.edge}
NextOf(l) == {d \in plan.node : <<l, d>> \in plan.edge}

\* _has_to_execute_directly, then topological_sort: the counts of dependencies
\* and the roots, in any order of the set.
DelayDirectly(o) ==
  LET g == Merged(Visited(o))
      count == [l \in Leaf |-> Cardinality({e \in g.edge : e[2] = l})]
  IN  /\ Connect(o, g, "direct")
      /\ \E roots \in SetToSeqs({l \in g.node : count[l] = 0}) :
           direct' = [left |-> count, queue |-> roots, ran |-> <<>>]

\* Mutant: a job is queued at the first of its dependencies.
RunEagerly ==
  /\ plan.at = "direct"
  /\ direct.queue # <<>>
  /\ \E ready \in SetToSeqs(NextOf(Head(direct.queue)) \ Range(direct.ran)) :
       direct' = [direct EXCEPT !.queue = Tail(@) \o ready, !.ran = Append(@, Head(direct.queue))]
  /\ UNCHANGED <<made, graph, after, plan>>

\* The next job is performed; those it was the last dependency of are queued.
RunDirectly ==
  /\ plan.at = "direct"
  /\ direct.queue # <<>>
  /\ LET l == Head(direct.queue)
         left == [d \in Leaf |-> IF d \in NextOf(l) THEN direct.left[d] - 1 ELSE direct.left[d]]
     IN \E ready \in SetToSeqs({d \in NextOf(l) : left[d] = 0}) :
          direct' = [left |-> left, queue |-> Tail(direct.queue) \o ready,
                     ran |-> Append(direct.ran, l)]
  /\ UNCHANGED <<made, graph, after, plan>>

-----------------------------------------------------------------------------

DyInit ==
  /\ made = [c \in Composite |-> Unmade]
  /\ graph = FreshGraph
  /\ after = {}
  /\ plan = NoPlan
  /\ direct = NotDirect

Items == {s \in SeqOf(Existing, MaxItems) : IsInjective(s)}

Build ==
  /\ plan.at = "building"
  /\ \/ \E c \in Composite, s \in Items : NewChain(c, s) \/ NewGroup(c, s)
     \/ \E o, d \in Existing : OnDone(o, d)

DyNext ==
  \/ Build
  \/ \E o \in Existing : Delay(o) \/ DelayDirectly(o)
  \/ RunDirectly

DySpec == DyInit /\ [][DyNext]_dyVars

-----------------------------------------------------------------------------
(* Properties *)

\* The jobs from which l can be reached along edges.
Before(edges, l) ==
  LET from[x \in Leaf] == {e[1] : e \in {f \in edges : f[2] = x}}
  IN  ReachedFrom(from[l], from)

\* The graph that delay() connects from the graphs of nested objects keeps the
\* order the caller meant (_connect_graphs), when no chain begins or ends with
\* another one.
StoredInOrder ==
  plan.straight => \A e \in plan.meant : e[1] \in Before(plan.edge, e[2])

\* What delay() connects are delayables, and the edges are between them.
GraphOfLeaves == plan.node \subseteq Leaf /\ plan.edge \subseteq plan.node \X plan.node

\* topological_sort executes a job after all the jobs it depends on, each once,
\* and leaves a job out only when it is, or depends on, one of some jobs that
\* depend on one another.
DirectInOrder ==
  plan.at = "direct" =>
    /\ \A k \in DOMAIN direct.ran :
         ParentsIn(direct.ran[k]) \subseteq {direct.ran[n] : n \in 1 .. k - 1}
    /\ IsInjective(direct.ran \o direct.queue)
    /\ direct.queue = <<>> =>
         \A l \in plan.node \ Range(direct.ran) :
           \E C \in SUBSET plan.node : l \in C /\ \A c \in C : ParentsIn(c) \cap C # {}

-----------------------------------------------------------------------------
(* A claim of the documentation that the code does not keep *)

\* delay.py:38 "A chain means that jobs must be executed sequentially": whatever
\* a chain begins and ends with, when what the caller meant has no cycle.
ChainsAreSequential ==
  (\A l \in Leaf : l \notin Before(plan.meant, l))
    => \A e \in plan.meant : e[1] \in Before(plan.edge, e[2])
=============================================================================
