---------------------------- MODULE MCJobRunner ----------------------------
(* Two jobs in a channel of capacity 1 below a root of capacity 2, and the
   child of one of them in the root. *)
EXTENDS JobRunner, TLC

CONSTANTS root, sub, first, second, child, w1, w2, admin

MCJob == {first, second, child}
MCChannel == {root, sub}
MCParent == sub :> root
MCCapacity == (root :> 2) @@ (sub :> 1)
MCThrottle == (root :> 0) @@ (sub :> 0)
MCSeq == (first :> 1) @@ (second :> 2) @@ (child :> 3)
MCAttrs == [channel : MCChannel, priority : {1}, eta : {0}]
MCChannelOf == (first :> sub) @@ (second :> sub) @@ (child :> root)
MCPriority == [x \in MCJob |-> 1]
MCWorker == {w1, w2}
MCParents == (first :> {}) @@ (second :> {}) @@ (child :> {first})
MCRetries == [x \in MCJob |-> 1]
MCOutcomes == (first :> {"ok"}) @@ (second :> {"ok", "ignore"}) @@ (child :> {"ok", "fail"})

Symmetry == Permutations(MCWorker)
=============================================================================
