----------------------------- MODULE MCChannels -----------------------------
(* A small instance of Channels: a throttled root, a throttled channel below
   it and a sequential one below that. *)
EXTENDS Channels, TLC

CONSTANTS root, seq, thr

MCChannel == {root, seq, thr}
MCParent == (thr :> root) @@ (seq :> thr)
MCCapacity == (root :> 1) @@ (seq :> 1) @@ (thr :> 2)
MCThrottle == (root :> 1) @@ (seq :> 0) @@ (thr :> 2)
MCSequential == {seq}
MCSeq == [j \in 1..3 |-> j]

MCAttrs ==
  { [channel |-> seq,  priority |-> 1, eta |-> 0],
    [channel |-> seq,  priority |-> 1, eta |-> 3],
    [channel |-> thr,  priority |-> 2, eta |-> 0],
    [channel |-> root, priority |-> 1, eta |-> 2] }

\* Three jobs of the sequential channel, the most urgent of which comes last.
MCAttrsSequential ==
  { [channel |-> seq, priority |-> 1, eta |-> 3],
    [channel |-> seq, priority |-> 2, eta |-> 0],
    [channel |-> seq, priority |-> 3, eta |-> 2] }
=============================================================================
