---------------------------- MODULE MCDelayables ----------------------------
(* Instances of Delayables: up to four delayables in two chains or groups. *)
EXTENDS Delayables

CONSTANTS ja, jb, jc, jd, ga, gb

MCLeaf == {ja, jb, jc, jd}
MCComposite == {ga, gb}
Symmetry == Permutations(MCLeaf) \cup Permutations(MCComposite)
=============================================================================
