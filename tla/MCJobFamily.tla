---------------------------- MODULE MCJobFamily ----------------------------
(* Three delayables, two with identity keys, and a cron with one of these keys. *)
EXTENDS JobFamily

CONSTANTS ja, jb, jc, ga, gb, cx, caller, ka, kb, none

MCLeaf == {ja, jb, jc}
MCComposite == {ga, gb}
MCCron == {cx}
MCKey == (ja :> ka) @@ (jb :> kb) @@ (jc :> none) @@ (cx :> ka)
Symmetry == Permutations(MCComposite)
=============================================================================
