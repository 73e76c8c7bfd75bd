----------------------------- MODULE MCGateway -----------------------------
(* Two processes, two partners and two numbers.  Both messages come from ta, one *)
(* of them is silent; at first one, both or neither of the partners has it.       *)
EXTENDS Gateway, TLC

CONSTANTS pa, pb, xa, xb, ta, tb, ma, mb, nobody

MCProcess == {pa, pb}
MCPartner == {xa, xb}
MCToken == {ta, tb}
MCMessage == {ma, mb}
MCFrom == (ma :> ta) @@ (mb :> ta)
MCFirstNumbers ==
  {(xa :> ta) @@ (xb :> t) : t \in {ta, tb, nobody}} \cup {(xa :> nobody) @@ (xb :> nobody)}
=============================================================================
