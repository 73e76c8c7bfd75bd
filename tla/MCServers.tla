----------------------------- MODULE MCServers -----------------------------
(* Two servers that list the same two databases in different orders. *)
EXTENDS Servers

CONSTANTS sa, sb, ja, jb, base, sub, leaf

MCPart == {base, sub, leaf}
MCServer == {sa, sb}
MCPrefork == {sa}
MCDbNames == (sa :> <<1, 3, 2>>) @@ (sb :> <<2, 1, 3>>)
MCInstalled == {1, 2}
MCJob == {ja, jb}
MCDbOf == (ja :> 1) @@ (jb :> 2)
MCChannelOf == (ja :> <<sub, leaf>>) @@ (jb :> <<base, sub>>)

Entry(n, c, k, t) == [name |-> n, capacity |-> c, keys |-> k, tight |-> t]
MCTexts ==
  { <<Entry(<<sub>>, Unlimited, <<>>, TRUE), Entry(<<base>>, 0, <<>>, FALSE)>>,
    <<Entry(<<sub>>, 2, <<"sequential">>, TRUE)>>,
    <<Entry(<<base>>, 0, <<>>, TRUE)>> }
=============================================================================
