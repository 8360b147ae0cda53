--------------------------- MODULE MCP2PeerRouting ---------------------------
(* A tree of four hubs, a hub beside its root, and a network mounted below. *)
EXTENDS P2PeerRouting

At(hops) == [i \in DOMAIN hops |-> <<Dot, hops[i]>>]
R   == At(<<"R">>)
RA  == At(<<"R", "A">>)
RAx == At(<<"R", "A", "x">>)
RB  == At(<<"R", "B">>)
Q   == At(<<"Q">>)
V   == At(<<"V">>)
Ghost == At(<<"R", "A", "ghost">>)

MCHubs == {R, RA, RAx, RB, Q, V}
Link(d, a, m, n) == [dials |-> d, accepts |-> a, mount |-> m, nth |-> n]
MCLinks ==
    {Link(RA, R, FALSE, 1), Link(RA, R, FALSE, 2), Link(RB, R, FALSE, 1),
     Link(RAx, RA, FALSE, 1), Link(Q, R, FALSE, 1), Link(V, RB, TRUE, 1)}
MCUp == {l \in MCLinks : l.nth = 1}

Letter(k, s, d) == [kind |-> k, src |-> s, dst |-> d]
MCClosed == {Letter("App", RA, VNetWireSrc(RB, V))}
MCMail ==
    {Letter("App", RAx, RB), Letter("App", RAx, Q), Letter("App", Q, Ghost),
     Letter("App", RB, Ghost), Letter("App", RAx, VNetWireSrc(RB, V)),
     Letter("App", RAx, VNetWireSrc(RB, Ghost)), Letter("App", V, VNetWireSrc(V, RA)),
     Letter("App", RAx, VNetWireSrc(RA, V)),
     Letter("Ask", RAx, VNetWireSrc(RB, V)), Letter("Ask", V, VNetWireSrc(V, RAx)),
     Letter("Ask", RA, Q), Letter("Ask", RAx, RB),
     Letter("BCast", RAx, R), Letter("BCast", Q, R), Letter("UCast", RAx, RAx)} \cup MCClosed
MCMute == {RA}

\* The four hubs are linked as a tree; a mount carries no casts.
ASSUME TreeAssumption == Tree
=============================================================================
