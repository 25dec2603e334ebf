---------------------------- MODULE MCTunnelRelay ----------------------------
(* TunnelRelay in small settings.                                          *)
EXTENDS TunnelRelay

Setting(first, second, asks, reply, cap, cuts, refusals, evicts, stays) ==
    [kind |-> <<first, second>>, asks |-> <<asks, 1>>, reply |-> reply, cap |-> cap, cuts |-> cuts,
     refusals |-> refusals, evicts |-> evicts, stays |-> stays]

\* A lost connection and a refused dial; a full relay; an eviction; the HTTP
\* proxy alone with a lost connection; a client that may leave beside one of
\* each kind that stays; two that stay and fill each other's way.
SmallWorlds == {Setting("tcp", "off", 1, 2, 0, 1, 1, FALSE, {}), Setting("tcp", "off", 2, 1, 1, 1, 0, FALSE, {}),
                Setting("tcp", "off", 1, 1, 0, 0, 0, TRUE, {}), Setting("http", "off", 1, 2, 0, 1, 0, FALSE, {}),
                Setting("tcp", "http", 1, 1, 0, 0, 0, FALSE, {2}), Setting("tcp", "tcp", 1, 2, 0, 0, 0, FALSE, {2}),
                Setting("tcp", "tcp", 2, 2, 0, 0, 0, FALSE, {1, 2})}

\* An agent without sessions, for EvictedComesBack.
EvictingWorld == {Setting("off", "off", 1, 1, 0, 0, 0, TRUE, {})}
=============================================================================
