---------------------------- MODULE MCGuildFetch ----------------------------
(***************************************************************************)
(* One or two guilds with two chunks of members, one fetch or two that     *)
(* overlap, and some faults.                                               *)
(***************************************************************************)
EXTENDS GuildFetch

CONSTANTS g1, g2, w1, w2

Setting(guilds, workers, kinds) ==
    [guilds |-> guilds, workers |-> workers,
     maxFaults |-> [k \in FaultKinds |-> IF k \in kinds THEN 1 ELSE 0]]

MCSettings ==
    {Setting({g1, g2}, {w1}, {"send", "reconnect"}),
     Setting({g1}, {w1, w2}, FaultKinds)}

FailingList == {Setting({g1, g2}, {w1, w2}, {"rest"})}
=============================================================================
