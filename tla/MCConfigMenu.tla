---------------------------- MODULE MCConfigMenu ----------------------------
(***************************************************************************)
(* Sessions of /config channels for two kinds of event, one of them        *)
(* logged, or in a guild that has no row yet.                              *)
(***************************************************************************)
EXTENDS ConfigMenu, TLC

CONSTANTS e1, e2, c1, c2

Old == [e \in Events |-> IF e = e1 THEN c1 ELSE Unset]

Setting(row, presses, guildCreates) ==
    [config |-> row, presses |-> presses, creates |-> guildCreates]

\* Two sessions.
MCSettings == {Setting(Old, 1, 0)}

\* One session: with many presses, with a GUILD_CREATE beside it, or with many of
\* these and no press.
MCSessionSettings ==
    {Setting(Old, 2, 0), Setting(Old, 1, 1), Setting(NoRow, 1, 1),
     Setting(Old, 0, 3), Setting(NoRow, 0, 3)}

\* For the run with two sessions, which checks invariants only.
MCSymmetry == Permutations(Sessions)
=============================================================================
