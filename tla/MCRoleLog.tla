----------------------------- MODULE MCRoleLog -----------------------------
(***************************************************************************)
(* A role that exists at the start and one that may be created.  A role is *)
(* red, or blue and in one of two positions.                               *)
(***************************************************************************)
EXTENDS RoleLog

MCRole  == {"red", "blue", "bluemoved"}
MCShown == [f \in MCRole |-> IF f = "red" THEN "red" ELSE "blue"]

\* The boundaries between the units, and what is around them.
MCAges ==
    LET boundaries == {0, Second, Minute, Hour, Day, Month - Hour, Month, 2 * Month, 12 * Month,
                       Year - Minute, Year, Year + Hour, Year + Month, Year + 12 * Month, 2 * Year}
    IN  UNION {{b - 1, b, b + 1, -b - 1} : b \in boundaries}
=============================================================================
