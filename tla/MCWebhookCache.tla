--------------------------- MODULE MCWebhookCache ---------------------------
(***************************************************************************)
(* Calls for one log channel, in which another bot has a webhook, one call *)
(* for a channel without any and one for an event that is not logged.      *)
(***************************************************************************)
EXTENDS WebhookCache, TLC

CONSTANTS other, unset

MCTarget  == [s \in Sends |-> CASE s = other -> "audit"
                                [] s = unset -> NoChannel
                                [] OTHER     -> "messages"]
MCGiven   == Sends \ {other, unset}
MCForeign == [c \in Channels |-> IF c = "messages" THEN <<"foreign">> ELSE <<>>]
SameSends == Permutations(MCGiven)
=============================================================================
