---------------------------- MODULE MCEmbedQueue ----------------------------
(***************************************************************************)
(* A webhook queue that two embeds fill, or eight characters: two short    *)
(* embeds, one of medium length and one that alone fills the queue.        *)
(***************************************************************************)
EXTENDS EmbedQueue

MCEmbeds == {"short1", "short2", "medium", "full"}

MCLength ==
    [e \in MCEmbeds |-> CASE e = "medium"   -> 5
                          [] e = "full"     -> 8
                          [] OTHER          -> 1]
=============================================================================
