---------------------------- MODULE LogDelivery ----------------------------
(***************************************************************************)
(* What a webhook's embed queue promises to the handlers that log through  *)
(* it, without its lock, its timers or its slice: an embed handed over is  *)
(* posted in one batch together with at most MaxEmbeds - 1 others, the     *)
(* whole batch succeeds or fails, and nothing is posted twice.  Only       *)
(* stopping the process may leave an accepted embed unposted.              *)
(***************************************************************************)
EXTENDS Naturals, FiniteSets

CONSTANTS
    Embeds,     \* the embeds that handlers log
    MaxEmbeds   \* the most embeds one post carries

VARIABLES
    running,    \* the process has not been stopped
    status      \* what has become of each embed

vars == <<running, status>>

Status == {"new", "accepted", "delivered", "dropped"}

TypeOK ==
    /\ running \in BOOLEAN
    /\ status \in [Embeds -> Status]

Init ==
    /\ running = TRUE
    /\ status = [e \in Embeds |-> "new"]

\* A handler hands an embed over.
Accept(e) ==
    /\ running
    /\ status[e] = "new"
    /\ status' = [status EXCEPT ![e] = "accepted"]
    /\ UNCHANGED running

\* One post: every embed of the batch is delivered, or every one is dropped.
Post(batch) ==
    /\ running
    /\ batch # {}
    /\ Cardinality(batch) <= MaxEmbeds
    /\ \A e \in batch : status[e] = "accepted"
    /\ \E result \in {"delivered", "dropped"} :
          status' = [e \in Embeds |-> IF e \in batch THEN result ELSE status[e]]
    /\ UNCHANGED running

Stop ==
    /\ running
    /\ running' = FALSE
    /\ UNCHANGED status

Next ==
    \/ \E e \in Embeds : Accept(e)
    \/ \E batch \in SUBSET Embeds : Post(batch)
    \/ Stop

PostIncluding(e) == \E batch \in SUBSET Embeds : e \in batch /\ Post(batch)

Spec ==
    /\ Init
    /\ [][Next]_vars
    /\ \A e \in Embeds : WF_vars(PostIncluding(e))
=============================================================================
