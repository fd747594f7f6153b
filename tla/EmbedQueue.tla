----------------------------- MODULE EmbedQueue -----------------------------
(***************************************************************************)
(* The embed queue of one webhook: bot.queue, the time.AfterFunc callbacks *)
(* it arms and bot.queueInner.  Every log handler runs in a goroutine of   *)
(* its own and calls bot.queue with one embed, so a caller is named by its *)
(* embed; a callback is named by the embed whose append armed it.          *)
(*                                                                         *)
(* q.mu guards the slice and the timer.  Code that runs under it without   *)
(* leaving the process is one step; posting to Discord is a step of its    *)
(* own.  An overflowing caller posts with q.mu held, a callback posts      *)
(* after releasing it.                                                     *)
(***************************************************************************)
EXTENDS Naturals, Sequences, SequencesExt

CONSTANTS
    Embeds,     \* the embeds (and the goroutines) that reach this webhook
    Length,     \* Length[e]: discord.Embed.Length
    MaxEmbeds,  \* embeds that fill the queue (5 in the code)
    MaxLength,  \* characters that fill the queue (6000 in the code)
    NoTimer     \* the nil timer

ASSUME EmbedQueueAssumption ==
    /\ MaxEmbeds \in Nat \ {0}
    /\ MaxLength \in Nat
    /\ Length \in [Embeds -> Nat]
    /\ NoTimer \notin Embeds

VARIABLES
    up,         \* the process is running
    call,       \* call[e]: progress of bot.queue(e)
    queue,      \* q.queue
    timer,      \* q.timer
    callback,   \* callback[e]: the AfterFunc goroutine that e's append armed
    batch,      \* batch[e]: the local `embeds' of caller or callback e
    outcome     \* outcome[e]: how the post that carried e ended

vars == <<up, call, queue, timer, callback, batch, outcome>>

-----------------------------------------------------------------------------
CallState     == {"idle", "flushing", "returned"}
CallbackState == {"unarmed", "armed", "fired", "sending", "ended"}
Outcome       == {"none", "delivered", "failed"}

TypeOK ==
    /\ up \in BOOLEAN
    /\ call \in [Embeds -> CallState]
    /\ queue \in Seq(Embeds)
    /\ timer \in Embeds \cup {NoTimer}
    /\ callback \in [Embeds -> CallbackState]
    /\ batch \in [Embeds -> Seq(Embeds)]
    /\ outcome \in [Embeds -> Outcome]

In(e, s) == \E i \in 1..Len(s) : s[i] = e

\* A caller keeps q.mu while it posts an overflowing queue.
Locked == \E e \in Embeds : call[e] = "flushing"

totalLength(s) == FoldLeft(LAMBDA sum, e : sum + Length[e], 0, s)

\* Slips in the check that fills the queue.
OverflowsLate(e) ==
    \/ totalLength(queue) + Length[e] >= MaxLength
    \/ Len(queue) > MaxEmbeds

OverflowsWithoutNewEmbed(e) ==
    \/ totalLength(queue) >= MaxLength
    \/ Len(queue) >= MaxEmbeds

Overflows(e) ==
    \/ totalLength(queue) + Length[e] >= MaxLength
    \/ Len(queue) >= MaxEmbeds

\* Discord refuses a message without embeds or with too many characters.
Postable(s) == s # <<>> /\ totalLength(s) <= MaxLength

-----------------------------------------------------------------------------
Init ==
    /\ up = TRUE
    /\ call = [e \in Embeds |-> "idle"]
    /\ queue = <<>>
    /\ timer = NoTimer
    /\ callback = [e \in Embeds |-> "unarmed"]
    /\ batch = [e \in Embeds |-> <<>>]
    /\ outcome = [e \in Embeds |-> "none"]

\* The end of bot.queue: append, arm a timer if there is none, unlock.
AppendAndArm(e, pending) ==
    /\ call' = [call EXCEPT ![e] = "returned"]
    /\ queue' = Append(pending, e)
    /\ IF timer = NoTimer
       THEN /\ timer' = e
            /\ callback' = [callback EXCEPT ![e] = "armed"]
       ELSE UNCHANGED <<timer, callback>>

\* queueInner: the post succeeds or fails as a whole; an error is only logged.
Post(s) ==
    \E result \in {"delivered", "failed"} :
        /\ result = "delivered" => Postable(s)
        /\ outcome' = [e \in Embeds |-> IF In(e, s) THEN result ELSE outcome[e]]

\* Slip: bot.queue appends without q.mu.
EnqueueWithoutLock(e) ==
    /\ up
    /\ call[e] = "idle"
    /\ ~Overflows(e)
    /\ AppendAndArm(e, queue)
    /\ UNCHANGED <<up, batch, outcome>>

\* bot.queue when the embed fits.
Enqueue(e) ==
    /\ up
    /\ call[e] = "idle"
    /\ ~Locked
    /\ ~Overflows(e)
    /\ AppendAndArm(e, queue)
    /\ UNCHANGED <<up, batch, outcome>>

\* Slip: the timer is stopped and stays in q.timer.
OverflowKeepsTimer(e) ==
    /\ up
    /\ call[e] = "idle"
    /\ ~Locked
    /\ Overflows(e)
    /\ call' = [call EXCEPT ![e] = "flushing"]
    /\ batch' = [batch EXCEPT ![e] = queue]
    /\ queue' = <<>>
    /\ callback' = [c \in Embeds |->
                      IF c = timer /\ callback[c] = "armed" THEN "ended" ELSE callback[c]]
    /\ UNCHANGED <<up, timer, outcome>>

\* bot.queue when it does not: take the queue, stop the timer (a callback that
\* has already fired is not stopped by it) and start posting under the lock.
Overflow(e) ==
    /\ up
    /\ call[e] = "idle"
    /\ ~Locked
    /\ Overflows(e)
    /\ call' = [call EXCEPT ![e] = "flushing"]
    /\ batch' = [batch EXCEPT ![e] = queue]
    /\ queue' = <<>>
    /\ timer' = NoTimer
    /\ callback' = [c \in Embeds |->
                      IF c = timer /\ callback[c] = "armed" THEN "ended" ELSE callback[c]]
    /\ UNCHANGED <<up, outcome>>

\* The overflowing caller's post returns and its own embed starts a new batch.
FlushReturns(e) ==
    /\ up
    /\ call[e] = "flushing"
    /\ Post(batch[e])
    /\ batch' = [batch EXCEPT ![e] = <<>>]
    /\ AppendAndArm(e, queue)
    /\ UNCHANGED up

\* Five seconds have passed: the callback's goroutine starts.
TimerFires(e) ==
    /\ up
    /\ callback[e] = "armed"
    /\ callback' = [callback EXCEPT ![e] = "fired"]
    /\ UNCHANGED <<up, call, queue, timer, batch, outcome>>

\* Slips: the callback leaves its own timer, or the embeds, in the queue.
CollectKeepsTimer(e) ==
    /\ up
    /\ callback[e] = "fired"
    /\ ~Locked
    /\ queue' = <<>>
    /\ batch' = [batch EXCEPT ![e] = queue]
    /\ callback' = [callback EXCEPT ![e] = IF queue = <<>> THEN "ended" ELSE "sending"]
    /\ UNCHANGED <<up, call, timer, outcome>>

CollectKeepsQueue(e) ==
    /\ up
    /\ callback[e] = "fired"
    /\ ~Locked
    /\ timer' = NoTimer
    /\ batch' = [batch EXCEPT ![e] = queue]
    /\ callback' = [callback EXCEPT ![e] = IF queue = <<>> THEN "ended" ELSE "sending"]
    /\ UNCHANGED <<up, call, queue, outcome>>

\* The callback gets q.mu, forgets whatever timer is set, takes the queue.
Collect(e) ==
    /\ up
    /\ callback[e] = "fired"
    /\ ~Locked
    /\ timer' = NoTimer
    /\ queue' = <<>>
    /\ batch' = [batch EXCEPT ![e] = queue]
    /\ callback' = [callback EXCEPT ![e] = IF queue = <<>> THEN "ended" ELSE "sending"]
    /\ UNCHANGED <<up, call, outcome>>

\* Slip: a failed batch is posted again although it was given up.
CallbackRetries(e) ==
    /\ up
    /\ callback[e] = "sending"
    /\ Post(batch[e])
    /\ UNCHANGED <<up, call, queue, timer, batch, callback>>

\* The callback's post returns; q.mu is not held.
CallbackReturns(e) ==
    /\ up
    /\ callback[e] = "sending"
    /\ Post(batch[e])
    /\ batch' = [batch EXCEPT ![e] = <<>>]
    /\ callback' = [callback EXCEPT ![e] = "ended"]
    /\ UNCHANGED <<up, call, queue, timer>>

\* An interrupt ends the process; nothing drains the queues.
Shutdown ==
    /\ up
    /\ up' = FALSE
    /\ UNCHANGED <<call, queue, timer, callback, batch, outcome>>

Next ==
    \/ \E e \in Embeds :
          \/ Enqueue(e) \/ Overflow(e) \/ FlushReturns(e)
          \/ TimerFires(e) \/ Collect(e) \/ CallbackReturns(e)
    \/ Shutdown

\* Timers fire, HTTP calls return (the client has a timeout), and a goroutine
\* that waits for q.mu gets it when it stays free.
Fairness ==
    \A e \in Embeds :
        /\ WF_vars(FlushReturns(e))
        /\ WF_vars(TimerFires(e))
        /\ WF_vars(Collect(e))
        /\ WF_vars(CallbackReturns(e))

Spec == Init /\ [][Next]_vars /\ Fairness

-----------------------------------------------------------------------------
NoDuplicates(s) == \A i, j \in 1..Len(s) : s[i] = s[j] => i = j

\* e waits in the slice or in the local variable of a caller or a callback.
Held(e) == In(e, queue) \/ \E p \in Embeds : In(e, batch[p])

\* bot.queue and its callbacks move embeds between the slice and their locals
\* (queue.go:147-148, 160, 166-167).  Whatever the interleaving, an embed that
\* bot.queue has taken is held until its post has ended and not after it, in
\* exactly one place: none is forgotten, none is about to be posted twice.
HeldOnceUntilPosted ==
    /\ \A e \in Embeds : Held(e) <=> call[e] = "returned" /\ outcome[e] = "none"
    /\ NoDuplicates(queue)
    /\ \A p \in Embeds : NoDuplicates(batch[p])
    /\ \A p, e \in Embeds :
          In(e, batch[p]) => /\ ~In(e, queue)
                             /\ \A q \in Embeds : In(e, batch[q]) => p = q

\* A caller that posts under q.mu is alone with an empty slice and no timer
\* until it appends its own embed; an embed sits in a local variable only while
\* a caller or a callback posts it; callbacks and outcomes are only of embeds
\* that have been appended.
LockDiscipline ==
    /\ \A e \in Embeds :
          call[e] = "flushing" =>
              /\ queue = <<>>
              /\ timer = NoTimer
              /\ \A d \in Embeds : call[d] = "flushing" => d = e
    /\ \A p \in Embeds :
          batch[p] # <<>> => call[p] = "flushing" \/ callback[p] = "sending"
    /\ \A e \in Embeds :
          callback[e] # "unarmed" \/ outcome[e] # "none" => call[e] = "returned"

\* The check under the lock (queue.go:146) bounds what one post carries.
BatchesBounded ==
    /\ Len(queue) <= MaxEmbeds
    /\ \A p \in Embeds : Len(batch[p]) <= MaxEmbeds

\* A callback clears q.timer even when the timer stored there is a later one
\* (queue.go:165), and an overflow stops a timer whose callback may already be
\* waiting for the lock (queue.go:151).  Still a timer in q.timer is one whose
\* callback has yet to take the slice, and no embed waits there without one.
QueuedMeansTimerPending ==
    /\ queue # <<>> => timer # NoTimer
    /\ timer # NoTimer => callback[timer] \in {"armed", "fired"}

\* The length check keeps a post acceptable for Discord.  Only an embed that
\* is too long on its own makes a post that is refused: its own, or the empty
\* post of the caller that brings it to an empty queue (queue.go:146-155).
OnlyOversizeEmbedsRefused ==
    \A p \in Embeds :
        call[p] = "flushing" \/ callback[p] = "sending" =>
            \/ Postable(batch[p])
            \/ batch[p] = <<>> /\ Length[p] >= MaxLength
            \/ Len(batch[p]) = 1 /\ Length[batch[p][1]] > MaxLength

\* What the length check leaves in the slice and in the locals: two embeds or more
\* have passed it; a caller that found the slice empty has an embed that fills a
\* message on its own.
LengthsChecked ==
    /\ Len(queue) > 1 => totalLength(queue) <= MaxLength
    /\ \A p \in Embeds :
          /\ Len(batch[p]) > 1 => totalLength(batch[p]) <= MaxLength
          /\ callback[p] = "sending" => batch[p] # <<>>
          /\ call[p] = "flushing" /\ batch[p] = <<>> => Length[p] >= MaxLength

\* The inductive invariant: each part needs the others.
IInv ==
    /\ TypeOK
    /\ LockDiscipline
    /\ HeldOnceUntilPosted
    /\ BatchesBounded
    /\ QueuedMeansTimerPending
    /\ LengthsChecked

\* While the process runs, every embed bot.queue has taken is posted: a timer
\* is never lost, whatever other callers and callbacks do to it.
EventuallyPosted ==
    \A e \in Embeds : call[e] = "returned" ~> outcome[e] # "none" \/ ~up

\* What the handlers may rely on.  An embed counts as accepted as soon as its
\* caller has the lock.
Resolution == [delivered |-> "delivered", failed |-> "dropped"]

Status(e) ==
    IF outcome[e] # "none" THEN Resolution[outcome[e]]
    ELSE IF call[e] = "idle" THEN "new" ELSE "accepted"

LD == INSTANCE LogDelivery WITH
        running <- up,
        status  <- [e \in Embeds |-> Status(e)]

\* The queue of a webhook implements the promise of module LogDelivery: whole
\* batches of at most MaxEmbeds accepted embeds, each posted at most once, and
\* at some time unless the process is stopped first.
ImplementsLogDelivery == LD!Spec
=============================================================================
