---------------------------- MODULE WebhookCache ----------------------------
(***************************************************************************)
(* bot.Send for the log handlers of a few log channels: it finds the       *)
(* channel, then the channel's webhook (getWebhook), and queues or posts   *)
(* the embeds.  Redis remembers one webhook for each channel.  No lock is  *)
(* held between a miss in Redis, the list of the channel's webhooks and    *)
(* the creation of a new one, and a webhook can be deleted on Discord by   *)
(* whoever manages the channel.  Until shard 0 is ready the bot does not   *)
(* know its own user, and takes no webhook for its own.                    *)
(*                                                                         *)
(* A webhook the bot creates is named by the call that created it.  What   *)
(* becomes of an embed between bot.queue and its post is module            *)
(* EmbedQueue's matter: here the post follows some time later.             *)
(***************************************************************************)
EXTENDS Naturals, Sequences, FiniteSets, SequencesExt

CONSTANTS
    Sends,        \* calls of bot.Send
    Channels,     \* log channels
    Target,       \* Target[s]: the channel that s logs to, or NoChannel
    Given,        \* calls whose handler passes the channel (SendData.ChannelID)
    Foreign,      \* Foreign[c]: the webhooks others have made in c
    NoChannel,
    NoHook,
    MaxOverlap,   \* bounds the calls under way at once
    MaxFaults,    \* bounds the failures of Redis, PostgreSQL and Discord
    MaxDeletions, \* bounds the webhooks deleted on Discord
    MaxRestarts   \* bounds the restarts of the bot

ForeignHooks == UNION {ToSet(Foreign[c]) : c \in Channels}
Hooks == Sends \cup ForeignHooks

ASSUME WebhookCacheAssumption ==
    /\ Target \in [Sends -> Channels \cup {NoChannel}]
    /\ NoChannel \notin Channels
    /\ Channels \cap {"none", "dropped", "lost"} = {}
    /\ Given \subseteq {s \in Sends : Target[s] # NoChannel}
    /\ Foreign \in [Channels -> Seq(ForeignHooks)]
    /\ ForeignHooks \cap Sends = {}
    /\ NoHook \notin Hooks
    /\ MaxOverlap \in Nat /\ MaxFaults \in Nat /\ MaxDeletions \in Nat /\ MaxRestarts \in Nat

VARIABLES
    step,       \* step[s]: progress of call s
    hook,       \* hook[s]: the webhook call s has found
    outcome,    \* outcome[s]: the channel that s's embeds reached, or why not
    webhooks,   \* webhooks[c]: Discord's list of the webhooks of c
    stored,     \* Redis: stored[c] is the value of "webhook:c"
    ready,      \* bot.user is set, by shard 0's Ready
    early,      \* calls that began before it was
    faults, deletions, restarts

counters == <<faults, deletions, restarts>>
world == <<webhooks, stored, ready, early, counters>>
vars == <<step, hook, outcome, world>>

-----------------------------------------------------------------------------
Step == {"idle", "resolving", "looking", "listing", "creating", "storing", "posting", "done"}

TypeOK ==
    /\ step \in [Sends -> Step]
    /\ hook \in [Sends -> Hooks \cup {NoHook}]
    /\ outcome \in [Sends -> Channels \cup {"none", "dropped", "lost"}]
    /\ webhooks \in [Channels -> Seq(Hooks)]
    /\ stored \in [Channels -> Hooks \cup {NoHook}]
    /\ ready \in BOOLEAN
    /\ early \subseteq Sends
    /\ faults \in 0..MaxFaults
    /\ deletions \in 0..MaxDeletions
    /\ restarts \in 0..MaxRestarts
    /\ \A s \in Sends : step[s] \in {"storing", "posting"} <=> hook[s] # NoHook

Underway == {s \in Sends : step[s] \notin {"idle", "done"}}

\* The webhooks of a list that belong to the bot.
Own(list) == ToSet(list) \cap Sends

\* The calls about to create a webhook in c.
Creating(c) == {s \in Sends : step[s] = "creating" /\ Target[s] = c}

\* Slips: the webhook's user is not checked; or only the first one's is.
FirstOfAny(list) == IF list # <<>> THEN Head(list) ELSE NoHook
FirstIfOwn(list) == IF ready /\ list # <<>> /\ Head(list) \in Sends THEN Head(list) ELSE NoHook

\* The first webhook of a list whose user is bot.user.
FirstOwn(list) ==
    LET own == {i \in DOMAIN list : list[i] \in Sends}
    IN  IF ready /\ own # {}
        THEN list[CHOOSE i \in own : \A j \in own : i <= j]
        ELSE NoHook

Init ==
    /\ step = [s \in Sends |-> "idle"]
    /\ hook = [s \in Sends |-> NoHook]
    /\ outcome = [s \in Sends |-> "none"]
    /\ webhooks = Foreign
    /\ stored = [c \in Channels |-> NoHook]
    /\ ready = FALSE
    /\ early = {}
    /\ faults = 0 /\ deletions = 0 /\ restarts = 0

Fault ==
    /\ faults < MaxFaults
    /\ faults' = faults + 1
    /\ UNCHANGED <<deletions, restarts>>

\* Call s ends before it has a webhook; the error is only logged.
Drop(s) ==
    /\ step' = [step EXCEPT ![s] = "done"]
    /\ outcome' = [outcome EXCEPT ![s] = "dropped"]
    /\ UNCHANGED hook

Go(s, next) == step' = [step EXCEPT ![s] = next]

-----------------------------------------------------------------------------
\* A handler calls Send with at least one embed.
Call(s) ==
    /\ step[s] = "idle"
    /\ Cardinality(Underway) < MaxOverlap
    /\ Go(s, IF s \in Given THEN "looking" ELSE "resolving")
    /\ early' = IF ready THEN early ELSE early \cup {s}
    /\ UNCHANGED <<hook, outcome, webhooks, stored, ready, counters>>

\* The channel is looked up by the event's name; it may not be set.
Resolve(s) ==
    /\ step[s] = "resolving"
    /\ Target[s] # NoChannel
    /\ Go(s, "looking")
    /\ UNCHANGED <<hook, outcome, world>>

\* No channel is set for the event, or the query fails and leaves none.
ResolvesNothing(s) ==
    /\ step[s] = "resolving"
    /\ IF Target[s] = NoChannel THEN UNCHANGED counters ELSE Fault
    /\ Drop(s)
    /\ UNCHANGED <<webhooks, stored, ready, early>>

\* fetchCachedWebhookKey.  What was stored is returned unchecked (a value that
\* cannot be parsed is deleted, but none is ever stored).
FindCached(s) ==
    /\ step[s] = "looking"
    /\ stored[Target[s]] # NoHook
    /\ hook' = [hook EXCEPT ![s] = stored[Target[s]]]
    /\ Go(s, "posting")
    /\ UNCHANGED <<outcome, world>>

\* Any error counts as a miss.
FindNothing(s) ==
    /\ step[s] = "looking"
    /\ IF stored[Target[s]] = NoHook THEN UNCHANGED counters ELSE Fault
    /\ Go(s, "listing")
    /\ UNCHANGED <<hook, outcome, webhooks, stored, ready, early>>

\* ChannelWebhooks: take the first of the bot's own, if there is one.
List(s) ==
    /\ step[s] = "listing"
    /\ LET own == FirstOwn(webhooks[Target[s]])
       IN  IF own # NoHook
           THEN hook' = [hook EXCEPT ![s] = own] /\ Go(s, "storing")
           ELSE UNCHANGED hook /\ Go(s, "creating")
    /\ UNCHANGED <<outcome, world>>

\* Slip: the new webhook is assigned to a variable of an inner scope.
CreateShadowsHook(s) ==
    /\ step[s] = "creating"
    /\ ready
    /\ webhooks' = [webhooks EXCEPT ![Target[s]] = Append(@, s)]
    /\ Go(s, "storing")
    /\ UNCHANGED <<hook, outcome, stored, ready, early, counters>>

Create(s) ==
    /\ step[s] = "creating"
    /\ ready
    /\ webhooks' = [webhooks EXCEPT ![Target[s]] = Append(@, s)]
    /\ hook' = [hook EXCEPT ![s] = s]
    /\ Go(s, "storing")
    /\ UNCHANGED <<outcome, stored, ready, early, counters>>

\* A webhook needs a name, and the unknown user has none: Discord refuses.
CreateRefused(s) ==
    /\ step[s] = "creating"
    /\ ~ready
    /\ Drop(s)
    /\ UNCHANGED world

\* Either request fails: getWebhook returns the error.
RequestFails(s) ==
    /\ step[s] \in {"listing", "creating"}
    /\ Fault
    /\ Drop(s)
    /\ UNCHANGED <<webhooks, stored, ready, early>>

\* storeWebhook; a failure is only logged.
Store(s) ==
    /\ step[s] = "storing"
    /\ \/ stored' = [stored EXCEPT ![Target[s]] = hook[s]] /\ UNCHANGED counters
       \/ Fault /\ UNCHANGED stored
    /\ Go(s, "posting")
    /\ UNCHANGED <<hook, outcome, webhooks, ready, early>>

\* The webhook is executed, at once or by its queue.  Discord posts in the
\* webhook's channel if it exists and is the bot's.
Post(s) ==
    /\ step[s] = "posting"
    /\ \/ /\ UNCHANGED counters
          /\ outcome' = [outcome EXCEPT ![s] =
                IF \E c \in Channels : hook[s] \in Own(webhooks[c])
                THEN CHOOSE c \in Channels : hook[s] \in Own(webhooks[c])
                ELSE "lost"]
       \/ Fault /\ outcome' = [outcome EXCEPT ![s] = "lost"]
    /\ Go(s, "done")
    /\ hook' = [hook EXCEPT ![s] = NoHook]
    /\ UNCHANGED <<webhooks, stored, ready, early>>

-----------------------------------------------------------------------------
\* bot.ready.
Ready ==
    /\ ~ready
    /\ ready' = TRUE
    /\ UNCHANGED <<step, hook, outcome, webhooks, stored, early, counters>>

\* Someone deletes a webhook on Discord; the bot is not told which.
DeleteHook(c) ==
    /\ deletions < MaxDeletions
    /\ deletions' = deletions + 1
    /\ \E i \in DOMAIN webhooks[c] : webhooks' = [webhooks EXCEPT ![c] = RemoveAt(@, i)]
    /\ UNCHANGED <<step, hook, outcome, stored, ready, early, faults, restarts>>

\* The process is replaced; Redis and Discord keep what they have.
Restart ==
    /\ restarts < MaxRestarts
    /\ restarts' = restarts + 1
    /\ ready' = FALSE
    /\ step' = [s \in Sends |-> IF s \in Underway THEN "done" ELSE step[s]]
    /\ outcome' = [s \in Sends |-> IF s \in Underway THEN "lost" ELSE outcome[s]]
    /\ hook' = [s \in Sends |-> NoHook]
    /\ UNCHANGED <<webhooks, stored, early, faults, deletions>>

Next ==
    \/ \E s \in Sends :
          \/ Call(s) \/ Resolve(s) \/ ResolvesNothing(s)
          \/ FindCached(s) \/ FindNothing(s)
          \/ List(s) \/ Create(s) \/ CreateRefused(s) \/ RequestFails(s)
          \/ Store(s) \/ Post(s)
    \/ \E c \in Channels : DeleteHook(c)
    \/ Ready \/ Restart

Spec == Init /\ [][Next]_vars

-----------------------------------------------------------------------------
\* The cache is keyed by channel and shared by calls that create, list and
\* store webhooks at the same time (webhooks.go:60-116).  Embeds that arrive
\* arrive in the channel they are meant for.
ArrivesAsMeant(s) == outcome[s] \in Channels => outcome[s] = Target[s]

\* And they do arrive: as long as nobody deletes a webhook, no request fails and
\* the process runs, each call with a channel that begins when the bot knows its
\* user is delivered.  Whatever webhook the race of calls leaves in Redis is one
\* the bot can use.  (A deleted webhook, in contrast, stays in Redis: no failing
\* post removes it.)
LostOnlyByFaults ==
    \A s \in Sends :
        /\ ArrivesAsMeant(s)
        /\ faults + deletions + restarts = 0 /\ s \notin early /\ step[s] = "done" =>
              outcome[s] = Target[s] \/ Target[s] = NoChannel

\* Calls that miss the cache together, and calls that list before the bot knows
\* its user, each create a webhook.  A channel still never gets more of them in
\* one life of the process than calls overlap, however often Redis fails,
\* webhooks are deleted or the bot stops between a creation and its storing.
\* With the calls that are about to create one, the sum is inductive: a call
\* goes on to create when it sees no webhook, or in the time before Ready.
HooksBounded ==
    \A c \in Channels :
        Cardinality(Own(webhooks[c])) + Cardinality(Creating(c)) <= MaxOverlap * (restarts + 1)

\* No more calls are under way than may be; until Ready none of this life has
\* created a webhook.
OverlapBounded ==
    /\ IsFiniteSet(Underway)
    /\ Cardinality(Underway) <= MaxOverlap
    /\ ~ready => \A c \in Channels : Cardinality(Own(webhooks[c])) <= MaxOverlap * restarts

\* A webhook of the bot's is in the channel of the call that created it, and that
\* call is past creating it.
OwnInPlace ==
    \A c \in Channels : \A k \in Own(webhooks[c]) :
        Target[k] = c /\ step[k] \in {"storing", "posting", "done"}

\* k was created for channel c, and is there unless it was deleted.
UsableIn(k, c) == k \in Sends /\ Target[k] = c /\ (deletions = 0 => k \in Own(webhooks[c]))

\* What Redis and the calls hold are such webhooks of the right channel.
HooksUsable ==
    /\ \A c \in Channels : stored[c] # NoHook => UsableIn(stored[c], c)
    /\ \A s \in Sends : hook[s] # NoHook => UsableIn(hook[s], Target[s])

\* A call that goes on has a channel, and one that began with the bot's user known
\* knows it while the process runs.
CallsProceed ==
    \A s \in Sends :
        /\ step[s] \notin {"idle", "resolving", "done"} => Target[s] # NoChannel
        /\ restarts = 0 /\ step[s] # "idle" /\ s \notin early => ready

\* The inductive invariant.
IInv ==
    /\ TypeOK
    /\ OverlapBounded
    /\ OwnInPlace
    /\ HooksUsable
    /\ CallsProceed
    /\ LostOnlyByFaults
    /\ HooksBounded
=============================================================================
