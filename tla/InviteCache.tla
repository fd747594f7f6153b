----------------------------- MODULE InviteCache -----------------------------
(***************************************************************************)
(* The invites of one guild as Redis holds them, and their three writers:  *)
(* inviteCreate and inviteDelete (logging/invites), each in a goroutine of *)
(* its own, and the fetch that follows GUILD_CREATE (logging/cache).       *)
(* Each asks Discord for the whole list and stores the whole list, with    *)
(* nothing to keep two of them apart.  The handlers do so in a deferred    *)
(* call, when their log is out; inviteDelete looks the invite up before.   *)
(***************************************************************************)
EXTENDS Naturals, Sequences, SequencesExt

CONSTANTS
    Invites,    \* invite codes; one is never used again
    OldInvites, \* those that exist at the start
    NoList,     \* nothing stored
    ShouldLog,  \* bot.ShouldLog()
    MaxEvents,  \* bounds the writers: invite events and fetches
    MaxFaults   \* bounds the failures of Discord and Redis

ASSUME InviteCacheAssumption ==
    /\ OldInvites \subseteq Invites
    /\ \A list \in SUBSET Invites : NoList # list
    /\ ShouldLog \in BOOLEAN
    /\ MaxEvents \in Nat
    /\ MaxFaults \in Nat

VARIABLES
    real,       \* the guild's invites on Discord
    revoked,    \* invites that existed once
    stored,     \* Redis: "guildInvites:..."
    writers,    \* the handlers and fetches so far
    crossed,    \* since the guild was last quiet, a list was taken while an
                \* earlier one waited to be stored
    failed,     \* since then, a request failed
    faults

burst == <<crossed, failed>>
vars == <<real, revoked, stored, writers, burst, faults>>

-----------------------------------------------------------------------------
Lists == SUBSET Invites

\* alone: no other writer has been under way beside it, nor has one left an
\* outdated list before it.
Writer ==
    [kind : {"create", "delete", "fetch"}, invites : Lists, list : {NoList} \cup Lists,
     step : {"begun", "listing", "storing", "done"}, logged : BOOLEAN, alone : BOOLEAN]

TypeOK ==
    /\ real \subseteq Invites
    /\ revoked \subseteq Invites /\ revoked \cap real = {}
    /\ stored \in {NoList} \cup Lists
    /\ writers \in Seq(Writer) /\ Len(writers) <= MaxEvents
    /\ \A i \in DOMAIN writers : writers[i].step = "storing" => writers[i].list # NoList
    /\ crossed \in BOOLEAN
    /\ failed \in BOOLEAN
    /\ faults \in 0..MaxFaults

Init ==
    /\ real = OldInvites
    /\ revoked = {}
    /\ stored = NoList
    /\ writers = <<>>
    /\ crossed = FALSE
    /\ failed = FALSE
    /\ faults = 0

Quiet == \A i \in DOMAIN writers : writers[i].step = "done"

\* A writer starts; those under way are no longer alone.
Start(kind, invites, step) ==
    /\ Len(writers) < MaxEvents
    /\ writers' = Append(
          [i \in DOMAIN writers |->
              [writers[i] EXCEPT !.alone = @ /\ writers[i].step = "done"]],
          [kind |-> kind, invites |-> invites, list |-> NoList, step |-> step,
           logged |-> FALSE,
           alone |-> Quiet /\ writers # <<>> /\ ~crossed /\ ~failed])
    /\ crossed' = (crossed /\ ~Quiet)
    /\ failed' = (failed /\ ~Quiet)

Fault ==
    /\ faults < MaxFaults
    /\ faults' = faults + 1
    /\ failed' = TRUE

-----------------------------------------------------------------------------
InviteCreated(v) ==
    /\ v \notin real \cup revoked
    /\ real' = real \cup {v}
    /\ Start("create", {v}, "begun")
    /\ UNCHANGED <<revoked, stored, faults>>

InviteDeleted(v) ==
    /\ v \in real
    /\ real' = real \ {v}
    /\ revoked' = revoked \cup {v}
    /\ Start("delete", {v}, "begun")
    /\ UNCHANGED <<stored, faults>>

\* fetchOneGuild reaches the guild.
Fetch ==
    /\ Start("fetch", {}, "listing")
    /\ UNCHANGED <<real, revoked, stored, faults>>

\* inviteCreate: the event has all that the log shows.
LogCreate(i) ==
    /\ writers[i].kind = "create" /\ writers[i].step = "begun"
    /\ writers' = [writers EXCEPT ![i].step = "listing", ![i].logged = ShouldLog]
    /\ UNCHANGED <<real, revoked, stored, burst, faults>>

\* Slip: the list is brought up to date before the invite is looked up.
DeleteListsFirst(i) ==
    /\ writers[i].kind = "delete" /\ writers[i].step = "begun"
    /\ stored' = real
    /\ writers' = [writers EXCEPT ![i].step = "done",
                                  ![i].logged = ShouldLog /\ writers[i].invites \subseteq real]
    /\ UNCHANGED <<real, revoked, burst, faults>>

\* inviteDelete: only an invite that is found in the stored list is logged.
LogDelete(i) ==
    /\ writers[i].kind = "delete" /\ writers[i].step = "begun"
    /\ \/ /\ writers' = [writers EXCEPT ![i].step = "listing",
                ![i].logged = ShouldLog /\ stored # NoList /\ writers[i].invites \subseteq stored]
          /\ UNCHANGED faults
       \/ /\ ShouldLog
          /\ faults < MaxFaults
          /\ faults' = faults + 1
          /\ writers' = [writers EXCEPT ![i].step = "listing", ![i].alone = FALSE]
    /\ UNCHANGED <<real, revoked, stored, burst>>

\* Slip: the error of GuildInvites does not end the deferred call.
ListIgnoringErrors(i) ==
    /\ writers[i].step = "listing"
    /\ \/ /\ writers' = [writers EXCEPT ![i].step = "storing", ![i].list = real]
          /\ UNCHANGED <<failed, faults>>
       \/ /\ Fault
          /\ writers' = [writers EXCEPT ![i].step = "storing"]
    /\ crossed' = (crossed \/ \E j \in DOMAIN writers : writers[j].step = "storing")
    /\ UNCHANGED <<real, revoked, stored>>

\* GuildInvites; an error ends the handler (what fetchOneGuild does with its
\* guild then is in module GuildFetch).
List(i) ==
    /\ writers[i].step = "listing"
    /\ \/ /\ writers' = [writers EXCEPT ![i].step = "storing", ![i].list = real]
          /\ crossed' = (crossed \/ \E j \in DOMAIN writers : writers[j].step = "storing")
          /\ UNCHANGED <<failed, faults>>
       \/ /\ Fault
          /\ writers' = [writers EXCEPT ![i].step = "done"]
          /\ UNCHANGED crossed
    /\ UNCHANGED <<real, revoked, stored>>

\* Slip: the writer stores the list with its own invite added or left out.
StoreByEvent(i) ==
    /\ writers[i].step = "storing"
    /\ stored' = CASE stored = NoList             -> writers[i].list
                   [] writers[i].kind = "create"  -> stored \cup writers[i].invites
                   [] writers[i].kind = "delete"  -> stored \ writers[i].invites
                   [] OTHER                       -> writers[i].list
    /\ writers' = [writers EXCEPT ![i].step = "done", ![i].list = NoList]
    /\ UNCHANGED <<real, revoked, burst, faults>>

\* SetInvites; an error is only logged.
Store(i) ==
    /\ writers[i].step = "storing"
    /\ \/ stored' = writers[i].list /\ UNCHANGED <<failed, faults>>
       \/ Fault /\ UNCHANGED stored
    /\ writers' = [writers EXCEPT ![i].step = "done", ![i].list = NoList]
    /\ UNCHANGED <<real, revoked, crossed>>

Next ==
    \/ \E v \in Invites : InviteCreated(v) \/ InviteDeleted(v)
    \/ Fetch
    \/ \E i \in DOMAIN writers : LogCreate(i) \/ LogDelete(i) \/ List(i) \/ Store(i)

Spec == Init /\ [][Next]_vars

-----------------------------------------------------------------------------
\* invite_delete.go:15: "update the cached invites when we're done handling this
\* event".  Redis then holds the invites that Discord does, as long as no list
\* is taken while an earlier one waits to be stored; handlers may overlap in
\* every other way.  What a failed request or two crossing writers leave behind
\* is mended by the next event.
UpToDateUnlessCrossed ==
    Quiet /\ ~crossed /\ ~failed /\ writers # <<>> => stored = real

\* A deletion that finds Redis up to date and no other writer beside it is
\* logged: the list that drops the invite is stored after the look at the old
\* one.
DeletionsLogged ==
    \A i \in DOMAIN writers :
        /\ writers[i].kind = "delete" /\ writers[i].step # "begun"
        /\ writers[i].alone /\ ShouldLog
        => writers[i].logged

\* Unless two have crossed or a request has failed, one list at most waits to be
\* stored.  If no other is to be taken, it is the guild's, or Redis is up to date.
ListsFollow ==
    ~crossed /\ ~failed /\ writers # <<>> =>
        /\ \A i, j \in DOMAIN writers :
              writers[i].step = "storing" /\ writers[j].step = "storing" => i = j
        /\ (\A i \in DOMAIN writers : writers[i].step \in {"storing", "done"}) =>
              /\ \A i \in DOMAIN writers : writers[i].step = "storing" => writers[i].list = real
              /\ Quiet => stored = real

\* A deletion's handler that is alone will find its invite.
AloneFindsInvite ==
    \A i \in DOMAIN writers :
        writers[i].kind = "delete" /\ writers[i].step = "begun" /\ writers[i].alone =>
            /\ \A j \in DOMAIN writers \ {i} : writers[j].step = "done"
            /\ stored # NoList /\ writers[i].invites \subseteq stored

\* The inductive invariant.
IInv == TypeOK /\ ListsFollow /\ AloneFindsInvite /\ DeletionsLogged
=============================================================================
