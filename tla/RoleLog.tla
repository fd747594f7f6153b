------------------------------- MODULE RoleLog -------------------------------
(***************************************************************************)
(* The roles of one guild in memory and the handlers that keep and log     *)
(* them: roleCreate, roleUpdate, roleDelete (logging/roles), and the part  *)
(* of guildCreate that stores the roles of GUILD_CREATE.                   *)
(*                                                                         *)
(* Each event has a handler in a goroutine of its own: it looks the role   *)
(* up, sends a log, and stores or removes the role in a deferred call when *)
(* the log is out.  Events arrive in the order of the changes, handlers    *)
(* finish in any.                                                          *)
(***************************************************************************)
EXTENDS Integers, Sequences, FiniteSets, SequencesExt, Durations

CONSTANTS
    Roles,          \* role IDs; one is never used again
    OldRoles,       \* those that exist when the bot starts
    Role,           \* the forms a role takes
    Shown,          \* Shown[f]: what a log shows of form f: not its position
    Ages,           \* ages of roles, negative when Discord's clock is ahead
    NotFound,
    ShouldLog,      \* bot.ShouldLog()
    MaxEvents,      \* bounds the role events
    MaxDisconnects  \* bounds the gaps in the connection

Store == INSTANCE MemoryStore WITH IDs <- Roles, Values <- Role

ASSUME RoleLogAssumption ==
    /\ IsFiniteSet(Roles)
    /\ OldRoles \subseteq Roles
    /\ NotFound \notin Role
    /\ DOMAIN Shown = Role
    /\ Ages \subseteq Int
    /\ ShouldLog \in BOOLEAN
    /\ MaxEvents \in Nat
    /\ MaxDisconnects \in Nat

VARIABLES
    real,       \* real[r]: the role on Discord, or NotFound
    deleted,    \* roles that existed once
    online,     \* the shard is connected
    gaps,       \* disconnections so far
    events,     \* the role events received, each with its handler
    snapshots,  \* GUILD_CREATE handlers: the roles each carries
    store,      \* the memory store
    overlapped, \* roles of which two handlers ran at once
    missed      \* roles deleted while disconnected

discord == <<real, deleted, online, gaps>>
vars == <<discord, events, snapshots, store, overlapped, missed>>

-----------------------------------------------------------------------------
Known == Role \cup {NotFound}

\* was, new: the role before and after; old: what the handler read;
\* logged: the log it sent, with the old role where it shows it.
Event ==
    [kind : {"create", "update", "delete"}, role : Roles, was : Known, new : Known,
     step : {"begun", "saving", "done"}, old : Known, logged : BOOLEAN]

TypeOK ==
    /\ real \in [Roles -> Known]
    /\ deleted \subseteq Roles
    /\ online \in BOOLEAN
    /\ gaps \in 0..MaxDisconnects
    /\ events \in Seq(Event) /\ Len(events) <= MaxEvents
    /\ \A i \in DOMAIN events :
          events[i].step = "saving" /\ events[i].kind # "create" => events[i].old # NotFound
    /\ \A s \in snapshots : s \in [Roles -> Known]
    /\ store \in Store!MemoryStores
    /\ overlapped \subseteq Roles
    /\ missed \subseteq Roles

Exists(roles) == {r \in Roles : roles[r] # NotFound}

Init ==
    /\ \E role \in Role : real = [r \in Roles |-> IF r \in OldRoles THEN role ELSE NotFound]
    /\ deleted = {}
    /\ online = TRUE
    /\ gaps = 0
    /\ events = <<>>
    /\ snapshots = {real}
    /\ store = Store!NewStore
    /\ overlapped = {}
    /\ missed = {}

-----------------------------------------------------------------------------
Busy(r) ==
    \/ \E i \in DOMAIN events : events[i].role = r /\ events[i].step # "done"
    \/ snapshots # {}

\* A change of role r on Discord; the bot hears of it when it is connected.
Change(kind, r, new) ==
    /\ real' = [real EXCEPT ![r] = new]
    /\ IF online
       THEN /\ Len(events) < MaxEvents
            /\ events' = Append(events,
                  [kind |-> kind, role |-> r, was |-> real[r], new |-> new,
                   step |-> "begun", old |-> NotFound, logged |-> FALSE])
            /\ overlapped' = IF Busy(r) THEN overlapped \cup {r} ELSE overlapped
       ELSE UNCHANGED <<events, overlapped>>
    /\ UNCHANGED <<online, gaps, snapshots, store>>

RoleCreated(r) ==
    /\ real[r] = NotFound /\ r \notin deleted
    /\ \E role \in Role : Change("create", r, role)
    /\ UNCHANGED <<deleted, missed>>

RoleUpdated(r) ==
    /\ real[r] # NotFound
    /\ \E role \in Role \ {real[r]} : Change("update", r, role)
    /\ UNCHANGED <<deleted, missed>>

RoleDeleted(r) ==
    /\ real[r] # NotFound
    /\ Change("delete", r, NotFound)
    /\ deleted' = deleted \cup {r}
    /\ missed' = IF online THEN missed ELSE missed \cup {r}

Disconnect ==
    /\ online
    /\ gaps < MaxDisconnects
    /\ online' = FALSE
    /\ gaps' = gaps + 1
    /\ UNCHANGED <<real, deleted, events, snapshots, store, overlapped, missed>>

\* A new session begins with GUILD_CREATE.
Reconnect ==
    /\ ~online
    /\ online' = TRUE
    /\ snapshots' = snapshots \cup {real}
    /\ overlapped' = overlapped \cup {r \in Roles : Busy(r)}
    /\ UNCHANGED <<real, deleted, gaps, events, store, missed>>

-----------------------------------------------------------------------------
\* guildCreate: SetRoles.  Roles that are stored and not listed stay.
StoreSnapshot(s) ==
    /\ s \in snapshots
    /\ snapshots' = snapshots \ {s}
    /\ store' = Store!SetMany(store, Exists(s), s)
    /\ UNCHANGED <<discord, events, overlapped, missed>>

Handle(i, step, old, logged) ==
    events' = [events EXCEPT ![i].step = step, ![i].old = old, ![i].logged = logged]

\* roleCreate up to its deferred SetRole.
LogCreate(i) ==
    /\ events[i].kind = "create" /\ events[i].step = "begun"
    /\ Handle(i, "saving", NotFound, ShouldLog)
    /\ UNCHANGED <<discord, snapshots, store, overlapped, missed>>

\* Slips: the deferred call is set up after the early return; the new role is
\* stored before the old one is read.
UpdateDefersLate(i) ==
    /\ events[i].kind = "update" /\ events[i].step = "begun"
    /\ LET old == Store!Lookup(store, events[i].role)
           changed == old # NotFound /\ Shown[old] # Shown[events[i].new]
       IN  Handle(i, IF changed THEN "saving" ELSE "done", old, changed /\ ShouldLog)
    /\ UNCHANGED <<discord, snapshots, store, overlapped, missed>>

UpdateSavesFirst(i) ==
    /\ events[i].kind = "update" /\ events[i].step = "begun"
    /\ LET old == Store!Lookup(store, events[i].role)
       IN  IF old = NotFound
           THEN Handle(i, "done", old, FALSE) /\ UNCHANGED store
           ELSE /\ store' = Store!SetOne(store, events[i].role, events[i].new)
                /\ Handle(i, "done", events[i].new, FALSE)
    /\ UNCHANGED <<discord, snapshots, overlapped, missed>>

\* roleUpdate: an unknown role is neither logged nor stored; a change of
\* position is stored and not logged.
LogUpdate(i) ==
    /\ events[i].kind = "update" /\ events[i].step = "begun"
    /\ LET old == Store!Lookup(store, events[i].role)
       IN  IF old = NotFound
           THEN Handle(i, "done", old, FALSE)
           ELSE Handle(i, "saving", old, ShouldLog /\ Shown[old] # Shown[events[i].new])
    /\ UNCHANGED <<discord, snapshots, store, overlapped, missed>>

\* Slip: no return when the role is not found.
DeleteGoesOn(i) ==
    /\ events[i].kind = "delete" /\ events[i].step = "begun"
    /\ Handle(i, "saving", Store!Lookup(store, events[i].role), ShouldLog)
    /\ UNCHANGED <<discord, snapshots, store, overlapped, missed>>

\* roleDelete: an unknown role is not logged.
LogDelete(i) ==
    /\ events[i].kind = "delete" /\ events[i].step = "begun"
    /\ LET old == Store!Lookup(store, events[i].role)
       IN  IF old = NotFound
           THEN Handle(i, "done", old, FALSE)
           ELSE Handle(i, "saving", old, ShouldLog)
    /\ UNCHANGED <<discord, snapshots, store, overlapped, missed>>

\* The deferred SetRole of roleCreate and roleUpdate, RemoveRole of roleDelete.
Save(i) ==
    /\ events[i].step = "saving"
    /\ events' = [events EXCEPT ![i].step = "done"]
    /\ store' = IF events[i].kind = "delete"
                THEN Store!RemoveOne(store, events[i].role)
                ELSE Store!SetOne(store, events[i].role, events[i].new)
    /\ UNCHANGED <<discord, snapshots, overlapped, missed>>

Next ==
    \/ \E r \in Roles : RoleCreated(r) \/ RoleUpdated(r) \/ RoleDeleted(r)
    \/ Disconnect \/ Reconnect
    \/ \E s \in snapshots : StoreSnapshot(s)
    \/ \E i \in DOMAIN events : LogCreate(i) \/ LogUpdate(i) \/ LogDelete(i) \/ Save(i)

Spec == Init /\ [][Next]_vars

-----------------------------------------------------------------------------
\* An event's role exists before it, after it, or both.
EventsFit ==
    \A i \in DOMAIN events :
        /\ events[i].was = NotFound <=> events[i].kind = "create"
        /\ events[i].new = NotFound <=> events[i].kind = "delete"

Current == Roles \ (overlapped \cup missed)

\* A handler that is alone with its role found it stored as it was before, and
\* brings what it is on Discord now.
HandlersFollow ==
    \A i \in DOMAIN events :
        LET e == events[i]
        IN  e.step # "done" /\ e.role \in Current =>
                /\ snapshots = {}
                /\ \A j \in DOMAIN events : events[j].role = e.role /\ events[j].step # "done" => j = i
                /\ Store!Lookup(store, e.role) = e.was
                /\ online => real[e.role] = e.new
                /\ real[e.role] = NotFound => e.new = NotFound

\* So does a GUILD_CREATE; what it does not list is not stored.
SnapshotsFollow ==
    \A s \in snapshots, r \in Current :
        /\ snapshots = {s}
        /\ online => real[r] = s[r]
        /\ real[r] = NotFound => s[r] = NotFound
        /\ s[r] = NotFound => Store!Lookup(store, r) = NotFound

\* Between the handlers the store follows, and holds no role that is gone also
\* while changes are not heard of.
StoreFollows ==
    \A r \in Current :
        ~Busy(r) => /\ online => Store!Lookup(store, r) = real[r]
                    /\ real[r] = NotFound => Store!Lookup(store, r) = NotFound

\* The map and the list, written together by all handlers and emptied through
\* the list (role.go:82-93), agree this far: no stored role is left out.
StoredAreListed ==
    \A r \in Roles : Store!Lookup(store, r) # NotFound => Contains(store.ids, r)

\* When the handlers of a role never overlapped, the store holds the role as it
\* is on Discord as soon as they are done, whatever was logged or not and
\* whatever other roles' handlers did meanwhile; and at any time the store can be
\* emptied of all it holds.  A role deleted while the bot was away stays:
\* guildCreate removes nothing.
StoreFollowsDiscord ==
    /\ \A r \in Roles \ (overlapped \cup missed) :
          online /\ ~Busy(r) => Store!Lookup(store, r) = real[r]
    /\ StoredAreListed

\* Then each creation, deletion and visible change is logged, with the role as
\* it was before, and nothing else is.
LogsMatchChanges ==
    \A i \in DOMAIN events :
        LET e == events[i]
        IN  ShouldLog /\ e.step = "done" /\ e.role \notin overlapped \cup missed =>
                /\ e.logged <=> e.kind # "update" \/ Shown[e.was] # Shown[e.new]
                /\ e.kind # "create" => e.old = e.was

\* LogsMatchChanges, from the moment of the log.
LogsFollow ==
    \A i \in DOMAIN events :
        LET e == events[i]
        IN  ShouldLog /\ e.step # "begun" /\ e.role \in Current =>
                /\ e.logged <=> e.kind # "update" \/ Shown[e.was] # Shown[e.new]
                /\ e.kind # "create" => e.old = e.was

\* The inductive invariant.
IInv ==
    /\ TypeOK
    /\ EventsFit
    /\ HandlersFollow
    /\ SnapshotsFollow
    /\ StoreFollows
    /\ StoredAreListed
    /\ LogsFollow

\* The log of a deletion shows the role's age, which reads as what it is up to the
\* smallest unit it is shown in, and an older role never reads as younger
\* (role_delete.go:46, duration.FormatTime).
AgesReadBack ==
    /\ \A age \in Ages : ReadsBack(age) /\ Carried(age)
    /\ \A a, b \in Ages : a <= b => Read(FormatTime(a)) <= Read(FormatTime(b))

DeletionLogsShowAges ==
    (\E i \in DOMAIN events : events[i].kind = "delete" /\ events[i].logged) => AgesReadBack
=============================================================================
