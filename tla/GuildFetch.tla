----------------------------- MODULE GuildFetch -----------------------------
(***************************************************************************)
(* Filling the cache after a shard connects (logging/cache): the handlers  *)
(* guildCreate and guildMembersChunk, and fetchOneGuild, which a ticker    *)
(* starts in a goroutine of its own every 750 ms, so that fetches overlap. *)
(* One shard is modelled: guilds, queues and loops of other shards share   *)
(* nothing with it but the mutex.                                          *)
(*                                                                         *)
(* Guild, role and channel data and both queues live in memory; members,   *)
(* invites and the set of cached guilds live in Redis and outlive the      *)
(* process.  Chunks arrive in order, but each is handled in a goroutine.   *)
(***************************************************************************)
EXTENDS Naturals, Sequences, SequencesExt

CONSTANTS
    Guilds,     \* the guilds of the shard
    NoGuild,    \* the zero guild ID
    Hidden,     \* guilds whose invites the bot may not list (401 or 403)
    Chunks,     \* member chunks of a guild (ChunkCount)
    Workers,    \* bounds the fetchOneGuild goroutines alive at once
    Settings    \* combinations of guilds, goroutines and faults (see setting)

FaultKinds == {"send", "rest", "redis", "reconnect", "restart"}

ASSUME GuildFetchAssumption ==
    /\ NoGuild \notin Guilds
    /\ Hidden \subseteq Guilds
    /\ Chunks \in Nat \ {0}
    /\ \A s \in Settings :
          /\ s.guilds \subseteq Guilds
          /\ s.workers \subseteq Workers
          /\ s.maxFaults \in [FaultKinds -> Nat]

VARIABLES
    setting,        \* the guilds the shard has, the bound on its goroutines and
                    \* maxFaults[k], the bound on faults of kind k: fixed
    pending,        \* guilds whose GUILD_CREATE Discord has yet to send
    creating,       \* guildCreate handlers that found their guild not cached
    known,          \* guilds whose roles and channels are in the memory store
    started,        \* fetchLoop runs (started once, by the first Ready)
    toFetchMembers, \* guildsToFetchMembers[shard]
    toFetchInvites, \* guildsToFetchInvites[shard]
    worker,         \* worker[w]: a fetchOneGuild goroutine and its locals
    wire,           \* wire[g]: member chunks of g that Discord still sends
    handling,       \* handling[g]: chunks in a guildMembersChunk handler
    marking,        \* handlers of a last chunk that has been stored
    members,        \* Redis: members[g], the chunks stored
    invites,        \* Redis: guilds whose invites are stored
    cached,         \* Redis: cachedGuilds
    faults          \* faults[k]: faults of kind k so far

queues == <<toFetchMembers, toFetchInvites>>
redis  == <<members, invites, cached>>
chunkHandlers == <<wire, handling, marking>>
vars == <<setting, pending, creating, known, started, queues, worker, chunkHandlers, redis, faults>>

-----------------------------------------------------------------------------
Chunk    == 1..Chunks
GuildID  == Guilds \cup {NoGuild}
Fetch    == [step : {"free", "send", "list", "store"}, member : GuildID, invite : GuildID]
Free     == [step |-> "free", member |-> NoGuild, invite |-> NoGuild]

TypeOK ==
    /\ setting \in Settings
    /\ pending \subseteq setting.guilds
    /\ creating \subseteq Guilds
    /\ known \subseteq Guilds
    /\ started \in BOOLEAN
    /\ toFetchMembers \subseteq Guilds
    /\ toFetchInvites \subseteq GuildID
    /\ worker \in [Workers -> Fetch]
    /\ wire \in [Guilds -> Seq(Chunk)]
    /\ handling \in [Guilds -> SUBSET Chunk]
    /\ marking \subseteq Guilds
    /\ members \in [Guilds -> SUBSET Chunk]
    /\ invites \subseteq Guilds
    /\ cached \subseteq Guilds
    /\ faults \in [FaultKinds -> Nat]
    /\ \A k \in FaultKinds : faults[k] <= setting.maxFaults[k]

NoWork == [w \in Workers |-> Free]
NoWire == [g \in Guilds |-> <<>>]
NoChunks == [g \in Guilds |-> {}]

Init ==
    /\ setting \in Settings
    /\ pending = setting.guilds
    /\ creating = {}
    /\ known = {}
    /\ started = FALSE
    /\ toFetchMembers = {}
    /\ toFetchInvites = {}
    /\ worker = NoWork
    /\ wire = NoWire
    /\ handling = NoChunks
    /\ marking = {}
    /\ members = NoChunks
    /\ invites = {}
    /\ cached = {}
    /\ faults = [k \in FaultKinds |-> 0]

Fault(kind) ==
    /\ faults[kind] < setting.maxFaults[kind]
    /\ faults' = [faults EXCEPT ![kind] = @ + 1]

-----------------------------------------------------------------------------
\* The first Ready starts the loop (module.go:43-48).
Ready ==
    /\ ~started
    /\ started' = TRUE
    /\ UNCHANGED <<setting, pending, creating, known, queues, worker, chunkHandlers, redis, faults>>

\* guildCreate up to the answer of IsGuildCached.
GuildCreate(g) ==
    /\ g \in pending
    /\ pending' = pending \ {g}
    /\ known' = known \cup {g}
    /\ creating' = IF g \in cached THEN creating ELSE creating \cup {g}
    /\ UNCHANGED <<setting, started, queues, worker, chunkHandlers, redis, faults>>

\* IsGuildCached fails: the handler gives up.
GuildCreateFails(g) ==
    /\ g \in pending
    /\ Fault("redis")
    /\ pending' = pending \ {g}
    /\ known' = known \cup {g}
    /\ UNCHANGED <<setting, creating, started, queues, worker, chunkHandlers, redis>>

\* The rest of guildCreate, under guildsMu.
QueueGuild(g) ==
    /\ g \in creating
    /\ creating' = creating \ {g}
    /\ toFetchMembers' = toFetchMembers \cup {g}
    /\ toFetchInvites' = toFetchInvites \cup {g}
    /\ UNCHANGED <<setting, pending, known, started, worker, chunkHandlers, redis, faults>>

-----------------------------------------------------------------------------
\* Ranging over a map and stopping at once: any key, or the zero ID.
PickFrom(ids) == IF ids = {} THEN {NoGuild} ELSE ids

\* Slip: a chunk request is sent for the zero ID too.
PickWithoutCheck(w) ==
    /\ started
    /\ w \in setting.workers
    /\ worker[w].step = "free"
    /\ toFetchMembers \cup toFetchInvites # {}
    /\ \E m \in PickFrom(toFetchMembers), i \in PickFrom(toFetchInvites) :
          /\ toFetchMembers' = toFetchMembers \ {m}
          /\ toFetchInvites' = toFetchInvites \ {i}
          /\ worker' = [worker EXCEPT ![w] = [step |-> "send", member |-> m, invite |-> i]]
    /\ UNCHANGED <<setting, pending, creating, known, started, chunkHandlers, redis, faults>>

\* fetchOneGuild up to guildsMu.Unlock.  The ticks that find both queues empty
\* change nothing.
PickGuilds(w) ==
    /\ started
    /\ w \in setting.workers
    /\ worker[w].step = "free"
    /\ toFetchMembers \cup toFetchInvites # {}
    /\ \E m \in PickFrom(toFetchMembers), i \in PickFrom(toFetchInvites) :
          /\ toFetchMembers' = toFetchMembers \ {m}
          /\ toFetchInvites' = toFetchInvites \ {i}
          /\ worker' = [worker EXCEPT ![w] =
                IF m # NoGuild      THEN [step |-> "send", member |-> m, invite |-> i]
                ELSE IF i # NoGuild THEN [step |-> "list", member |-> m, invite |-> i]
                ELSE Free]
    /\ UNCHANGED <<setting, pending, creating, known, started, chunkHandlers, redis, faults>>

\* On to the invites, if there is a guild to list them for.
ToInvites(w) ==
    worker' = [worker EXCEPT ![w] = IF @.invite = NoGuild THEN Free ELSE [@ EXCEPT !.step = "list"]]

\* The chunk request is sent and Discord will answer it.
RequestMembers(w) ==
    /\ worker[w].step = "send"
    /\ wire' = [wire EXCEPT ![worker[w].member] = @ \o [c \in Chunk |-> c]]
    /\ ToInvites(w)
    /\ UNCHANGED <<setting, pending, creating, known, started, queues, handling, marking, redis, faults>>

\* Slips: the guild is not put back; the goroutine ends without the invites.
RequestForgotten(w) ==
    /\ worker[w].step = "send"
    /\ Fault("send")
    /\ ToInvites(w)
    /\ UNCHANGED <<setting, pending, creating, known, started, queues, chunkHandlers, redis>>

RequestFailsAndReturns(w) ==
    /\ worker[w].step = "send"
    /\ Fault("send")
    /\ toFetchMembers' = toFetchMembers \cup {worker[w].member}
    /\ worker' = [worker EXCEPT ![w] = Free]
    /\ UNCHANGED <<setting, pending, creating, known, started, toFetchInvites, chunkHandlers, redis>>

\* Sending it fails: the guild goes back into its queue.
RequestFails(w) ==
    /\ worker[w].step = "send"
    /\ Fault("send")
    /\ toFetchMembers' = toFetchMembers \cup {worker[w].member}
    /\ ToInvites(w)
    /\ UNCHANGED <<setting, pending, creating, known, started, toFetchInvites, chunkHandlers, redis>>

ListInvites(w) ==
    /\ worker[w].step = "list"
    /\ worker[w].invite \notin Hidden
    /\ worker' = [worker EXCEPT ![w].step = "store"]
    /\ UNCHANGED <<setting, pending, creating, known, started, queues, chunkHandlers, redis, faults>>

\* 401 or 403: the guild's invites are given up.
ListRefused(w) ==
    /\ worker[w].step = "list"
    /\ worker[w].invite \in Hidden
    /\ worker' = [worker EXCEPT ![w] = Free]
    /\ UNCHANGED <<setting, pending, creating, known, started, queues, chunkHandlers, redis, faults>>

\* Any other error: memberFetchID, not inviteFetchID, enters the invite queue
\* (fetch_queue.go:96).  It may be the zero ID.
ListFails(w) ==
    /\ worker[w].step = "list"
    /\ Fault("rest")
    /\ toFetchInvites' = toFetchInvites \cup {worker[w].member}
    /\ worker' = [worker EXCEPT ![w] = Free]
    /\ UNCHANGED <<setting, pending, creating, known, started, toFetchMembers, chunkHandlers, redis>>

StoreInvites(w) ==
    /\ worker[w].step = "store"
    /\ invites' = invites \cup {worker[w].invite}
    /\ worker' = [worker EXCEPT ![w] = Free]
    /\ UNCHANGED <<setting, pending, creating, known, started, queues, chunkHandlers, members, cached, faults>>

\* A failed SET is only logged.
StoreInvitesFails(w) ==
    /\ worker[w].step = "store"
    /\ Fault("redis")
    /\ worker' = [worker EXCEPT ![w] = Free]
    /\ UNCHANGED <<setting, pending, creating, known, started, queues, chunkHandlers, redis>>

-----------------------------------------------------------------------------
\* The next chunk of g arrives and a handler starts.
ChunkArrives(g) ==
    /\ wire[g] # <<>>
    /\ wire' = [wire EXCEPT ![g] = Tail(@)]
    /\ handling' = [handling EXCEPT ![g] = @ \cup {Head(wire[g])}]
    /\ UNCHANGED <<setting, pending, creating, known, started, queues, worker, marking, redis, faults>>

\* Slip: the index of the first chunk is taken for that of the last.
StoreChunkMarksFirst(g, c) ==
    /\ c \in handling[g]
    /\ handling' = [handling EXCEPT ![g] = @ \ {c}]
    /\ members' = [members EXCEPT ![g] = @ \cup {c}]
    /\ marking' = IF c = 1 THEN marking \cup {g} ELSE marking
    /\ UNCHANGED <<setting, pending, creating, known, started, queues, worker, wire, invites, cached, faults>>

\* SetMembers succeeds; only the last chunk goes on.
StoreChunk(g, c) ==
    /\ c \in handling[g]
    /\ handling' = [handling EXCEPT ![g] = @ \ {c}]
    /\ members' = [members EXCEPT ![g] = @ \cup {c}]
    /\ marking' = IF c = Chunks THEN marking \cup {g} ELSE marking
    /\ UNCHANGED <<setting, pending, creating, known, started, queues, worker, wire, invites, cached, faults>>

\* SetMembers fails: the handler gives up.
StoreChunkFails(g, c) ==
    /\ c \in handling[g]
    /\ Fault("redis")
    /\ handling' = [handling EXCEPT ![g] = @ \ {c}]
    /\ UNCHANGED <<setting, pending, creating, known, started, queues, worker, wire, marking, redis>>

MarkCached(g) ==
    /\ g \in marking
    /\ marking' = marking \ {g}
    /\ cached' = cached \cup {g}
    /\ UNCHANGED <<setting, pending, creating, known, started, queues, worker, wire, handling,
                   members, invites, faults>>

MarkCachedFails(g) ==
    /\ g \in marking
    /\ Fault("redis")
    /\ marking' = marking \ {g}
    /\ UNCHANGED <<setting, pending, creating, known, started, queues, worker, wire, handling, redis>>

-----------------------------------------------------------------------------
\* The gateway session is lost with the chunks on it; the next one sends every
\* guild again.
Reconnect ==
    /\ started
    /\ Fault("reconnect")
    /\ pending' = setting.guilds
    /\ wire' = NoWire
    /\ UNCHANGED <<setting, creating, known, started, queues, worker, handling, marking, redis>>

\* The process stops and a new one starts; Redis keeps its data.
Restart ==
    /\ Fault("restart")
    /\ pending' = setting.guilds
    /\ creating' = {}
    /\ known' = {}
    /\ started' = FALSE
    /\ toFetchMembers' = {}
    /\ toFetchInvites' = {}
    /\ worker' = NoWork
    /\ wire' = NoWire
    /\ handling' = NoChunks
    /\ marking' = {}
    /\ UNCHANGED <<setting, redis>>

Next ==
    \/ Ready \/ Reconnect \/ Restart
    \/ \E g \in Guilds :
          \/ GuildCreate(g) \/ GuildCreateFails(g) \/ QueueGuild(g)
          \/ ChunkArrives(g) \/ MarkCached(g) \/ MarkCachedFails(g)
          \/ \E c \in Chunk : StoreChunk(g, c) \/ StoreChunkFails(g, c)
    \/ \E w \in Workers :
          \/ PickGuilds(w)
          \/ RequestMembers(w) \/ RequestFails(w)
          \/ ListInvites(w) \/ ListRefused(w) \/ ListFails(w)
          \/ StoreInvites(w) \/ StoreInvitesFails(w)

\* Discord sends what it owes, handlers run, the ticker ticks and calls return.
Fairness ==
    /\ WF_vars(Ready)
    /\ \A g \in Guilds :
          /\ WF_vars(GuildCreate(g))
          /\ WF_vars(QueueGuild(g))
          /\ WF_vars(ChunkArrives(g))
          /\ WF_vars(MarkCached(g))
          /\ \A c \in Chunk : WF_vars(StoreChunk(g, c))
    /\ \A w \in Workers :
          /\ WF_vars(PickGuilds(w))
          /\ WF_vars(RequestMembers(w))
          /\ WF_vars(ListInvites(w))
          /\ WF_vars(ListRefused(w))
          /\ WF_vars(StoreInvites(w))

Spec == Init /\ [][Next]_vars /\ Fairness

-----------------------------------------------------------------------------
\* g's member list is on its way to being marked as cached.
MembersUnderway(g) ==
    \/ g \in pending \cup creating \cup toFetchMembers \cup marking
    \/ \E w \in Workers : worker[w].step = "send" /\ worker[w].member = g
    \/ Contains(wire[g], Chunks)
    \/ Chunks \in handling[g]

\* A goroutine or the queue has g's invites.
InvitesQueued(g) ==
    \/ g \in toFetchInvites
    \/ \E w \in Workers : worker[w].step # "free" /\ worker[w].invite = g

\* g's invites are on their way to being stored.
InvitesUnderway(g) == g \in pending \cup creating \/ InvitesQueued(g)

\* While Redis answers, no guild is forgotten on its way through the handlers,
\* the queues, the goroutines and the gateway, whatever requests fail and
\* however often the shard reconnects: its members are fetched or underway, even
\* if the process restarts, and so are its invites, as long as it does not and
\* listing them does not fail.
NeverForgotten ==
    faults["redis"] = 0 =>
        \A g \in setting.guilds :
            /\ g \in cached \/ MembersUnderway(g)
            /\ faults["rest"] + faults["restart"] = 0 /\ g \notin Hidden =>
                  g \in invites \/ InvitesUnderway(g)

\* MarkGuildCached follows the last chunk only (fetch_queue.go:117-126).  While
\* Redis answers and the process runs, a cached guild's other chunks are stored
\* too or about to be; in every case its last one is.
CachedMeansStored ==
    \A g \in cached :
        /\ Chunks \in members[g]
        /\ faults["redis"] + faults["restart"] = 0 => Chunk \subseteq members[g] \cup handling[g]

\* What a goroutine is to request is that of a guild, never of the zero ID.
WorkersHaveGuilds ==
    \A w \in Workers :
        /\ worker[w].step = "send" => worker[w].member # NoGuild
        /\ worker[w].step \in {"list", "store"} => worker[w].invite # NoGuild

\* g's members have left the queue's handler at least once.
MembersQueued(g) ==
    \/ g \in toFetchMembers \cup marking \cup cached
    \/ \E w \in Workers : worker[w].step = "send" /\ worker[w].member = g
    \/ wire[g] # <<>> \/ handling[g] # {}

\* The two queues are filled together (guild_create.go:40-45), so that the
\* invites of a guild that needs no second handler are underway or stored.
InvitesFollow ==
    faults["redis"] + faults["rest"] + faults["restart"] = 0 =>
        \A g \in setting.guilds \ Hidden :
            MembersQueued(g) => g \in invites \/ InvitesQueued(g)

\* A last chunk in w, or one that is through, has all others before it in w or
\* among those that have arrived.
InOrder(w, arrived, through) ==
    /\ \A p \in DOMAIN w :
          w[p] = Chunks => \A c \in Chunk : c \in arrived \/ \E q \in 1..p : w[q] = c
    /\ through => Chunk \subseteq arrived

\* The last chunk never comes before an earlier one, and what has arrived stays.
ChunksFollow ==
    \A g \in Guilds :
        /\ g \in marking => Chunks \in members[g]
        /\ faults["redis"] + faults["restart"] = 0 =>
              InOrder(wire[g], members[g] \cup handling[g], Chunks \in handling[g] \/ g \in marking)

\* The inductive invariant.
IInv ==
    /\ TypeOK
    /\ WorkersHaveGuilds
    /\ NeverForgotten
    /\ InvitesFollow
    /\ ChunksFollow
    /\ CachedMeansStored

\* Redis answers and the process runs.
Undisturbed == [](faults["redis"] + faults["restart"] = 0)

\* fetch_queue.go:37-38: fetchOneGuild fetches "the full member list" ...  It
\* does, whatever requests and sessions fail.
MembersFetched ==
    Undisturbed =>
        \A g \in Guilds : g \in setting.guilds => <>[](g \in cached /\ members[g] = Chunk)

\* ... "and the list of invites".
InvitesFetched ==
    Undisturbed =>
        \A g \in Guilds \ Hidden : g \in setting.guilds => <>[](g \in invites)

\* The invites are fetched while no request for them fails, the members in any
\* case, whatever becomes of the requests for members, of the session, and of
\* guilds that hide their invites.
EventuallyFetched ==
    /\ MembersFetched
    /\ [](faults["rest"] = 0) => InvitesFetched
=============================================================================
