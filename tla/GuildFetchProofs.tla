-------------------------- MODULE GuildFetchProofs --------------------------
(***************************************************************************)
(* Proofs about GuildFetch: the inductive invariant IInv, from it that no  *)
(* guild is forgotten and that a marked guild has its members, for every   *)
(* set of guilds, number of chunks and goroutines, and bound on faults.    *)
(***************************************************************************)
EXTENDS GuildFetch, TLAPS

-----------------------------------------------------------------------------
\* The chunks of one request, in order.
LEMMA RequestFacts ==
    ASSUME NEW s \in Seq(Chunk)
    PROVE  LET r == s \o [c \in Chunk |-> c]
           IN  /\ r \in Seq(Chunk)
               /\ Len(r) = Len(s) + Chunks
               /\ \A i \in 1..Len(s) : r[i] = s[i]
               /\ \A c \in Chunk : r[Len(s) + c] = c
<1>1. [c \in Chunk |-> c] \in Seq(Chunk) /\ Len([c \in Chunk |-> c]) = Chunks
  BY GuildFetchAssumption DEF Chunk
<1> QED
  BY <1>1, GuildFetchAssumption DEF Chunk

LEMMA WireFacts ==
    ASSUME NEW s \in Seq(Chunk), s # <<>>
    PROVE  /\ Head(s) \in Chunk /\ Head(s) = s[1]
           /\ Tail(s) \in Seq(Chunk)
           /\ Len(s) \in Nat \ {0}
           /\ Len(Tail(s)) = Len(s) - 1
           /\ \A i \in 1..Len(Tail(s)) : Tail(s)[i] = s[i + 1]
OBVIOUS

\* A fault is counted, within its bound.
LEMMA FaultFacts ==
    ASSUME TypeOK, NEW kind \in FaultKinds, Fault(kind)
    PROVE  /\ faults' \in [FaultKinds -> Nat]
           /\ faults'[kind] = faults[kind] + 1
           /\ \A k \in FaultKinds \ {kind} : faults'[k] = faults[k]
           /\ \A k \in FaultKinds : faults'[k] <= setting.maxFaults[k]
<1>1. setting.maxFaults \in [FaultKinds -> Nat]
  BY GuildFetchAssumption DEF TypeOK
<1> QED
  BY <1>1 DEF TypeOK, Fault

\* What ToInvites and ListInvites make of a goroutine.
LEMMA FetchFacts ==
    ASSUME NEW r \in Fetch, NEW x \in {"free", "send", "list", "store"}
    PROVE  LET s == [r EXCEPT !.step = x]
           IN  s \in Fetch /\ s.step = x /\ s.member = r.member /\ s.invite = r.invite
BY SMT DEF Fetch, GuildID

\* What a new process starts with.
LEMMA EmptyFacts ==
    /\ Free \in Fetch /\ NoWork \in [Workers -> Fetch]
    /\ NoWire \in [Guilds -> Seq(Chunk)]
    /\ NoChunks \in [Guilds -> SUBSET Chunk]
<1>1. Free \in Fetch
  BY DEF Free, Fetch, GuildID
<1> QED
  BY <1>1 DEF NoWork, NoWire, NoChunks

LEMMA SettingFacts ==
    ASSUME TypeOK
    PROVE setting.guilds \subseteq Guilds /\ setting.workers \subseteq Workers
BY GuildFetchAssumption DEF TypeOK

-----------------------------------------------------------------------------
LEMMA InitInvariant == Init => IInv
<1> SUFFICES ASSUME Init PROVE IInv
  OBVIOUS
<1>0. /\ setting.guilds \subseteq Guilds /\ setting.workers \subseteq Workers
      /\ setting.maxFaults \in [FaultKinds -> Nat]
  BY GuildFetchAssumption DEF Init
<1>1. TypeOK
  <2>1. /\ faults \in [FaultKinds -> Nat]
        /\ \A k \in FaultKinds : faults[k] <= setting.maxFaults[k]
    BY <1>0 DEF Init
  <2> QED
    BY <1>0, <2>1, EmptyFacts DEF Init, TypeOK
<1>2. WorkersHaveGuilds
  BY DEF Init, WorkersHaveGuilds, NoWork, Free
<1>3. NeverForgotten
  BY DEF Init, NeverForgotten, MembersUnderway, InvitesUnderway
<1>4. InvitesFollow
  BY <1>0 DEF Init, InvitesFollow, MembersQueued, NoWork, Free, NoWire, NoChunks
<1>5. ChunksFollow /\ CachedMeansStored
  BY DEF Init, ChunksFollow, InOrder, CachedMeansStored, NoWire, NoChunks
<1> QED
  BY <1>1, <1>2, <1>3, <1>4, <1>5 DEF IInv

\* No step leaves the types.
LEMMA TypeStep == IInv /\ [Next]_vars => TypeOK'
<1> SUFFICES ASSUME IInv, [Next]_vars PROVE TypeOK'
  OBVIOUS
<1> USE DEF queues, redis, chunkHandlers
<1>0. TypeOK /\ WorkersHaveGuilds
  BY DEF IInv
<1>1. CASE Ready \/ Reconnect \/ Restart
  <2>1. CASE Ready
    BY <1>0, <2>1 DEF TypeOK, Ready
  <2>2. CASE Reconnect
    BY <1>0, <2>2, SettingFacts, FaultFacts DEF TypeOK, Reconnect, NoWire, FaultKinds
  <2>3. CASE Restart
    BY <1>0, <2>3, SettingFacts, FaultFacts, EmptyFacts DEF TypeOK, Restart, FaultKinds
  <2> QED
    BY <1>1, <2>1, <2>2, <2>3
<1>2. ASSUME NEW g \in Guilds, GuildCreate(g) \/ GuildCreateFails(g) \/ QueueGuild(g)
      PROVE  TypeOK'
  <2>1. CASE GuildCreate(g)
    BY <1>0, <2>1 DEF TypeOK, GuildCreate
  <2>2. CASE GuildCreateFails(g)
    BY <1>0, <2>2, FaultFacts DEF TypeOK, GuildCreateFails, FaultKinds
  <2>3. CASE QueueGuild(g)
    BY <1>0, <2>3 DEF TypeOK, QueueGuild, GuildID
  <2> QED
    BY <1>2, <2>1, <2>2, <2>3
<1>3. ASSUME NEW g \in Guilds, ChunkArrives(g) PROVE TypeOK'
  BY <1>0, <1>3, WireFacts DEF TypeOK, ChunkArrives
<1>4. ASSUME NEW g \in Guilds, MarkCached(g) \/ MarkCachedFails(g) PROVE TypeOK'
  BY <1>0, <1>4, FaultFacts DEF TypeOK, MarkCached, MarkCachedFails, FaultKinds
<1>5. ASSUME NEW g \in Guilds, NEW c \in Chunk, StoreChunk(g, c) \/ StoreChunkFails(g, c)
      PROVE  TypeOK'
  <2>1. CASE StoreChunk(g, c)
    BY <1>0, <2>1 DEF TypeOK, StoreChunk
  <2>2. CASE StoreChunkFails(g, c)
    BY <1>0, <2>2, FaultFacts DEF TypeOK, StoreChunkFails, FaultKinds
  <2> QED
    BY <1>5, <2>1, <2>2
<1>6. ASSUME NEW w \in Workers, PickGuilds(w) PROVE TypeOK'
  <2>1. PICK m \in PickFrom(toFetchMembers), i \in PickFrom(toFetchInvites) :
          /\ toFetchMembers' = toFetchMembers \ {m}
          /\ toFetchInvites' = toFetchInvites \ {i}
          /\ worker' = [worker EXCEPT ![w] =
                IF m # NoGuild      THEN [step |-> "send", member |-> m, invite |-> i]
                ELSE IF i # NoGuild THEN [step |-> "list", member |-> m, invite |-> i]
                ELSE Free]
    BY <1>6 DEF PickGuilds
  <2>2. m \in GuildID /\ i \in GuildID
    BY <1>0 DEF TypeOK, PickFrom, GuildID
  <2>3. worker' \in [Workers -> Fetch]
    BY <1>0, <2>1, <2>2, SMT DEF TypeOK, Fetch, Free, GuildID
  <2> QED
    BY <1>0, <1>6, <2>1, <2>3 DEF TypeOK, PickGuilds
<1>7. ASSUME NEW w \in Workers, RequestMembers(w) \/ RequestFails(w) PROVE TypeOK'
  <2>1. worker[w] \in Fetch /\ [worker[w] EXCEPT !.step = "list"] \in Fetch
    BY <1>0, FetchFacts DEF TypeOK
  <2>2. worker[w].member \in Guilds
    <3>1. worker[w].member \in GuildID
      BY <2>1 DEF Fetch
    <3> QED
      BY <1>0, <1>7, <3>1 DEF WorkersHaveGuilds, RequestMembers, RequestFails, GuildID
  <2>3. worker' \in [Workers -> Fetch]
    BY <1>0, <1>7, <2>1, EmptyFacts DEF TypeOK, RequestMembers, RequestFails, ToInvites
  <2>4. CASE RequestMembers(w)
    BY <1>0, <2>2, <2>3, <2>4, RequestFacts DEF TypeOK, RequestMembers
  <2>5. CASE RequestFails(w)
    BY <1>0, <2>2, <2>3, <2>5, FaultFacts DEF TypeOK, RequestFails, FaultKinds
  <2> QED
    BY <1>7, <2>4, <2>5
<1>8. ASSUME NEW w \in Workers,
             ListInvites(w) \/ ListRefused(w) \/ ListFails(w) \/ StoreInvites(w) \/ StoreInvitesFails(w)
      PROVE TypeOK'
  <2>1. Free \in Fetch /\ [worker[w] EXCEPT !.step = "store"] \in Fetch
    BY <1>0, FetchFacts, EmptyFacts DEF TypeOK
  <2>2. /\ worker[w].member \in GuildID
        /\ worker[w].step = "store" => worker[w].invite \in Guilds
    BY <1>0, SMT DEF TypeOK, WorkersHaveGuilds, Fetch, GuildID
  <2>3. CASE ListInvites(w)
    BY <1>0, <2>1, <2>3 DEF TypeOK, ListInvites
  <2>4. CASE ListRefused(w)
    BY <1>0, <2>1, <2>4 DEF TypeOK, ListRefused
  <2>5. CASE ListFails(w)
    BY <1>0, <2>1, <2>2, <2>5, FaultFacts DEF TypeOK, ListFails, FaultKinds
  <2>6. CASE StoreInvites(w)
    BY <1>0, <2>1, <2>2, <2>6 DEF TypeOK, StoreInvites
  <2>7. CASE StoreInvitesFails(w)
    BY <1>0, <2>1, <2>7, FaultFacts DEF TypeOK, StoreInvitesFails, FaultKinds
  <2> QED
    BY <1>8, <2>3, <2>4, <2>5, <2>6, <2>7
<1>9. CASE UNCHANGED vars
  BY <1>0, <1>9 DEF TypeOK, vars
<1> QED
  BY <1>1, <1>2, <1>3, <1>4, <1>5, <1>6, <1>7, <1>8, <1>9 DEF Next

-----------------------------------------------------------------------------
\* What becomes of a goroutine; the others stay as they are.
LEMMA PickFacts ==
    ASSUME TypeOK, NEW w \in Workers, PickGuilds(w)
    PROVE  /\ worker[w].step = "free"
           /\ \A v \in Workers \ {w} : worker'[v] = worker[v]
           /\ \E m \in GuildID, i \in GuildID :
                 /\ toFetchMembers' = toFetchMembers \ {m}
                 /\ toFetchInvites' = toFetchInvites \ {i}
                 /\ m # NoGuild =>
                       /\ m \in toFetchMembers
                       /\ worker'[w].step = "send"
                       /\ worker'[w].member = m
                       /\ worker'[w].invite = i
                 /\ m = NoGuild /\ i # NoGuild =>
                       worker'[w].step = "list" /\ worker'[w].invite = i
                 /\ m = NoGuild /\ i = NoGuild => worker'[w] = Free
<1>1. PICK m \in PickFrom(toFetchMembers), i \in PickFrom(toFetchInvites) :
        /\ toFetchMembers' = toFetchMembers \ {m}
        /\ toFetchInvites' = toFetchInvites \ {i}
        /\ worker' = [worker EXCEPT ![w] =
              IF m # NoGuild      THEN [step |-> "send", member |-> m, invite |-> i]
              ELSE IF i # NoGuild THEN [step |-> "list", member |-> m, invite |-> i]
              ELSE Free]
  BY DEF PickGuilds
<1>2. /\ m \in GuildID /\ i \in GuildID
      /\ m # NoGuild => m \in toFetchMembers
  BY GuildFetchAssumption DEF TypeOK, PickFrom, GuildID
<1>3. \A v \in Workers \ {w} : worker'[v] = worker[v]
  BY <1>1 DEF TypeOK
<1>4. worker'[w] = IF m # NoGuild      THEN [step |-> "send", member |-> m, invite |-> i]
                   ELSE IF i # NoGuild THEN [step |-> "list", member |-> m, invite |-> i]
                   ELSE Free
  BY <1>1 DEF TypeOK
<1>5. /\ m # NoGuild =>
            /\ worker'[w].step = "send"
            /\ worker'[w].member = m
            /\ worker'[w].invite = i
      /\ m = NoGuild /\ i # NoGuild => worker'[w].step = "list" /\ worker'[w].invite = i
      /\ m = NoGuild /\ i = NoGuild => worker'[w] = Free
  BY <1>4
<1> QED
  BY <1>1, <1>2, <1>3, <1>5 DEF PickGuilds

LEMMA ToInvitesFacts ==
    ASSUME TypeOK, NEW w \in Workers, ToInvites(w)
    PROVE  /\ \A v \in Workers \ {w} : worker'[v] = worker[v]
           /\ worker[w].invite = NoGuild => worker'[w] = Free
           /\ worker[w].invite # NoGuild =>
                 worker'[w].step = "list" /\ worker'[w].invite = worker[w].invite
<1>1. worker[w] \in Fetch
  BY DEF TypeOK
<1>2. worker'[w] = IF worker[w].invite = NoGuild THEN Free ELSE [worker[w] EXCEPT !.step = "list"]
  BY DEF TypeOK, ToInvites
<1> QED
  BY <1>1, <1>2, FetchFacts DEF TypeOK, ToInvites

LEMMA ListFacts ==
    ASSUME TypeOK, NEW w \in Workers, ListInvites(w)
    PROVE  /\ \A v \in Workers \ {w} : worker'[v] = worker[v]
           /\ worker'[w].step = "store" /\ worker'[w].invite = worker[w].invite
<1>1. worker[w] \in Fetch
  BY DEF TypeOK
<1>2. worker'[w] = [worker[w] EXCEPT !.step = "store"]
  BY DEF TypeOK, ListInvites
<1> QED
  BY <1>1, <1>2, FetchFacts DEF TypeOK, ListInvites

\* The goroutine ends.
LEMMA FreeFacts ==
    ASSUME TypeOK, NEW w \in Workers, worker' = [worker EXCEPT ![w] = Free]
    PROVE  (\A v \in Workers \ {w} : worker'[v] = worker[v]) /\ worker'[w].step = "free"
BY DEF TypeOK, Free

\* No fault is uncounted.
LEMMA FaultsGrow ==
    ASSUME TypeOK, [Next]_vars
    PROVE  \A k \in FaultKinds : faults[k] \in Nat /\ faults'[k] \in Nat /\ faults[k] <= faults'[k]
<1>1. \A k \in FaultKinds : faults[k] \in Nat
  BY DEF TypeOK
<1>2. CASE UNCHANGED faults
  BY <1>1, <1>2
<1>3. ASSUME NEW kind \in FaultKinds, Fault(kind)
      PROVE  \A k \in FaultKinds : faults'[k] \in Nat /\ faults[k] <= faults'[k]
  BY <1>1, <1>3, FaultFacts
<1>4. UNCHANGED faults \/ \E kind \in FaultKinds : Fault(kind)
  BY DEF Next, vars, Ready, Reconnect, Restart, GuildCreate, GuildCreateFails, QueueGuild,
         ChunkArrives, MarkCached, MarkCachedFails, StoreChunk, StoreChunkFails, PickGuilds,
         RequestMembers, RequestFails, ListInvites, ListRefused, ListFails, StoreInvites,
         StoreInvitesFails, FaultKinds
<1> QED
  BY <1>1, <1>2, <1>3, <1>4

\* While there is none of some faults there was none before.
LEMMA UndisturbedFacts ==
    ASSUME TypeOK, [Next]_vars
    PROVE  /\ faults'["redis"] + faults'["restart"] = 0 =>
                 /\ faults["redis"] = 0 /\ faults["restart"] = 0
                 /\ faults'["redis"] = 0 /\ faults'["restart"] = 0
           /\ faults'["redis"] + faults'["rest"] + faults'["restart"] = 0 =>
                 /\ faults["redis"] = 0 /\ faults["rest"] = 0 /\ faults["restart"] = 0
                 /\ faults'["redis"] = 0 /\ faults'["rest"] = 0 /\ faults'["restart"] = 0
<1>1. /\ faults["redis"] \in Nat /\ faults'["redis"] \in Nat /\ faults["redis"] <= faults'["redis"]
      /\ faults["rest"] \in Nat /\ faults'["rest"] \in Nat /\ faults["rest"] <= faults'["rest"]
      /\ faults["restart"] \in Nat /\ faults'["restart"] \in Nat
      /\ faults["restart"] <= faults'["restart"]
  BY FaultsGrow DEF FaultKinds
<1> DEFINE a == faults'["redis"]    x == faults["redis"]
           b == faults'["rest"]     y == faults["rest"]
           c == faults'["restart"]  z == faults["restart"]
<1>2. a \in Nat /\ b \in Nat /\ c \in Nat /\ x \in Nat /\ y \in Nat /\ z \in Nat
      /\ x <= a /\ y <= b /\ z <= c
  BY <1>1
<1> HIDE DEF a, b, c, x, y, z
<1>3. /\ a + c = 0 => a = 0 /\ c = 0 /\ x = 0 /\ z = 0
      /\ a + b + c = 0 => a = 0 /\ b = 0 /\ c = 0 /\ x = 0 /\ y = 0 /\ z = 0
  BY <1>2
<1> QED
  BY <1>3 DEF a, b, c, x, y, z

\* A goroutine is only ever sent for a guild.
LEMMA WorkersStep == IInv /\ [Next]_vars => WorkersHaveGuilds'
<1> SUFFICES ASSUME IInv, [Next]_vars PROVE WorkersHaveGuilds'
  OBVIOUS
<1>0. TypeOK /\ WorkersHaveGuilds
  BY DEF IInv
<1>1. ASSUME NEW w \in Workers, \A v \in Workers \ {w} : worker'[v] = worker[v],
             worker'[w].step = "send" => worker'[w].member # NoGuild,
             worker'[w].step \in {"list", "store"} => worker'[w].invite # NoGuild
      PROVE  WorkersHaveGuilds'
  BY <1>0, <1>1 DEF WorkersHaveGuilds
<1>2. CASE UNCHANGED worker
  BY <1>0, <1>2 DEF WorkersHaveGuilds
<1>3. CASE Restart
  BY <1>3 DEF Restart, NoWork, Free, WorkersHaveGuilds
<1>4. ASSUME NEW w \in Workers, PickGuilds(w) PROVE WorkersHaveGuilds'
  BY <1>0, <1>1, <1>4, PickFacts DEF Free
<1>5. ASSUME NEW w \in Workers, RequestMembers(w) \/ RequestFails(w) PROVE WorkersHaveGuilds'
  BY <1>0, <1>1, <1>5, ToInvitesFacts DEF Free, RequestMembers, RequestFails
<1>6. ASSUME NEW w \in Workers, ListInvites(w) PROVE WorkersHaveGuilds'
  <2>1. worker[w].invite # NoGuild
    BY <1>0, <1>6 DEF WorkersHaveGuilds, ListInvites
  <2> QED
    BY <1>0, <1>1, <1>6, <2>1, ListFacts
<1>7. ASSUME NEW w \in Workers,
             ListRefused(w) \/ ListFails(w) \/ StoreInvites(w) \/ StoreInvitesFails(w)
      PROVE WorkersHaveGuilds'
  BY <1>0, <1>1, <1>7, FreeFacts DEF ListRefused, ListFails, StoreInvites, StoreInvitesFails
<1> QED
  BY <1>2, <1>3, <1>4, <1>5, <1>6, <1>7
     DEF Next, vars, Ready, Reconnect, GuildCreate, GuildCreateFails, QueueGuild, ChunkArrives,
         MarkCached, MarkCachedFails, StoreChunk, StoreChunkFails

-----------------------------------------------------------------------------
\* Invites that a goroutine or the queue has stay there until they are stored.
LEMMA InvitesKept ==
    ASSUME IInv, [Next]_vars,
           faults'["redis"] = 0, faults'["rest"] + faults'["restart"] = 0,
           NEW g \in setting.guilds, g \notin Hidden, InvitesQueued(g)
    PROVE  g \in invites' \/ InvitesQueued(g)'
<1>0. TypeOK /\ TypeOK' /\ g \in Guilds /\ g # NoGuild
  BY TypeStep, SettingFacts, GuildFetchAssumption DEF IInv
<1>1. /\ ~Fault("redis") /\ ~Fault("rest") /\ ~Fault("restart")
  BY <1>0, FaultFacts DEF TypeOK, FaultKinds
<1>2. CASE toFetchInvites \subseteq toFetchInvites' /\ UNCHANGED worker
  BY <1>2 DEF InvitesQueued
<1>3. ASSUME NEW w \in Workers, PickGuilds(w) PROVE InvitesQueued(g)'
  <2>1. PICK m \in GuildID, i \in GuildID :
             /\ toFetchInvites' = toFetchInvites \ {i}
             /\ i # NoGuild => worker'[w].step # "free" /\ worker'[w].invite = i
    BY <1>0, <1>3, PickFacts
  <2>2. CASE g \in toFetchInvites
    BY <1>0, <2>1, <2>2 DEF InvitesQueued
  <2>3. CASE g \notin toFetchInvites
    BY <1>0, <1>3, <2>3, PickFacts DEF InvitesQueued
  <2> QED
    BY <2>2, <2>3
<1>4. ASSUME NEW w \in Workers, RequestMembers(w) \/ RequestFails(w) PROVE InvitesQueued(g)'
  BY <1>0, <1>4, ToInvitesFacts DEF InvitesQueued, RequestMembers, RequestFails, queues
<1>5. ASSUME NEW w \in Workers, ListInvites(w) PROVE InvitesQueued(g)'
  BY <1>0, <1>5, ListFacts DEF InvitesQueued, ListInvites, queues
<1>6. ASSUME NEW w \in Workers, ListRefused(w) \/ StoreInvites(w)
      PROVE  g \in invites' \/ InvitesQueued(g)'
  <2>1. /\ \A v \in Workers \ {w} : worker'[v] = worker[v]
        /\ UNCHANGED toFetchInvites
    BY <1>0, <1>6, FreeFacts DEF ListRefused, StoreInvites, queues
  <2>2. worker[w].invite = g => g \in invites'
    BY <1>6 DEF ListRefused, StoreInvites
  <2> QED
    BY <2>1, <2>2 DEF InvitesQueued
<1> QED
  BY <1>1, <1>2, <1>3, <1>4, <1>5, <1>6
     DEF Next, vars, queues, Ready, Reconnect, Restart, GuildCreate, GuildCreateFails, QueueGuild,
         ChunkArrives, MarkCached, MarkCachedFails, StoreChunk, StoreChunkFails, ListFails,
         StoreInvitesFails

\* Members on their way stay so until their guild is marked.
LEMMA MembersKept ==
    ASSUME IInv, [Next]_vars, faults'["redis"] = 0,
           NEW g \in setting.guilds, g \in cached \/ MembersUnderway(g)
    PROVE  g \in cached' \/ MembersUnderway(g)'
<1>0. TypeOK /\ TypeOK' /\ g \in Guilds /\ g # NoGuild
  BY TypeStep, SettingFacts, GuildFetchAssumption DEF IInv
<1>1. ~Fault("redis")
  BY <1>0, FaultFacts DEF TypeOK, FaultKinds
<1>2. cached \subseteq cached'
  BY <1>1 DEF Next, vars, redis, Ready, Reconnect, Restart, GuildCreate, GuildCreateFails,
         QueueGuild, ChunkArrives, MarkCached, MarkCachedFails, StoreChunk, StoreChunkFails,
         PickGuilds, RequestMembers, RequestFails, ListInvites, ListRefused, ListFails,
         StoreInvites, StoreInvitesFails
<1> SUFFICES ASSUME MembersUnderway(g) PROVE g \in cached' \/ MembersUnderway(g)'
  BY <1>2
<1> USE DEF queues, chunkHandlers, redis
<1>3. CASE Ready \/ UNCHANGED vars
  BY <1>3 DEF Ready, vars, MembersUnderway
<1>4. CASE Reconnect \/ Restart
  BY <1>4 DEF Reconnect, Restart, MembersUnderway
<1>5. ASSUME NEW h \in Guilds, GuildCreate(h) PROVE g \in cached' \/ MembersUnderway(g)'
  BY <1>5 DEF GuildCreate, MembersUnderway
<1>6. ASSUME NEW h \in Guilds, QueueGuild(h) PROVE MembersUnderway(g)'
  BY <1>6 DEF QueueGuild, MembersUnderway
<1>7. ASSUME NEW h \in Guilds, ChunkArrives(h) PROVE MembersUnderway(g)'
  <2>1. Contains(wire[g], Chunks) => Contains(wire'[g], Chunks) \/ Chunks \in handling'[g]
    <3>1. CASE h = g
      <4>1. /\ wire'[g] = Tail(wire[g])
            /\ handling'[g] = handling[g] \cup {Head(wire[g])}
            /\ wire[g] \in Seq(Chunk) /\ wire[g] # <<>>
        BY <1>0, <1>7, <3>1 DEF ChunkArrives, TypeOK
      <4> QED
        BY <4>1, WireFacts DEF Contains
    <3>2. CASE h # g
      BY <1>0, <1>7, <3>2 DEF ChunkArrives, TypeOK
    <3> QED
      BY <3>1, <3>2
  <2>2. handling[g] \subseteq handling'[g]
    BY <1>0, <1>7 DEF ChunkArrives, TypeOK
  <2> QED
    BY <1>7, <2>1, <2>2 DEF ChunkArrives, MembersUnderway
<1>8. ASSUME NEW h \in Guilds, NEW c \in Chunk, StoreChunk(h, c) PROVE MembersUnderway(g)'
  <2>1. Chunks \in handling[g] => Chunks \in handling'[g] \/ g \in marking'
    BY <1>0, <1>8 DEF StoreChunk, TypeOK
  <2> QED
    BY <1>8, <2>1 DEF StoreChunk, MembersUnderway
<1>9. ASSUME NEW h \in Guilds, MarkCached(h) PROVE g \in cached' \/ MembersUnderway(g)'
  BY <1>9 DEF MarkCached, MembersUnderway
<1>10. ASSUME NEW w \in Workers, PickGuilds(w) PROVE MembersUnderway(g)'
  <2>1. PICK m \in GuildID :
             /\ toFetchMembers' = toFetchMembers \ {m}
             /\ m # NoGuild => worker'[w].step = "send" /\ worker'[w].member = m
    BY <1>0, <1>10, PickFacts
  <2>2. /\ \A v \in Workers : worker[v].step = "send" => worker'[v] = worker[v]
        /\ UNCHANGED <<pending, creating, chunkHandlers>>
    BY <1>0, <1>10, PickFacts DEF PickGuilds
  <2> QED
    BY <1>0, <2>1, <2>2 DEF MembersUnderway
<1>11. ASSUME NEW w \in Workers, RequestMembers(w) PROVE MembersUnderway(g)'
  <2>1. /\ \A v \in Workers \ {w} : worker'[v] = worker[v]
        /\ UNCHANGED <<pending, creating, toFetchMembers, handling, marking>>
    BY <1>0, <1>11, ToInvitesFacts DEF RequestMembers
  <2>2. ASSUME Contains(wire[g], Chunks) \/ worker[w].member = g
        PROVE  Contains(wire'[g], Chunks)
    <3>1. CASE worker[w].member = g
      <4>1. wire'[g] = wire[g] \o [c \in Chunk |-> c] /\ wire[g] \in Seq(Chunk) /\ Chunks \in Chunk
        BY <1>0, <1>11, <3>1, GuildFetchAssumption DEF RequestMembers, TypeOK, Chunk
      <4>2. wire'[g][Len(wire[g]) + Chunks] = Chunks /\ Len(wire'[g]) = Len(wire[g]) + Chunks
        BY <4>1, RequestFacts
      <4>3. Len(wire[g]) + Chunks \in 1..Len(wire'[g])
        BY <4>1, <4>2, GuildFetchAssumption
      <4> QED
        BY <4>2, <4>3 DEF Contains
    <3>2. CASE worker[w].member # g
      BY <1>0, <1>11, <2>2, <3>2 DEF RequestMembers, TypeOK
    <3> QED
      BY <3>1, <3>2
  <2> QED
    BY <2>1, <2>2 DEF MembersUnderway
<1>12. ASSUME NEW w \in Workers, RequestFails(w) PROVE MembersUnderway(g)'
  BY <1>0, <1>12, ToInvitesFacts DEF RequestFails, MembersUnderway
<1>13. ASSUME NEW w \in Workers, ListInvites(w) \/ ListRefused(w) \/ ListFails(w) \/ StoreInvites(w)
       PROVE MembersUnderway(g)'
  <2>1. /\ worker[w].step # "send"
        /\ \A v \in Workers \ {w} : worker'[v] = worker[v]
        /\ UNCHANGED <<pending, creating, toFetchMembers, chunkHandlers>>
    BY <1>0, <1>13, ListFacts, FreeFacts DEF ListInvites, ListRefused, ListFails, StoreInvites
  <2> QED
    BY <2>1 DEF MembersUnderway
<1> QED
  BY <1>1, <1>3, <1>4, <1>5, <1>6, <1>7, <1>8, <1>9, <1>10, <1>11, <1>12, <1>13
     DEF Next, GuildCreateFails, MarkCachedFails, StoreChunkFails, StoreInvitesFails

\* No guild is forgotten: invites may only be left alone by a second handler,
\* that of a cached guild, whose invites follow its members.
LEMMA NeverForgottenStep == IInv /\ [Next]_vars => NeverForgotten'
<1> SUFFICES ASSUME IInv, [Next]_vars, faults'["redis"] = 0, NEW g \in setting'.guilds
             PROVE  /\ g \in cached' \/ MembersUnderway(g)'
                    /\ faults'["rest"] + faults'["restart"] = 0 /\ g \notin Hidden =>
                          g \in invites' \/ InvitesUnderway(g)'
  BY DEF NeverForgotten
<1>0. TypeOK /\ TypeOK' /\ faults["redis"] = 0
  BY TypeStep, FaultsGrow DEF IInv, FaultKinds
<1>1. setting' = setting /\ g \in Guilds
  BY <1>0, SettingFacts
     DEF Next, vars, Ready, Reconnect, Restart, GuildCreate, GuildCreateFails, QueueGuild,
         ChunkArrives, MarkCached, MarkCachedFails, StoreChunk, StoreChunkFails, PickGuilds,
         RequestMembers, RequestFails, ListInvites, ListRefused, ListFails, StoreInvites,
         StoreInvitesFails
<1>2. g \in cached' \/ MembersUnderway(g)'
  BY <1>0, <1>1, MembersKept DEF IInv, NeverForgotten
<1>3. ASSUME faults'["rest"] + faults'["restart"] = 0, g \notin Hidden
      PROVE  g \in invites' \/ InvitesUnderway(g)'
  <2>1. faults["rest"] + faults["restart"] = 0 /\ faults["redis"] + faults["rest"] + faults["restart"] = 0
    BY <1>0, <1>3, FaultsGrow DEF FaultKinds
  <2>2. g \in invites \/ InvitesUnderway(g)
    BY <1>0, <1>1, <1>3, <2>1 DEF IInv, NeverForgotten
  <2>3. g \in invites => g \in invites'
    BY DEF Next, vars, redis, Ready, Reconnect, Restart, GuildCreate, GuildCreateFails, QueueGuild,
         ChunkArrives, MarkCached, MarkCachedFails, StoreChunk, StoreChunkFails, PickGuilds,
         RequestMembers, RequestFails, ListInvites, ListRefused, ListFails, StoreInvites,
         StoreInvitesFails
  <2>4. InvitesQueued(g) => g \in invites' \/ InvitesQueued(g)'
    BY <1>1, <1>3, InvitesKept
  <2>5. CASE g \in pending \cup creating
    <3>1. ~Fault("redis") /\ ~Fault("restart")
      BY <1>0, <1>3, FaultFacts DEF TypeOK, FaultKinds
    <3>2. CASE \E h \in Guilds : GuildCreate(h)
      <4>1. PICK h \in Guilds : GuildCreate(h)
        BY <3>2
      <4>2. CASE g = h /\ g \in cached
        <5>1. g \in invites \/ InvitesQueued(g)
          BY <1>1, <1>3, <2>1, <4>2 DEF IInv, InvitesFollow, MembersQueued
        <5> QED
          BY <2>3, <2>4, <5>1 DEF InvitesUnderway
      <4> QED
        BY <2>5, <4>1, <4>2 DEF GuildCreate, InvitesUnderway
    <3>3. CASE \E h \in Guilds : QueueGuild(h)
      BY <2>5, <3>3 DEF QueueGuild, InvitesUnderway, InvitesQueued
    <3>4. CASE Reconnect
      BY <1>1, <3>4 DEF Reconnect, InvitesUnderway
    <3>5. CASE UNCHANGED <<pending, creating>>
      BY <2>5, <3>5 DEF InvitesUnderway
    <3> QED
      BY <3>1, <3>2, <3>3, <3>4, <3>5
         DEF Next, vars, Ready, Restart, GuildCreateFails, ChunkArrives, MarkCached,
             MarkCachedFails, StoreChunk, StoreChunkFails, PickGuilds, RequestMembers,
             RequestFails, ListInvites, ListRefused, ListFails, StoreInvites, StoreInvitesFails
  <2> QED
    BY <2>2, <2>3, <2>4, <2>5 DEF InvitesUnderway
<1> QED
  BY <1>2, <1>3

\* A guild enters the queues for members and for invites together.
LEMMA InvitesFollowStep == IInv /\ [Next]_vars => InvitesFollow'
<1> SUFFICES ASSUME IInv, [Next]_vars,
                    faults'["redis"] + faults'["rest"] + faults'["restart"] = 0,
                    NEW g \in setting'.guilds \ Hidden, MembersQueued(g)'
             PROVE  g \in invites' \/ InvitesQueued(g)'
  BY DEF InvitesFollow
<1>0. /\ TypeOK /\ TypeOK'
      /\ faults["redis"] = 0 /\ faults["rest"] = 0 /\ faults["restart"] = 0
      /\ faults'["redis"] = 0 /\ faults'["rest"] = 0 /\ faults'["restart"] = 0
  BY TypeStep, UndisturbedFacts DEF IInv
<1>1. setting' = setting /\ g \in Guilds /\ (g \in invites => g \in invites')
  BY <1>0, SettingFacts
     DEF Next, vars, redis, Ready, Reconnect, Restart, GuildCreate, GuildCreateFails, QueueGuild,
         ChunkArrives, MarkCached, MarkCachedFails, StoreChunk, StoreChunkFails, PickGuilds,
         RequestMembers, RequestFails, ListInvites, ListRefused, ListFails, StoreInvites,
         StoreInvitesFails
<1>2. ASSUME MembersQueued(g) PROVE g \in invites' \/ InvitesQueued(g)'
  <2>1. g \in invites \/ InvitesQueued(g)
    BY <1>0, <1>1, <1>2, 0 + 0 = 0 DEF IInv, InvitesFollow
  <2> QED
    BY <1>0, <1>1, <2>1, InvitesKept, 0 + 0 = 0
<1>3. /\ ~Fault("redis") /\ ~Fault("rest") /\ ~Fault("restart")
  BY <1>0, FaultFacts DEF TypeOK, FaultKinds
<1> USE DEF queues, chunkHandlers, redis
<1>4. CASE Reconnect
  <2>1. wire'[g] = <<>>
    BY <1>1, <1>4 DEF Reconnect, NoWire
  <2> QED
    BY <1>2, <1>4, <2>1 DEF Reconnect, MembersQueued
<1>5. ASSUME NEW h \in Guilds, QueueGuild(h) PROVE g \in invites' \/ InvitesQueued(g)'
  <2>1. g # h /\ MembersQueued(g)' => MembersQueued(g)
    BY <1>5 DEF QueueGuild, MembersQueued
  <2> QED
    BY <1>2, <1>5, <2>1 DEF QueueGuild, InvitesQueued
<1>6. ASSUME NEW h \in Guilds, ChunkArrives(h) PROVE MembersQueued(g)
  <2>1. /\ wire'[g] # <<>> => wire[g] # <<>>
        /\ handling'[g] # handling[g] => wire[g] # <<>>
    BY <1>0, <1>1, <1>6 DEF ChunkArrives, TypeOK
  <2> QED
    BY <1>6, <2>1 DEF ChunkArrives, MembersQueued
<1>7. ASSUME NEW h \in Guilds, NEW c \in Chunk, StoreChunk(h, c) PROVE MembersQueued(g)
  <2>1. (handling'[g] # {} => handling[g] # {}) /\ (g \in marking' => g \in marking \/ handling[g] # {})
    BY <1>0, <1>1, <1>7 DEF StoreChunk, TypeOK
  <2> QED
    BY <1>7, <2>1 DEF StoreChunk, MembersQueued
<1>8. ASSUME NEW h \in Guilds, MarkCached(h) PROVE MembersQueued(g)
  BY <1>8 DEF MarkCached, MembersQueued
<1>9. ASSUME NEW w \in Workers, PickGuilds(w) PROVE MembersQueued(g)
  <2>1. /\ toFetchMembers' \subseteq toFetchMembers
        /\ \A v \in Workers \ {w} : worker'[v] = worker[v]
        /\ worker'[w].step = "send" => worker'[w].member \in toFetchMembers
    <3>1. PICK m \in GuildID, i \in GuildID :
             /\ toFetchMembers' = toFetchMembers \ {m}
             /\ m # NoGuild => m \in toFetchMembers /\ worker'[w].member = m
             /\ m = NoGuild /\ i # NoGuild => worker'[w].step = "list"
             /\ m = NoGuild /\ i = NoGuild => worker'[w] = Free
      BY <1>0, <1>9, PickFacts
    <3> QED
      BY <1>0, <1>9, <3>1, PickFacts DEF Free
  <2> QED
    BY <1>9, <2>1 DEF PickGuilds, MembersQueued
<1>10. ASSUME NEW w \in Workers, RequestMembers(w) PROVE MembersQueued(g)
  <2>1. /\ \A v \in Workers : worker'[v].step = "send" => worker'[v] = worker[v]
        /\ UNCHANGED <<toFetchMembers, handling, marking, cached>>
    BY <1>0, <1>10, ToInvitesFacts DEF RequestMembers, Free
  <2>2. wire'[g] # wire[g] => worker[w].member = g
    BY <1>0, <1>1, <1>10 DEF RequestMembers, TypeOK
  <2> QED
    BY <1>10, <2>1, <2>2 DEF RequestMembers, MembersQueued
<1>11. ASSUME NEW w \in Workers, RequestFails(w) PROVE MembersQueued(g)
  <2>1. /\ \A v \in Workers : worker'[v].step = "send" => worker'[v] = worker[v]
    BY <1>0, <1>11, ToInvitesFacts DEF RequestFails, Free
  <2> QED
    BY <1>11, <2>1 DEF RequestFails, MembersQueued
<1>12. ASSUME NEW w \in Workers, ListInvites(w) \/ ListRefused(w) \/ StoreInvites(w)
       PROVE MembersQueued(g)
  <2>1. /\ worker'[w].step # "send"
        /\ \A v \in Workers \ {w} : worker'[v] = worker[v]
        /\ UNCHANGED <<toFetchMembers, chunkHandlers, cached>>
    BY <1>0, <1>12, ListFacts, FreeFacts DEF ListInvites, ListRefused, StoreInvites
  <2> QED
    BY <2>1 DEF MembersQueued
<1>13. CASE UNCHANGED <<toFetchMembers, worker, chunkHandlers, cached>>
  BY <1>2, <1>13 DEF MembersQueued
<1> QED
  BY <1>2, <1>3, <1>4, <1>5, <1>6, <1>7, <1>8, <1>9, <1>10, <1>11, <1>12, <1>13
     DEF Next, vars, Ready, Restart, GuildCreate, GuildCreateFails, MarkCachedFails,
         StoreChunkFails, ListFails, StoreInvitesFails

-----------------------------------------------------------------------------
\* The arrival of a chunk keeps their order; so does a request's answer.
LEMMA ArrivalInOrder ==
    ASSUME NEW w \in Seq(Chunk), w # <<>>, NEW stored, NEW m \in BOOLEAN, InOrder(w, stored, m)
    PROVE  InOrder(Tail(w), stored \cup {Head(w)}, m \/ Head(w) = Chunks)
<1> DEFINE t == Tail(w)
<1>1. /\ DOMAIN w = 1..Len(w) /\ DOMAIN t = 1..Len(t) /\ Len(t) = Len(w) - 1 /\ Len(w) \in Nat
      /\ Head(w) = w[1] /\ \A i \in 1..Len(t) : t[i] = w[i + 1]
  BY WireFacts
<1>2. ASSUME NEW p \in DOMAIN t, t[p] = Chunks, NEW c \in Chunk, c \notin stored \cup {Head(w)}
      PROVE  \E q \in 1..p : t[q] = c
  <2>1. p \in 1..Len(t) /\ p + 1 \in DOMAIN w /\ w[p + 1] = Chunks
    BY <1>1, <1>2
  <2>2. PICK q \in 1..(p + 1) : w[q] = c
    BY <1>2, <2>1 DEF InOrder
  <2>3. q # 1
    BY <1>1, <1>2, <2>2
  <2>4. q - 1 \in 1..p /\ q - 1 \in 1..Len(t) /\ (q - 1) + 1 = q
    BY <1>1, <2>1, <2>2, <2>3
  <2>5. t[q - 1] = c
    BY <1>1, <2>2, <2>4
  <2> QED
    BY <2>4, <2>5
<1>3. ASSUME m \/ Head(w) = Chunks PROVE Chunk \subseteq stored \cup {Head(w)}
  <2>1. CASE m
    BY <2>1 DEF InOrder
  <2>2. CASE Head(w) = Chunks
    <3>1. 1 \in DOMAIN w /\ w[1] = Chunks
      BY <1>1, <2>2
    <3>2. \A c \in Chunk : c \in stored \/ \E q \in 1..1 : w[q] = c
      BY <3>1 DEF InOrder
    <3> QED
      BY <1>1, <3>2
  <2> QED
    BY <1>3, <2>1, <2>2
<1> QED
  BY <1>2, <1>3 DEF InOrder

LEMMA RequestInOrder ==
    ASSUME NEW w \in Seq(Chunk), NEW stored, NEW m, InOrder(w, stored, m)
    PROVE  InOrder(w \o [c \in Chunk |-> c], stored, m)
<1> DEFINE r == w \o [c \in Chunk |-> c]
<1>1. /\ r \in Seq(Chunk) /\ DOMAIN r = 1..Len(r) /\ DOMAIN w = 1..Len(w)
      /\ Len(r) = Len(w) + Chunks /\ Len(w) \in Nat
      /\ \A i \in 1..Len(w) : r[i] = w[i]
      /\ \A c \in Chunk : r[Len(w) + c] = c
  BY RequestFacts
<1>2. ASSUME NEW p \in DOMAIN r, r[p] = Chunks, NEW c \in Chunk, c \notin stored
      PROVE  \E q \in 1..p : r[q] = c
  <2>1. CASE p \in 1..Len(w)
    <3>1. PICK q \in 1..p : w[q] = c
      BY <1>1, <1>2, <2>1 DEF InOrder
    <3>2. q \in 1..Len(w)
      BY <1>1, <2>1
    <3> QED
      BY <1>1, <3>1, <3>2
  <2>2. CASE p \notin 1..Len(w)
    <3>1. p = Len(w) + (p - Len(w)) /\ p - Len(w) \in Chunk
      BY <1>1, <2>2, GuildFetchAssumption DEF Chunk
    <3>2. p = Len(w) + Chunks
      <4>1. r[Len(w) + (p - Len(w))] = p - Len(w)
        BY <1>1, <3>1
      <4> QED
        BY <1>1, <1>2, <3>1, <4>1, GuildFetchAssumption
    <3>3. Len(w) + c \in 1..p
      BY <1>1, <3>2, GuildFetchAssumption DEF Chunk
    <3> QED
      BY <1>1, <3>3
  <2> QED
    BY <2>1, <2>2
<1> QED
  BY <1>2 DEF InOrder

LEMMA ChunksFollowStep == IInv /\ [Next]_vars => ChunksFollow'
<1> SUFFICES ASSUME IInv, [Next]_vars, NEW g \in Guilds
             PROVE  /\ g \in marking' => Chunks \in members'[g]
                    /\ faults'["redis"] + faults'["restart"] = 0 =>
                          InOrder(wire'[g], members'[g] \cup handling'[g],
                                  Chunks \in handling'[g] \/ g \in marking')
  BY DEF ChunksFollow
<1>0. TypeOK /\ TypeOK' /\ (g \in marking => Chunks \in members[g])
  BY TypeStep DEF IInv, ChunksFollow
<1> USE DEF queues, chunkHandlers, redis
<1>1. ASSUME NEW h \in Guilds, NEW c \in Chunk, StoreChunk(h, c)
      PROVE  /\ h # g =>
                   /\ handling'[g] = handling[g] /\ members'[g] = members[g]
                   /\ (g \in marking') = (g \in marking)
             /\ h = g =>
                   /\ c \in handling[g]
                   /\ handling'[g] = handling[g] \ {c} /\ members'[g] = members[g] \cup {c}
                   /\ (g \in marking') = (g \in marking \/ c = Chunks)
  BY <1>0, <1>1 DEF StoreChunk, TypeOK
<1>2. g \in marking' => Chunks \in members'[g]
  <2>1. ASSUME NEW h \in Guilds, NEW c \in Chunk, StoreChunk(h, c)
        PROVE  g \in marking' => Chunks \in members'[g]
    <3>1. CASE h = g
      BY <1>0, <1>1, <2>1, <3>1
    <3>2. CASE h # g
      BY <1>0, <1>1, <2>1, <3>2
    <3> QED
      BY <3>1, <3>2
  <2>2. CASE marking' \subseteq marking /\ UNCHANGED members
    BY <1>0, <2>2
  <2> QED
    BY <2>1, <2>2
       DEF Next, vars, Ready, Reconnect, Restart, GuildCreate, GuildCreateFails, QueueGuild,
           ChunkArrives, MarkCached, MarkCachedFails, StoreChunkFails, PickGuilds, RequestMembers,
           RequestFails, ListInvites, ListRefused, ListFails, StoreInvites, StoreInvitesFails
<1>3. ASSUME faults'["redis"] + faults'["restart"] = 0
      PROVE  InOrder(wire'[g], members'[g] \cup handling'[g],
                     Chunks \in handling'[g] \/ g \in marking')
  <2> DEFINE through == Chunks \in handling[g] \/ g \in marking
             through1 == Chunks \in handling'[g] \/ g \in marking'
  <2>0. InOrder(wire[g], members[g] \cup handling[g], through)
    <3>1. faults["redis"] + faults["restart"] = 0
      BY <1>0, <1>3, UndisturbedFacts, 0 + 0 = 0
    <3> QED
      BY <3>1 DEF IInv, ChunksFollow
  <2>1. ~Fault("redis") /\ ~Fault("restart")
    BY <1>0, <1>3, UndisturbedFacts, FaultFacts DEF TypeOK, FaultKinds
  <2>2. CASE UNCHANGED <<wire, members, handling>> /\ (through1 => through)
    BY <2>0, <2>2 DEF InOrder
  <2>3. CASE Reconnect
    <3>1. wire'[g] = <<>> /\ UNCHANGED <<members, handling, marking>>
      BY <2>3 DEF Reconnect, NoWire
    <3> QED
      BY <2>0, <3>1 DEF InOrder
  <2>4. ASSUME NEW h \in Guilds, ChunkArrives(h)
        PROVE  InOrder(wire'[g], members'[g] \cup handling'[g], through1)
    <3>1. wire[h] # <<>> /\ UNCHANGED <<members, marking>>
      BY <2>4 DEF ChunkArrives
    <3>2. CASE h = g
      <4>1. /\ wire'[g] = Tail(wire[g]) /\ handling'[g] = handling[g] \cup {Head(wire[g])}
            /\ wire[g] \in Seq(Chunk)
        BY <1>0, <2>4, <3>2 DEF ChunkArrives, TypeOK
      <4>2. InOrder(Tail(wire[g]), members[g] \cup handling[g] \cup {Head(wire[g])},
                    through \/ Head(wire[g]) = Chunks)
        BY <2>0, <3>1, <3>2, <4>1, ArrivalInOrder
      <4> QED
        BY <3>1, <4>1, <4>2 DEF InOrder
    <3>3. CASE h # g
      <4>1. wire'[g] = wire[g] /\ handling'[g] = handling[g]
        BY <1>0, <2>4, <3>3 DEF ChunkArrives, TypeOK
      <4> QED
        BY <2>0, <3>1, <4>1
    <3> QED
      BY <3>2, <3>3
  <2>5. ASSUME NEW h \in Guilds, NEW c \in Chunk, StoreChunk(h, c)
        PROVE  InOrder(wire'[g], members'[g] \cup handling'[g], through1)
    <3>1. wire' = wire
      BY <2>5 DEF StoreChunk
    <3>2. members'[g] \cup handling'[g] = members[g] \cup handling[g] /\ (through1 => through)
      <4>1. CASE h = g
        BY <1>1, <2>5, <4>1
      <4>2. CASE h # g
        BY <1>1, <2>5, <4>2
      <4> QED
        BY <4>1, <4>2
    <3> QED
      BY <2>0, <3>1, <3>2 DEF InOrder
  <2>6. ASSUME NEW w \in Workers, RequestMembers(w)
        PROVE  InOrder(wire'[g], members'[g] \cup handling'[g], through1)
    <3>1. UNCHANGED <<members, handling, marking>>
      BY <2>6 DEF RequestMembers
    <3>2. wire'[g] = wire[g] \/ wire'[g] = wire[g] \o [c \in Chunk |-> c]
      BY <1>0, <2>6 DEF RequestMembers, TypeOK
    <3>3. wire[g] \in Seq(Chunk)
      BY <1>0 DEF TypeOK
    <3> QED
      BY <2>0, <3>1, <3>2, <3>3, RequestInOrder
  <2> QED
    BY <2>1, <2>2, <2>3, <2>4, <2>5, <2>6
       DEF Next, vars, Ready, Restart, GuildCreate, GuildCreateFails, QueueGuild, MarkCached,
           MarkCachedFails, StoreChunkFails, PickGuilds, RequestFails, ListInvites, ListRefused,
           ListFails, StoreInvites, StoreInvitesFails
<1> QED
  BY <1>2, <1>3

\* Only the handler of a last chunk marks its guild.
LEMMA CachedStep == IInv /\ [Next]_vars => CachedMeansStored'
<1> SUFFICES ASSUME IInv, [Next]_vars, NEW g \in cached'
             PROVE  /\ Chunks \in members'[g]
                    /\ faults'["redis"] + faults'["restart"] = 0 =>
                          Chunk \subseteq members'[g] \cup handling'[g]
  BY DEF CachedMeansStored
<1>0. TypeOK /\ TypeOK' /\ g \in Guilds
  BY TypeStep DEF IInv, TypeOK
<1> USE DEF queues, chunkHandlers, redis
<1>1. /\ Chunks \in members[g]
      /\ faults["redis"] + faults["restart"] = 0 => Chunk \subseteq members[g] \cup handling[g]
  <2>1. g \in cached \/ g \in marking
    BY DEF Next, vars, Ready, Reconnect, Restart, GuildCreate, GuildCreateFails, QueueGuild,
           ChunkArrives, MarkCached, MarkCachedFails, StoreChunk, StoreChunkFails, PickGuilds,
           RequestMembers, RequestFails, ListInvites, ListRefused, ListFails, StoreInvites,
           StoreInvitesFails
  <2> QED
    BY <1>0, <2>1 DEF IInv, CachedMeansStored, ChunksFollow, InOrder
<1>2. members[g] \subseteq members'[g]
  <2>1. ASSUME NEW h \in Guilds, NEW c \in Chunk, StoreChunk(h, c)
        PROVE  members[g] \subseteq members'[g]
    BY <1>0, <2>1 DEF StoreChunk, TypeOK
  <2> QED
    BY <2>1
       DEF Next, vars, Ready, Reconnect, Restart, GuildCreate, GuildCreateFails, QueueGuild,
           ChunkArrives, MarkCached, MarkCachedFails, StoreChunkFails, PickGuilds,
           RequestMembers, RequestFails, ListInvites, ListRefused, ListFails, StoreInvites,
           StoreInvitesFails
<1>3. ASSUME faults'["redis"] + faults'["restart"] = 0
      PROVE  Chunk \subseteq members'[g] \cup handling'[g]
  <2>1. ~Fault("redis") /\ ~Fault("restart")
    BY <1>0, <1>3, UndisturbedFacts, FaultFacts DEF TypeOK, FaultKinds
  <2>2. faults["redis"] + faults["restart"] = 0
    BY <1>0, <1>3, UndisturbedFacts, 0 + 0 = 0
  <2>3. members[g] \cup handling[g] \subseteq members'[g] \cup handling'[g]
    <3>1. ASSUME NEW h \in Guilds, ChunkArrives(h) PROVE handling[g] \subseteq handling'[g]
      BY <1>0, <3>1 DEF ChunkArrives, TypeOK
    <3>2. ASSUME NEW h \in Guilds, NEW c \in Chunk, StoreChunk(h, c)
          PROVE  handling[g] \subseteq members'[g] \cup handling'[g]
      BY <1>0, <3>2 DEF StoreChunk, TypeOK
    <3> QED
      BY <1>2, <2>1, <3>1, <3>2
         DEF Next, vars, Ready, Reconnect, Restart, GuildCreate, GuildCreateFails, QueueGuild,
             MarkCached, MarkCachedFails, StoreChunkFails, PickGuilds, RequestMembers,
             RequestFails, ListInvites, ListRefused, ListFails, StoreInvites, StoreInvitesFails
  <2> QED
    BY <1>1, <2>2, <2>3
<1> QED
  BY <1>1, <1>2, <1>3

-----------------------------------------------------------------------------
\* IInv is an invariant: the handlers, the two queues, the goroutines and the
\* chunks on the wire keep to it.
THEOREM Invariance == Spec => []IInv
<1>1. IInv /\ [Next]_vars => IInv'
  BY TypeStep, WorkersStep, NeverForgottenStep, InvitesFollowStep, ChunksFollowStep, CachedStep
     DEF IInv
<1> QED
  BY InitInvariant, <1>1, PTL DEF Spec

\* While Redis answers, no guild is forgotten between the gateway, the queues,
\* the goroutines and the handlers, however many guilds, goroutines and failed
\* requests there are.
THEOREM NothingForgotten == Spec => []NeverForgotten
<1>1. IInv => NeverForgotten
  BY DEF IInv
<1> QED
  BY Invariance, <1>1, PTL

\* A guild marked as cached has its members, whatever the number of chunks.
THEOREM MarkedHaveMembers == Spec => []CachedMeansStored
<1>1. IInv => CachedMeansStored
  BY DEF IInv
<1> QED
  BY Invariance, <1>1, PTL
=============================================================================
