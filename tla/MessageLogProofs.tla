-------------------------- MODULE MessageLogProofs --------------------------
(***************************************************************************)
(* Proofs about MessageLog: where logs go (LogRouting), the inductive      *)
(* invariant IInv, and from it what becomes of rows, PluralKit data and    *)
(* deletion logs, for any number of messages, proxies, edits and failures, *)
(* any guild's row and any tree of channels.                               *)
(***************************************************************************)
EXTENDS MessageLog, FiniteSetTheorems, SequenceTheorems, WellFoundedInduction, TLAPS

-----------------------------------------------------------------------------
\* Where the handlers look is what Discord's tree has above the channel.
LEMMA PathFacts ==
    ASSUME NEW stored, NEW c \in Channels, RootChannel(stored, c) # NoChannel
    PROVE  LET root == RootChannel(stored, c)
               path == Path(c, root)
           IN  /\ root \in Channels \ Threads /\ root = (IF c \in Threads THEN Parent[c] ELSE c)
               /\ path[1] = c /\ path[2] = root
               /\ \/ Parent[root] = NoChannel /\ DOMAIN path = {1, 2}
                  \/ /\ Parent[root] \in Channels /\ DOMAIN path = {1, 2, 3}
                     /\ path[3] = Parent[root] /\ Parent[Parent[root]] = NoChannel
<1> DEFINE root == RootChannel(stored, c)
<1>1. /\ root \in Channels \ Threads /\ root = (IF c \in Threads THEN Parent[c] ELSE c)
  BY LogRoutingAssumption DEF RootChannel
<1> HIDE DEF root
<1>2. CASE Parent[root] = NoChannel
  <2>1. Path(c, root) = <<c, root>> \o <<>>
    BY <1>2 DEF Path
  <2>2. Path(c, root) = <<c, root>>
    BY <2>1
  <2> QED
    BY <1>1, <1>2, <2>2 DEF root
<1>3. CASE Parent[root] # NoChannel
  <2>1. Path(c, root) = <<c, root>> \o <<Parent[root]>>
    BY <1>3 DEF Path
  <2>3. Parent[root] \in Channels /\ Parent[Parent[root]] = NoChannel
    BY <1>1, <1>3, LogRoutingAssumption
  <2> DEFINE S == {c, root, Parent[root]}
             a == <<c, root>>
             b == <<Parent[root]>>
  <2>2. /\ a \in Seq(S) /\ Len(a) = 2 /\ a[1] = c /\ a[2] = root
        /\ b \in Seq(S) /\ Len(b) = 1 /\ b[1] = Parent[root]
    OBVIOUS
  <2> HIDE DEF a, b
  <2>4. /\ DOMAIN Path(c, root) = {1, 2, 3}
        /\ Path(c, root)[1] = c /\ Path(c, root)[2] = root /\ Path(c, root)[3] = Parent[root]
    BY <2>1, <2>2, ConcatProperties DEF a, b
  <2> QED
    BY <1>1, <2>4, <2>3 DEF root
<1> QED
  BY <1>2, <1>3

LEMMA PathIsWithin ==
    ASSUME NEW stored, NEW c \in Channels, RootChannel(stored, c) # NoChannel
    PROVE  ToSet(Path(c, RootChannel(stored, c))) = Within(c)
<1> DEFINE root == RootChannel(stored, c)
           path == Path(c, root)
<1>1. /\ root \in Channels \ Threads /\ root = (IF c \in Threads THEN Parent[c] ELSE c)
      /\ path[1] = c /\ path[2] = root
      /\ \/ Parent[root] = NoChannel /\ DOMAIN path = {1, 2}
         \/ /\ Parent[root] \in Channels /\ DOMAIN path = {1, 2, 3}
            /\ path[3] = Parent[root] /\ Parent[Parent[root]] = NoChannel
  BY PathFacts
<1>2. ToSet(path) = {path[i] : i \in DOMAIN path}
  BY DEF ToSet
<1> HIDE DEF root, path
<1>3. Within(c) = {c, root, Parent[root]} \ {NoChannel}
  BY <1>1, LogRoutingAssumption DEF Within, Up
<1>4. ToSet(path) = {c, root, Parent[root]} \ {NoChannel}
  BY <1>1, <1>2, LogRoutingAssumption
<1> QED
  BY <1>3, <1>4 DEF root, path

\* Ignored is what nobody wants.
LEMMA IgnoredOrWanted ==
    ASSUME NEW stored, NEW c \in Channels, RootChannel(stored, c) # NoChannel, NEW config, NEW u
    PROVE  Ignored(config, c, RootChannel(stored, c), u) <=> ~Wanted(config, c, u)
BY PathIsWithin DEF Ignored, Wanted

\* The channel of a log is the one that the narrowest redirect names.
LEMMA Routing ==
    ASSUME NEW stored, NEW c \in Channels, RootChannel(stored, c) # NoChannel,
           NEW config, IsGuildConfig(config), NEW event \in Events
    PROVE  LET target == LogChannel(config, event, c, RootChannel(stored, c))
           IN  BelongsIn(config, event, c, target) /\ target \in Channels \cup {NoChannel}
<1> DEFINE root == RootChannel(stored, c)
           path == Path(c, root)
           redirected == {i \in DOMAIN path : path[i] \in DOMAIN config.redirects}
           first == Min(redirected)
           target == LogChannel(config, event, c, root)
<1>1. /\ root \in Channels \ Threads /\ root = (IF c \in Threads THEN Parent[c] ELSE c)
      /\ path[1] = c /\ path[2] = root
      /\ \/ Parent[root] = NoChannel /\ DOMAIN path = {1, 2}
         \/ /\ Parent[root] \in Channels /\ DOMAIN path = {1, 2, 3}
            /\ path[3] = Parent[root] /\ Parent[Parent[root]] = NoChannel
  BY PathFacts
<1>2. target = IF redirected = {} THEN config.log[event] ELSE config.redirects[path[first]]
  BY DEF LogChannel
<1>3. Within(c) = {path[i] : i \in DOMAIN path}
  BY PathIsWithin DEF ToSet
<1> HIDE DEF root, path, target
<1>4. CASE redirected = {}
  <2>1. Within(c) \cap DOMAIN config.redirects = {} /\ target = config.log[event]
    BY <1>2, <1>3, <1>4
  <2> QED
    BY <2>1 DEF BelongsIn, IsGuildConfig, target, root
<1>5. CASE redirected # {}
  <2>1. first \in redirected /\ \A j \in redirected : first <= j
    <3>1. \E i \in redirected : \A j \in redirected : i <= j
      <4>1. redirected \subseteq {1, 2, 3}
        BY <1>1
      <4>2. 1 \in redirected \/ (1 \notin redirected /\ 2 \in redirected)
               \/ (1 \notin redirected /\ 2 \notin redirected /\ 3 \in redirected)
        BY <1>5, <4>1
      <4> HIDE DEF redirected
      <4> QED
        BY <4>1, <4>2
    <3> HIDE DEF redirected
    <3> QED
      BY <3>1 DEF Min
  <2> DEFINE d == path[first]
  <2>2. d \in Within(c) \cap DOMAIN config.redirects /\ target = config.redirects[d]
    BY <1>2, <1>3, <1>5, <2>1
  <2>3. ASSUME NEW other \in Within(c) \cap DOMAIN config.redirects, d \in Within(other)
        PROVE  other = d
    <3>1. PICK j \in redirected : other = path[j]
      BY <1>3, <2>3
    <3>2. first \in {1, 2, 3} /\ j \in {1, 2, 3} /\ first <= j /\ {first, j} \subseteq DOMAIN path
      BY <1>1, <2>1
    <3>3. CASE first = j
      BY <3>1, <3>3
    <3>4. CASE first = 1 /\ j = 2
      <4>1. d = c /\ other = root
        BY <1>1, <3>1, <3>4
      <4> QED
        BY <1>1, <2>3, <4>1, LogRoutingAssumption DEF Within, Up
    <3>5. CASE first \in {1, 2} /\ j = 3
      <4>1. d \in {c, root} /\ other = Parent[root] /\ Parent[root] \in Channels
            /\ Parent[Parent[root]] = NoChannel
        BY <1>1, <3>1, <3>2, <3>5
      <4>2. Within(other) = {other}
        BY <4>1, LogRoutingAssumption DEF Within, Up
      <4> QED
        BY <2>3, <4>2
    <3> HIDE DEF first, redirected
    <3> QED
      BY <3>2, <3>3, <3>4, <3>5
  <2>4. BelongsIn(config, event, c, target)
    <3> HIDE DEF d, first, redirected
    <3> QED
      BY <2>2, <2>3 DEF BelongsIn
  <2>5. target \in Channels \cup {NoChannel}
    BY <2>2 DEF IsGuildConfig
  <2> QED
    BY <2>4, <2>5 DEF target, root
<1> QED
  BY <1>4, <1>5

\* A root that is known stays so: channels only come.
LEMMA RootStays ==
    ASSUME NEW known1, NEW known2, known1 \subseteq known2, NEW c, RootChannel(known1, c) # NoChannel
    PROVE  RootChannel(known2, c) = RootChannel(known1, c)
BY DEF RootChannel
-----------------------------------------------------------------------------
LEMMA SceneFacts ==
    ASSUME TypeOK
    PROVE  /\ scene.channel \in Channels
           /\ IsGuildConfig(scene.config)
           /\ scene.config.log \in [Events -> Channels \cup {NoChannel}]
           /\ scene.posted \subseteq Messages
           /\ scene.unlinked \subseteq Proxies
BY MessageLogAssumption DEF TypeOK, IsGuildConfig

LEMMA ProxyFacts ==
    /\ \A t \in Triggers : ProxyOf(t) \in Proxies /\ Original[ProxyOf(t)] = t
    /\ \A p \in Proxies : /\ Original[p] \in Messages \ Proxies /\ Original[p] \in Triggers
                          /\ ProxyOf(Original[p]) = p
<1>1. \A t \in Triggers : ProxyOf(t) \in Proxies /\ Original[ProxyOf(t)] = t
  BY DEF Triggers, ProxyOf
<1>2. \A p \in Proxies : Original[p] \in Messages \ Proxies /\ Original[p] \in Triggers
  BY MessageLogAssumption DEF Triggers
<1> QED
  BY <1>1, <1>2, MessageLogAssumption

LEMMA FailureFacts ==
    ASSUME TypeOK, QueryFails
    PROVE  failures' \in 0..MaxFailures /\ failures' # 0
BY MessageLogAssumption DEF TypeOK, QueryFails

\* The rows that the three queries write.
LEMMA RowFacts ==
    /\ \A m \in Messages, c \in Edits \cup {Created} :
          LET new == [content |-> c, user |-> Author[m], original |-> NoMessage]
          IN  new \in Message /\ new.user = Author[m] /\ new.original = NoMessage
    /\ \A r \in Message, c \in Edits \cup {Created} :
          LET new == [r EXCEPT !.content = c]
          IN  new \in Message /\ new.user = r.user /\ new.original = r.original
    /\ \A r \in Message, p \in Proxies :
          LET new == [r EXCEPT !.original = Original[p], !.user = Author[Original[p]]]
          IN  new \in Message /\ new.user = Author[Original[p]] /\ new.original = Original[p]
<1>1. \A m \in Messages : Author[m] \in Users
  BY MessageLogAssumption
<1>2. \A p \in Proxies : Original[p] \in Messages /\ Author[Original[p]] \in Users
  BY MessageLogAssumption
<1>3. ASSUME NEW m \in Messages, NEW c \in Edits \cup {Created}
      PROVE  LET new == [content |-> c, user |-> Author[m], original |-> NoMessage]
             IN  new \in Message /\ new.user = Author[m] /\ new.original = NoMessage
  BY <1>1 DEF Message
<1>4. ASSUME NEW r \in Message, NEW c \in Edits \cup {Created}
      PROVE  LET new == [r EXCEPT !.content = c]
             IN  new \in Message /\ new.user = r.user /\ new.original = r.original
  BY DEF Message
<1>5. ASSUME NEW r \in Message, NEW p \in Proxies
      PROVE  LET new == [r EXCEPT !.original = Original[p], !.user = Author[Original[p]]]
             IN  new \in Message /\ new.user = Author[Original[p]] /\ new.original = Original[p]
  BY <1>2 DEF Message
<1> QED
  BY <1>3, <1>4, <1>5

\* InsertMessage: the row is there, and its PluralKit data stay.
LEMMA InsertFacts ==
    ASSUME TypeOK, NEW m \in Messages, NEW c \in Edits \cup {Created}, InsertMessage(m, c)
    PROVE  /\ row' \in [Messages -> Message \cup {NoRow}]
           /\ \A n \in Messages \ {m} : row'[n] = row[n]
           /\ row'[m] \in Message
           /\ IF row[m] = NoRow
              THEN row'[m].user = Author[m] /\ row'[m].original = NoMessage
              ELSE row'[m].user = row[m].user /\ row'[m].original = row[m].original
<1>0. row \in [Messages -> Message \cup {NoRow}]
  BY DEF TypeOK
<1>1. CASE row[m] = NoRow
  <2> DEFINE new == [content |-> c, user |-> Author[m], original |-> NoMessage]
  <2>1. row' = [row EXCEPT ![m] = new]
    BY <1>1 DEF InsertMessage
  <2>2. new \in Message /\ new.user = Author[m] /\ new.original = NoMessage
    BY RowFacts
  <2> HIDE DEF new
  <2> QED
    BY <1>0, <1>1, <2>1, <2>2
<1>2. CASE row[m] # NoRow
  <2> DEFINE new == [row[m] EXCEPT !.content = c]
  <2>1. row' = [row EXCEPT ![m] = new]
    BY <1>2 DEF InsertMessage
  <2>2. new \in Message /\ new.user = row[m].user /\ new.original = row[m].original
    BY <1>0, <1>2, RowFacts
  <2> HIDE DEF new
  <2> QED
    BY <1>0, <1>2, <2>1, <2>2
<1> QED
  BY <1>1, <1>2

\* UpdatePKInfo: no row is made, and one that is there names the trigger.
LEMMA UpdateFacts ==
    ASSUME TypeOK, NEW p \in Proxies, UpdatePKInfo(p)
    PROVE  /\ row' \in [Messages -> Message \cup {NoRow}]
           /\ \A n \in Messages \ {p} : row'[n] = row[n]
           /\ IF row[p] = NoRow THEN row'[p] = NoRow
              ELSE /\ row'[p] \in Message
                   /\ row'[p].user = Author[Original[p]] /\ row'[p].original = Original[p]
<1>0. row \in [Messages -> Message \cup {NoRow}] /\ p \in Messages
  BY MessageLogAssumption DEF TypeOK
<1>1. CASE row[p] = NoRow
  BY <1>0, <1>1 DEF UpdatePKInfo
<1>2. CASE row[p] # NoRow
  <2> DEFINE new == [row[p] EXCEPT !.original = Original[p], !.user = Author[Original[p]]]
  <2>1. row' = [row EXCEPT ![p] = new]
    BY <1>2 DEF UpdatePKInfo
  <2>2. new \in Message /\ new.user = Author[Original[p]] /\ new.original = Original[p]
    BY <1>0, <1>2, RowFacts
  <2> HIDE DEF new
  <2> QED
    BY <1>0, <1>2, <2>1, <2>2
<1> QED
  BY <1>1, <1>2

LEMMA DeleteFacts ==
    ASSUME TypeOK, NEW m \in Messages, DeleteMessage(m)
    PROVE  /\ row' \in [Messages -> Message \cup {NoRow}]
           /\ \A n \in Messages \ {m} : row'[n] = row[n]
           /\ row'[m] = NoRow
BY DEF TypeOK, DeleteMessage
-----------------------------------------------------------------------------
\* What every step keeps.
LEMMA Keeps ==
    ASSUME TypeOK, [Next]_vars
    PROVE  /\ scene' = scene
           /\ known \subseteq known' /\ known' \subseteq Channels \ Threads
           /\ late \subseteq late'
           /\ failures # 0 => failures' # 0
           /\ failures' \in 0..MaxFailures
<1> USE DEF handlers, sets, logs, context, faults
<1>1. CASE \E m \in Messages : CreateSent(m) \/ CreateFails(m) \/ CreateInserts(m) \/ CreateWakes(m)
  BY <1>1, FailureFacts DEF TypeOK, CreateSent, CreateFails, CreateInserts, CreateWakes
<1>2. CASE \E m \in Messages : \/ DeleteSent(m) \/ DeleteChecks(m) \/ DeleteAsks(m) \/ DeleteAsksInVain(m)
                               \/ DeleteGivesUp(m) \/ DeleteLogs(m)
  BY <1>2, FailureFacts DEF TypeOK, DeleteSent, DeleteChecks, DeleteAsks, DeleteAsksInVain,
     DeleteGivesUp, DeleteLogs
<1>3. CASE \E m \in Messages : DeleteWakes(m)
  BY <1>3 DEF TypeOK, DeleteWakes
<1>4. CASE \E m \in Messages : DeleteSavesProxy(m) \/ DeletePurgesTrigger(m) \/ DeleteRemoves(m)
  BY <1>4, FailureFacts DEF TypeOK, Write, DeleteSavesProxy, DeletePurgesTrigger, DeleteRemoves
<1>5. CASE \E p \in Proxies : \/ AnnouncementSent(p) \/ PkAddsTrigger(p) \/ PkUpdates(p)
                              \/ PkDeletesOriginal(p) \/ PkHandled(p)
  BY <1>5, FailureFacts DEF TypeOK, Write, AnnouncementSent, PkAddsTrigger, PkUpdates,
     PkDeletesOriginal, PkHandled
<1>6. CASE \E c \in NewChannels : ChannelCreated(c)
  BY <1>6, MessageLogAssumption DEF TypeOK, ChannelCreated
<1>7. CASE \E e \in Edits : EditSent(e) \/ EditChecks(e) \/ EditFails(e) \/ EditReads(e) \/ EditInserts(e)
  BY <1>7, FailureFacts DEF TypeOK, Write, EditSent, EditChecks, EditFails, EditReads, EditInserts
<1>8. CASE UNCHANGED vars
  BY <1>8 DEF TypeOK, vars
<1> QED
  BY <1>1, <1>2, <1>3, <1>4, <1>5, <1>6, <1>7, <1>8 DEF Next

\* What a step does to a row.
LEMMA RowChanges ==
    ASSUME TypeOK, TriggersListed, [Next]_vars
    PROVE  /\ row' \in [Messages -> Message \cup {NoRow}]
           /\ \A m \in Messages :
                 \/ row'[m] = row[m]
                 \/ /\ row'[m] = NoRow
                    /\ m \in Triggers \/ (delete[m] = "removing" /\ delete'[m] = "done")
                 \/ /\ row'[m] \in Message
                    /\ create[m] = "inserting" \/ \E e \in Edits : EditOf[e] = m /\ edit[e] = "inserting"
                    /\ IF row[m] = NoRow
                       THEN row'[m].user = Author[m] /\ row'[m].original = NoMessage
                       ELSE row'[m].user = row[m].user /\ row'[m].original = row[m].original
                 \/ /\ m \in Proxies /\ row[m] # NoRow /\ row'[m] \in Message
                    /\ row'[m].user = Author[Original[m]] /\ row'[m].original = Original[m]
<1> USE DEF handlers, sets, logs, context, faults
<1>1. CASE row' = row
  BY <1>1 DEF TypeOK
<1>2. ASSUME NEW m \in Messages, CreateInserts(m), row' # row
      PROVE  InsertMessage(m, Created) /\ create[m] = "inserting"
  BY <1>2 DEF CreateInserts
<1>3. ASSUME NEW e \in Edits, EditInserts(e), row' # row
      PROVE  InsertMessage(EditOf[e], e) /\ edit[e] = "inserting" /\ EditOf[e] \in Messages
  BY <1>3, MessageLogAssumption DEF EditInserts, Write
<1>4. ASSUME NEW m \in Messages, DeleteSavesProxy(m), row' # row
      PROVE  UpdatePKInfo(ProxyOf(m)) /\ ProxyOf(m) \in Proxies
  BY <1>4, ProxyFacts DEF DeleteSavesProxy, Write, TriggersListed
<1>5. ASSUME NEW p \in Proxies, PkUpdates(p), row' # row PROVE UpdatePKInfo(p)
  BY <1>5 DEF PkUpdates, Write
<1>6. ASSUME NEW m \in Messages, DeletePurgesTrigger(m), row' # row
      PROVE  DeleteMessage(m) /\ m \in Triggers
  BY <1>6 DEF DeletePurgesTrigger, Write, TriggersListed
<1>7. ASSUME NEW p \in Proxies, PkDeletesOriginal(p), row' # row
      PROVE  DeleteMessage(Original[p]) /\ Original[p] \in Triggers /\ Original[p] \in Messages
  BY <1>7, ProxyFacts DEF PkDeletesOriginal, Write
<1>8. ASSUME NEW m \in Messages, DeleteRemoves(m), row' # row
      PROVE  DeleteMessage(m) /\ delete[m] = "removing" /\ delete'[m] = "done"
  BY <1>8 DEF DeleteRemoves, Write, TypeOK
<1>9. \/ row' = row
      \/ \E m \in Messages : \/ CreateInserts(m) \/ DeleteSavesProxy(m)
                             \/ DeletePurgesTrigger(m) \/ DeleteRemoves(m)
      \/ \E p \in Proxies : PkUpdates(p) \/ PkDeletesOriginal(p)
      \/ \E e \in Edits : EditInserts(e)
  BY DEF Next, vars, CreateSent, CreateFails, CreateWakes, DeleteSent, DeleteWakes, DeleteChecks,
     DeleteAsks, DeleteAsksInVain, DeleteGivesUp, DeleteLogs, AnnouncementSent, PkAddsTrigger,
     PkHandled, ChannelCreated, EditSent, EditChecks, EditFails, EditReads
<1>10. CASE \/ \E m \in Messages : create[m] = "inserting" /\ InsertMessage(m, Created)
            \/ \E e \in Edits : edit[e] = "inserting" /\ InsertMessage(EditOf[e], e)
  BY <1>10, InsertFacts, MessageLogAssumption
<1>11. CASE \E p \in Proxies : UpdatePKInfo(p)
  BY <1>11, UpdateFacts, MessageLogAssumption
<1>12. CASE \E m \in Messages : /\ DeleteMessage(m)
                                /\ m \in Triggers \/ (delete[m] = "removing" /\ delete'[m] = "done")
  <2>1. PICK m \in Messages : /\ DeleteMessage(m)
                              /\ m \in Triggers \/ (delete[m] = "removing" /\ delete'[m] = "done")
    BY <1>12
  <2>2. /\ row' \in [Messages -> Message \cup {NoRow}]
        /\ \A n \in Messages \ {m} : row'[n] = row[n]
        /\ row'[m] = NoRow
    BY <2>1, DeleteFacts
  <2> QED
    BY <2>1, <2>2
<1> QED
  BY <1>1, <1>2, <1>3, <1>4, <1>5, <1>6, <1>7, <1>8, <1>9, <1>10, <1>11, <1>12

\* What a step does to messageCreate of m.
LEMMA CreateChanges ==
    ASSUME TypeOK, [Next]_vars, NEW m \in Messages
    PROVE  /\ create' \in [Messages -> {"none", "inserting", "sleeping", "done"}]
           /\ \/ create'[m] = create[m]
              \/ /\ create[m] = "none" /\ delete' = delete
                 /\ \/ create'[m] = "inserting"
                    \/ create'[m] = "done" /\ \A event \in Events : scene.config.log[event] = NoChannel
              \/ create[m] = "inserting" /\ create'[m] = "done" /\ failures' # 0
              \/ create[m] = "inserting" /\ create'[m] \in {"sleeping", "done"} /\ row'[m] # NoRow
              \/ create[m] = "sleeping" /\ create'[m] = "done"
<1> USE DEF handlers, sets, logs, context, faults
<1>1. CASE create' = create
  BY <1>1 DEF TypeOK
<1>2. ASSUME NEW n \in Messages, CreateSent(n)
      PROVE  /\ create[n] = "none" /\ delete' = delete
             /\ \/ create' = [create EXCEPT ![n] = "inserting"]
                \/ /\ create' = [create EXCEPT ![n] = "done"]
                   /\ \A event \in Events : scene.config.log[event] = NoChannel
  BY <1>2 DEF CreateSent
<1>3. ASSUME NEW n \in Messages, CreateFails(n)
      PROVE  create[n] = "inserting" /\ create' = [create EXCEPT ![n] = "done"] /\ failures' # 0
  BY <1>3, FailureFacts DEF CreateFails
<1>4. ASSUME NEW n \in Messages, CreateInserts(n)
      PROVE  /\ create[n] = "inserting" /\ row'[n] # NoRow
             /\ \/ create' = [create EXCEPT ![n] = "sleeping"]
                \/ create' = [create EXCEPT ![n] = "done"]
  BY <1>4, InsertFacts, MessageLogAssumption DEF CreateInserts
<1>5. ASSUME NEW n \in Messages, CreateWakes(n)
      PROVE  create[n] = "sleeping" /\ create' = [create EXCEPT ![n] = "done"]
  BY <1>5 DEF CreateWakes
<1>6. \/ create' = create
      \/ \E n \in Messages : CreateSent(n) \/ CreateFails(n) \/ CreateInserts(n) \/ CreateWakes(n)
  BY DEF Next, vars, DeleteSent, DeleteWakes, DeleteChecks, DeleteAsks, DeleteAsksInVain, DeleteSavesProxy,
     DeletePurgesTrigger, DeleteGivesUp, DeleteLogs, DeleteRemoves, AnnouncementSent,
     PkAddsTrigger, PkUpdates, PkDeletesOriginal, PkHandled, ChannelCreated, EditSent,
     EditChecks, EditFails, EditReads, EditInserts
<1>7. CASE \E n \in Messages : CreateSent(n)
  BY <1>2, <1>7 DEF TypeOK
<1>8. CASE \E n \in Messages : CreateFails(n)
  BY <1>3, <1>8 DEF TypeOK
<1>9. CASE \E n \in Messages : CreateInserts(n)
  BY <1>4, <1>9 DEF TypeOK
<1>10. CASE \E n \in Messages : CreateWakes(n)
  BY <1>5, <1>10 DEF TypeOK
<1> QED
  BY <1>1, <1>6, <1>7, <1>8, <1>9, <1>10

\* What a step does to messageUpdate of e and its log.
LEMMA EditChanges ==
    ASSUME TypeOK, [Next]_vars, NEW e \in Edits
    PROVE  /\ edit' \in [Edits -> {"none", "checking", "reading", "inserting", "done"}]
           /\ \/ edit'[e] = edit[e] /\ editLog'[e] = editLog[e] /\ editLogIn'[e] = editLogIn[e]
              \/ /\ editLog' = editLog /\ editLogIn' = editLogIn
                 /\ \/ /\ edit[e] = "none" /\ edit'[e] = "checking"
                       /\ delete[EditOf[e]] = "none" /\ delete' = delete
                    \/ /\ edit[e] = "checking" /\ edit'[e] = "reading" /\ Root # NoChannel
                       /\ EditOf[e] \notin scene.ignored
                       /\ ~Ignored(scene.config, scene.channel, Root, Author[EditOf[e]])
                    \/ edit[e] = "checking" /\ edit'[e] = "done"
                    \/ edit[e] = "inserting" /\ edit'[e] = "done"
              \/ /\ edit[e] = "reading" /\ edit'[e] = "inserting"
                 /\ \/ editLog'[e] = editLog[e] /\ editLogIn'[e] = editLogIn[e]
                    \/ /\ ShownEdit(e) /\ editLog'[e] = row[EditOf[e]]
                       /\ editLogIn'[e] = LogChannel(scene.config, "update", scene.channel, Root)
<1> USE DEF handlers, sets, logs, context, faults
<1>1. CASE edit' = edit /\ editLog' = editLog /\ editLogIn' = editLogIn
  BY <1>1 DEF TypeOK
<1>2. ASSUME NEW f \in Edits, EditSent(f)
      PROVE  /\ edit[f] = "none" /\ edit' = [edit EXCEPT ![f] = "checking"]
             /\ editLog' = editLog /\ editLogIn' = editLogIn
             /\ delete[EditOf[f]] = "none" /\ delete' = delete
  BY <1>2 DEF EditSent
<1>3. ASSUME NEW f \in Edits, EditChecks(f) \/ EditFails(f)
      PROVE  /\ edit[f] = "checking" /\ editLog' = editLog /\ editLogIn' = editLogIn
             /\ \/ edit' = [edit EXCEPT ![f] = "done"]
                \/ /\ edit' = [edit EXCEPT ![f] = "reading"] /\ Root # NoChannel
                   /\ EditOf[f] \notin scene.ignored
                   /\ ~Ignored(scene.config, scene.channel, Root, Author[EditOf[f]])
  <2>1. CASE EditFails(f)
    BY <2>1 DEF EditFails
  <2>2. CASE EditChecks(f)
    BY <2>2, Zenon DEF EditChecks
  <2> QED
    BY <1>3, <2>1, <2>2
<1>4. ASSUME NEW f \in Edits, EditReads(f)
      PROVE  /\ edit[f] = "reading" /\ edit' = [edit EXCEPT ![f] = "inserting"]
             /\ \/ editLog' = editLog /\ editLogIn' = editLogIn
                \/ /\ ShownEdit(f) /\ editLog' = [editLog EXCEPT ![f] = row[EditOf[f]]]
                   /\ editLogIn' = [editLogIn EXCEPT ![f] =
                                       LogChannel(scene.config, "update", scene.channel, Root)]
  BY <1>4 DEF EditReads
<1>5. ASSUME NEW f \in Edits, EditInserts(f)
      PROVE  /\ edit[f] = "inserting" /\ edit' = [edit EXCEPT ![f] = "done"]
             /\ editLog' = editLog /\ editLogIn' = editLogIn
  BY <1>5 DEF EditInserts
<1>6. \/ edit' = edit /\ editLog' = editLog /\ editLogIn' = editLogIn
      \/ \E f \in Edits : EditSent(f) \/ EditChecks(f) \/ EditFails(f) \/ EditReads(f) \/ EditInserts(f)
  BY DEF Next, vars, CreateSent, CreateFails, CreateInserts, CreateWakes, DeleteSent, DeleteWakes,
     DeleteChecks, DeleteAsks, DeleteAsksInVain, DeleteSavesProxy, DeletePurgesTrigger, DeleteGivesUp,
     DeleteLogs, DeleteRemoves, AnnouncementSent, PkAddsTrigger, PkUpdates, PkDeletesOriginal,
     PkHandled, ChannelCreated
<1>7. CASE \E f \in Edits : EditSent(f)
  BY <1>2, <1>7 DEF TypeOK
<1>8. CASE \E f \in Edits : EditChecks(f) \/ EditFails(f)
  BY <1>3, <1>8 DEF TypeOK
<1>9. CASE \E f \in Edits : EditReads(f)
  BY <1>4, <1>9 DEF TypeOK
<1>10. CASE \E f \in Edits : EditInserts(f)
  BY <1>5, <1>10 DEF TypeOK
<1> QED
  BY <1>1, <1>6, <1>7, <1>8, <1>9, <1>10

\* What a step does to messageDelete of m.
LEMMA DeleteChanges ==
    ASSUME TypeOK, TriggersListed, [Next]_vars, NEW m \in Messages
    PROVE  /\ delete' \in [Messages -> {"none", "asleep", "checking", "asking", "saving", "purging",
                                        "reading", "removing", "done"}]
           /\ \/ delete'[m] = delete[m]
              \/ delete[m] = "none" /\ delete'[m] = "asleep" /\ create[m] # "none" /\ create' = create
              \/ /\ delete[m] = "asleep" /\ create' = create /\ edit' = edit /\ known' = known
                 /\ m \notin late' => ~TooEarly(m)
                 /\ IF m \in proxyTriggers THEN delete'[m] = "done" ELSE delete'[m] = "checking"
              \/ delete[m] = "checking" /\ delete'[m] \in {"reading", "asking"}
              \/ delete[m] = "asking" /\ delete'[m] = "reading"
              \/ /\ delete[m] = "asking" /\ m \in Triggers
                 /\ delete'[m] = "saving" \/ (delete'[m] = "done" /\ ProxyOf(m) \in scene.unlinked)
              \/ delete[m] = "saving" /\ delete'[m] = "purging" /\ m \in Triggers
              \/ /\ delete[m] = "purging" /\ delete'[m] = "done" /\ m \in Triggers
                 /\ row'[m] = NoRow \/ failures' # 0
              \/ /\ delete[m] = "reading" /\ delete'[m] = "done"
                 /\ scene.config.log["delete"] = NoChannel \/ failures' # 0
              \/ /\ delete[m] = "reading" /\ delete'[m] = "removing"
                 /\ ~Shown(m) \/ failures' # 0 \/ deleteLog'[m] = row[m]
              \/ /\ delete[m] = "removing" /\ delete'[m] = "done"
                 /\ row'[m] = NoRow \/ failures' # 0
<1> USE DEF handlers, sets, logs, context, faults
<1>1. CASE delete' = delete
  BY <1>1 DEF TypeOK
<1>2. CASE \E n \in Messages : DeleteSent(n)
  BY <1>2 DEF TypeOK, DeleteSent
<1>3. CASE \E n \in Messages : DeleteWakes(n)
  <2>1. PICK n \in Messages : DeleteWakes(n)
    BY <1>3
  <2>2. /\ delete[n] = "asleep" /\ create' = create /\ edit' = edit /\ known' = known
        /\ TooEarly(n) => n \in late'
        /\ delete' = [delete EXCEPT ![n] = IF n \in proxyTriggers THEN "done" ELSE "checking"]
    BY <2>1, Zenon DEF DeleteWakes
  <2> QED
    BY <2>2 DEF TypeOK
<1>4. CASE \E n \in Messages : DeleteChecks(n)
  <2>1. PICK n \in Messages : DeleteChecks(n)
    BY <1>4
  <2>2. /\ delete[n] = "checking"
        /\ \/ delete' = [delete EXCEPT ![n] = "reading"]
           \/ delete' = [delete EXCEPT ![n] = "asking"]
    BY <2>1, Zenon DEF DeleteChecks
  <2> QED
    BY <2>2 DEF TypeOK
<1>5. CASE \E n \in Messages : DeleteAsks(n) \/ DeleteAsksInVain(n)
  BY <1>5 DEF TypeOK, DeleteAsks, DeleteAsksInVain
<1>6. CASE \E n \in Messages : DeleteSavesProxy(n)
  BY <1>6 DEF TypeOK, DeleteSavesProxy, TriggersListed
<1>7. CASE \E n \in Messages : DeletePurgesTrigger(n)
  <2>1. PICK n \in Messages : DeletePurgesTrigger(n)
    BY <1>7
  <2>2. /\ delete[n] = "purging" /\ delete' = [delete EXCEPT ![n] = "done"] /\ n \in Triggers
        /\ row'[n] = NoRow \/ failures' # 0
    BY <2>1, DeleteFacts, FailureFacts DEF DeletePurgesTrigger, Write, TriggersListed
  <2> QED
    BY <2>2 DEF TypeOK
<1>8. CASE \E n \in Messages : DeleteGivesUp(n)
  BY <1>8, FailureFacts DEF TypeOK, DeleteGivesUp
<1>9. CASE \E n \in Messages : DeleteLogs(n)
  <2>1. PICK n \in Messages : DeleteLogs(n)
    BY <1>9
  <2>2. /\ delete[n] = "reading" /\ delete' = [delete EXCEPT ![n] = "removing"]
        /\ ~Shown(n) \/ failures' # 0 \/ deleteLog' = [deleteLog EXCEPT ![n] = row[n]]
    BY <2>1, FailureFacts DEF DeleteLogs
  <2> QED
    BY <2>2 DEF TypeOK
<1>10. CASE \E n \in Messages : DeleteRemoves(n)
  <2>1. PICK n \in Messages : DeleteRemoves(n)
    BY <1>10
  <2>2. /\ delete[n] = "removing" /\ delete' = [delete EXCEPT ![n] = "done"]
        /\ row'[n] = NoRow \/ failures' # 0
    BY <2>1, DeleteFacts, FailureFacts DEF DeleteRemoves, Write
  <2> QED
    BY <2>2 DEF TypeOK
<1>11. \/ delete' = delete
       \/ \E n \in Messages :
             \/ DeleteSent(n) \/ DeleteWakes(n) \/ DeleteChecks(n)
             \/ DeleteAsks(n) \/ DeleteAsksInVain(n)
             \/ DeleteSavesProxy(n) \/ DeletePurgesTrigger(n)
             \/ DeleteGivesUp(n) \/ DeleteLogs(n) \/ DeleteRemoves(n)
  BY DEF Next, vars, CreateSent, CreateFails, CreateInserts, CreateWakes, AnnouncementSent, PkAddsTrigger,
     PkUpdates, PkDeletesOriginal, PkHandled, ChannelCreated, EditSent, EditChecks, EditFails,
     EditReads, EditInserts
<1> QED
  BY <1>1, <1>2, <1>3, <1>4, <1>5, <1>6, <1>7, <1>8, <1>9, <1>10, <1>11

\* What a step does to the deletion log of m.
LEMMA LogChanges ==
    ASSUME TypeOK, [Next]_vars, NEW m \in Messages
    PROVE  \/ deleteLog'[m] = deleteLog[m] /\ deleteLogIn'[m] = deleteLogIn[m]
           \/ /\ Shown(m) /\ deleteLog'[m] = row[m]
              /\ deleteLogIn'[m] = LogChannel(scene.config, "delete", scene.channel, Root)
<1> USE DEF handlers, sets, logs, context, faults
<1>1. CASE deleteLog' = deleteLog /\ deleteLogIn' = deleteLogIn
  BY <1>1
<1>2. CASE \E n \in Messages : DeleteLogs(n)
  <2>1. PICK n \in Messages : DeleteLogs(n)
    BY <1>2
  <2>2. \/ deleteLog' = deleteLog /\ deleteLogIn' = deleteLogIn
        \/ /\ Shown(n) /\ deleteLog' = [deleteLog EXCEPT ![n] = row[n]]
           /\ deleteLogIn' = [deleteLogIn EXCEPT ![n] =
                                 LogChannel(scene.config, "delete", scene.channel, Root)]
    BY <2>1 DEF DeleteLogs
  <2> QED
    BY <2>2 DEF TypeOK
<1>3. \/ deleteLog' = deleteLog /\ deleteLogIn' = deleteLogIn
      \/ \E n \in Messages : DeleteLogs(n)
  BY DEF Next, vars, CreateSent, CreateFails, CreateInserts, CreateWakes, DeleteSent, DeleteWakes,
     DeleteChecks, DeleteAsks, DeleteAsksInVain, DeleteSavesProxy, DeletePurgesTrigger, DeleteGivesUp,
     DeleteRemoves, AnnouncementSent, PkAddsTrigger, PkUpdates, PkDeletesOriginal, PkHandled,
     ChannelCreated, EditSent, EditChecks, EditFails, EditReads, EditInserts
<1> QED
  BY <1>1, <1>2, <1>3

\* What a step does to the announcements and to the triggers that are listed.
LEMMA PkChanges ==
    ASSUME TypeOK, TriggersListed, [Next]_vars
    PROVE  /\ pkLog' \in [Proxies -> {"none", "adding", "updating", "deleting", "handling", "done"}]
           /\ \A p \in Proxies : pkLog[p] # "none" => pkLog'[p] # "none"
           /\ \A t \in proxyTriggers' : \E p \in Proxies : Original[p] = t /\ pkLog'[p] # "none"
           /\ handledMessages' \subseteq Proxies
<1> USE DEF handlers, sets, logs, context, faults
<1>1. CASE UNCHANGED <<pkLog, sets>>
  BY <1>1 DEF TypeOK, TriggersListed
<1>2. CASE \E m \in Messages : CreateWakes(m) \/ DeleteWakes(m)
  BY <1>2 DEF TypeOK, TriggersListed, CreateWakes, DeleteWakes
<1>3. CASE \E p \in Proxies : AnnouncementSent(p) \/ PkUpdates(p) \/ PkDeletesOriginal(p) \/ PkHandled(p)
  BY <1>3 DEF TypeOK, TriggersListed, AnnouncementSent, PkUpdates, PkDeletesOriginal, PkHandled
<1>4. CASE \E p \in Proxies : PkAddsTrigger(p)
  BY <1>4, MessageLogAssumption DEF TypeOK, TriggersListed, PkAddsTrigger
<1>5. \/ UNCHANGED <<pkLog, sets>>
      \/ \E m \in Messages : CreateWakes(m) \/ DeleteWakes(m)
      \/ \E p \in Proxies : \/ AnnouncementSent(p) \/ PkAddsTrigger(p) \/ PkUpdates(p)
                            \/ PkDeletesOriginal(p) \/ PkHandled(p)
  BY DEF Next, vars, CreateSent, CreateFails, CreateInserts, DeleteSent, DeleteChecks, DeleteAsks,
     DeleteAsksInVain, DeleteSavesProxy, DeletePurgesTrigger, DeleteGivesUp, DeleteLogs,
     DeleteRemoves, ChannelCreated, EditSent, EditChecks, EditFails, EditReads, EditInserts
<1> QED
  BY <1>1, <1>2, <1>3, <1>4, <1>5

\* What a step does to the deletions that are handled too early and to the
\* PluralKit calls that failed.
LEMMA FaultChanges ==
    ASSUME TypeOK, [Next]_vars
    PROVE  /\ late' \subseteq Messages /\ Cardinality(late') <= MaxLate
           /\ apiFailures' \in 0..MaxApiFailures
<1> USE DEF handlers, sets, logs, context, faults
<1>1. CASE late' = late /\ apiFailures' = apiFailures
  BY <1>1 DEF TypeOK
<1>2. CASE \E m \in Messages : DeleteWakes(m)
  BY <1>2 DEF TypeOK, DeleteWakes
<1>3. CASE \E m \in Messages : DeleteAsksInVain(m)
  BY <1>3, MessageLogAssumption DEF TypeOK, DeleteAsksInVain
<1>4. \/ late' = late /\ apiFailures' = apiFailures
      \/ \E m \in Messages : DeleteWakes(m) \/ DeleteAsksInVain(m)
  BY DEF Next, vars, CreateSent, CreateFails, CreateInserts, CreateWakes, DeleteSent, DeleteChecks,
     DeleteAsks, DeleteSavesProxy, DeletePurgesTrigger, DeleteGivesUp, DeleteLogs,
     DeleteRemoves, AnnouncementSent, PkAddsTrigger, PkUpdates, PkDeletesOriginal, PkHandled,
     ChannelCreated, EditSent, EditChecks, EditFails, EditReads, EditInserts
<1> QED
  BY <1>1, <1>2, <1>3, <1>4

\* The logs stay logs in channels.
LEMMA LogTypes ==
    ASSUME TypeOK, EditsChecked, [Next]_vars
    PROVE  /\ editLog' \in [Edits -> Message \cup {NoRow}]
           /\ editLogIn' \in [Edits -> Channels \cup {NoChannel}]
           /\ \A e \in Edits : editLog'[e] = NoRow <=> editLogIn'[e] = NoChannel
           /\ deleteLog' \in [Messages -> Message \cup {NoRow}]
           /\ deleteLogIn' \in [Messages -> Channels \cup {NoChannel}]
           /\ \A m \in Messages : deleteLog'[m] = NoRow <=> deleteLogIn'[m] = NoChannel
<1> USE DEF handlers, sets, logs, context, faults
<1>1. ASSUME Root # NoChannel, NEW event \in Events
      PROVE  LogChannel(scene.config, event, scene.channel, Root) \in Channels \cup {NoChannel}
  BY <1>1, SceneFacts, Routing DEF Root
<1>2. CASE UNCHANGED logs
  BY <1>2 DEF TypeOK
<1>3. CASE \E e \in Edits : EditReads(e)
  <2>1. PICK e \in Edits : EditReads(e)
    BY <1>3
  <2> DEFINE target == LogChannel(scene.config, "update", scene.channel, Root)
  <2>2. /\ edit[e] = "reading" /\ deleteLog' = deleteLog /\ deleteLogIn' = deleteLogIn
        /\ \/ editLog' = editLog /\ editLogIn' = editLogIn
           \/ /\ ShownEdit(e) /\ editLog' = [editLog EXCEPT ![e] = row[EditOf[e]]]
              /\ editLogIn' = [editLogIn EXCEPT ![e] = target]
    BY <2>1 DEF EditReads
  <2>3. ShownEdit(e) => row[EditOf[e]] \in Message \ {NoRow} /\ target \in Channels \ {NoChannel}
    BY <1>1, <2>2, MessageLogAssumption DEF ShownEdit, TypeOK, EditsChecked, Events
  <2> HIDE DEF target
  <2> QED
    BY <2>2, <2>3 DEF TypeOK
<1>4. CASE \E m \in Messages : DeleteLogs(m)
  <2>1. PICK m \in Messages : DeleteLogs(m)
    BY <1>4
  <2> DEFINE target == LogChannel(scene.config, "delete", scene.channel, Root)
  <2>2. /\ editLog' = editLog /\ editLogIn' = editLogIn
        /\ \/ deleteLog' = deleteLog /\ deleteLogIn' = deleteLogIn
           \/ /\ Shown(m) /\ deleteLog' = [deleteLog EXCEPT ![m] = row[m]]
              /\ deleteLogIn' = [deleteLogIn EXCEPT ![m] = target]
    BY <2>1 DEF DeleteLogs
  <2>3. Shown(m) => row[m] \in Message \ {NoRow} /\ target \in Channels \ {NoChannel}
    BY <1>1 DEF Shown, TypeOK, Events
  <2> HIDE DEF target
  <2> QED
    BY <2>2, <2>3 DEF TypeOK
<1>5. \/ UNCHANGED logs
      \/ \E e \in Edits : EditReads(e)
      \/ \E m \in Messages : DeleteLogs(m)
  BY DEF Next, vars, CreateSent, CreateFails, CreateInserts, CreateWakes, DeleteSent, DeleteWakes,
     DeleteChecks, DeleteAsks, DeleteAsksInVain, DeleteSavesProxy, DeletePurgesTrigger,
     DeleteGivesUp, DeleteRemoves, AnnouncementSent, PkAddsTrigger, PkUpdates,
     PkDeletesOriginal, PkHandled, ChannelCreated, EditSent, EditChecks, EditFails, EditInserts
<1> QED
  BY <1>2, <1>3, <1>4, <1>5
-----------------------------------------------------------------------------
LEMMA InitInvariant == Init => IInv
<1> SUFFICES ASSUME Init PROVE IInv
  OBVIOUS
<1>1. TypeOK
  BY MessageLogAssumption, FS_EmptySet DEF Init, TypeOK
<1>2. /\ \A m \in Messages : create[m] = "none" /\ delete[m] = "none" /\ row[m] = NoRow /\ deleteLog[m] = NoRow
      /\ \A p \in Proxies : pkLog[p] = "none"
      /\ \A e \in Edits : edit[e] = "none" /\ editLog[e] = NoRow
      /\ proxyTriggers = {}
  BY DEF Init
<1>3. TriggersListed /\ AccountMatchesPKInfo /\ EditsChecked /\ AwakeInTime /\ LogsRouted
  BY <1>2 DEF TriggersListed, AccountMatchesPKInfo, EditsChecked, AwakeInTime, LogsRouted
<1>4. RowsStay /\ RowsGo /\ LogsMade
  BY <1>2 DEF RowsStay, RowsGo, LogsMade
<1> QED
  BY <1>1, <1>3, <1>4 DEF IInv

LEMMA TypeStep == IInv /\ [Next]_vars => TypeOK'
<1> SUFFICES ASSUME IInv, [Next]_vars PROVE TypeOK'
  OBVIOUS
<1>0. TypeOK /\ TriggersListed /\ EditsChecked
  BY DEF IInv
<1>1. scene' \in Scenes /\ known' \subseteq Channels \ Threads /\ failures' \in 0..MaxFailures
  BY <1>0, Keeps DEF TypeOK
<1>2. row' \in [Messages -> Message \cup {NoRow}]
  BY <1>0, RowChanges
<1>3. create' \in [Messages -> {"none", "inserting", "sleeping", "done"}]
  <2>1. CASE Messages = {}
    <3>1. UNCHANGED create
      BY <2>1, MessageLogAssumption
         DEF Next, vars, handlers, ChannelCreated, EditSent, EditChecks, EditFails, EditReads, EditInserts
    <3> QED
      BY <1>0, <3>1 DEF TypeOK
  <2>2. CASE Messages # {}
    BY <1>0, <2>2, CreateChanges
  <2> QED
    BY <2>1, <2>2
<1>4. edit' \in [Edits -> {"none", "checking", "reading", "inserting", "done"}]
  <2>1. CASE Edits = {}
    <3>1. UNCHANGED edit
      BY <2>1 DEF Next, vars, handlers, ChannelCreated, CreateSent, CreateFails, CreateInserts, CreateWakes,
         DeleteSent, DeleteWakes, DeleteChecks, DeleteAsks, DeleteAsksInVain, DeleteSavesProxy,
         DeletePurgesTrigger, DeleteGivesUp, DeleteLogs, DeleteRemoves, AnnouncementSent,
         PkAddsTrigger, PkUpdates, PkDeletesOriginal, PkHandled
    <3> QED
      BY <1>0, <3>1 DEF TypeOK
  <2>2. CASE Edits # {}
    BY <1>0, <2>2, EditChanges
  <2> QED
    BY <2>1, <2>2
<1>5. delete' \in [Messages -> {"none", "asleep", "checking", "asking", "saving", "purging",
                                "reading", "removing", "done"}]
  <2>1. CASE Messages = {}
    <3>1. UNCHANGED delete
      BY <2>1, MessageLogAssumption
         DEF Next, vars, handlers, ChannelCreated, EditSent, EditChecks, EditFails, EditReads, EditInserts
    <3> QED
      BY <1>0, <3>1 DEF TypeOK
  <2>2. CASE Messages # {}
    BY <1>0, <2>2, DeleteChanges
  <2> QED
    BY <2>1, <2>2
<1>6. /\ pkLog' \in [Proxies -> {"none", "adding", "updating", "deleting", "handling", "done"}]
      /\ proxyTriggers' \subseteq Triggers /\ handledMessages' \subseteq Proxies
  <2>1. /\ pkLog' \in [Proxies -> {"none", "adding", "updating", "deleting", "handling", "done"}]
        /\ \A t \in proxyTriggers' : \E p \in Proxies : Original[p] = t
        /\ handledMessages' \subseteq Proxies
    BY <1>0, PkChanges
  <2> QED
    BY <2>1, MessageLogAssumption DEF Triggers
<1> QED
  BY <1>0, <1>1, <1>2, <1>3, <1>4, <1>5, <1>6, LogTypes, FaultChanges DEF TypeOK

LEMMA TriggersStep == IInv /\ [Next]_vars => TriggersListed'
<1> SUFFICES ASSUME IInv, [Next]_vars PROVE TriggersListed'
  OBVIOUS
<1>0. TypeOK /\ TriggersListed
  BY DEF IInv
<1>1. ASSUME NEW m \in Messages, delete'[m] \in {"saving", "purging"} PROVE m \in Triggers
  BY <1>0, <1>1, DeleteChanges DEF TriggersListed
<1>2. Triggers' = Triggers
  BY DEF Triggers
<1> QED
  BY <1>0, <1>1, <1>2, PkChanges DEF TriggersListed

\* Rows and logs name the account their PluralKit data are about, and these stay.
LEMMA AccountStep ==
    IInv /\ [Next]_vars =>
        /\ AccountMatchesPKInfo'
        /\ \A m \in Messages :
              row[m] # NoRow /\ row'[m] # NoRow /\ row[m].original # NoMessage =>
                  row'[m].original = row[m].original
<1> SUFFICES ASSUME IInv, [Next]_vars
             PROVE  /\ AccountMatchesPKInfo'
                    /\ \A m \in Messages :
                          row[m] # NoRow /\ row'[m] # NoRow /\ row[m].original # NoMessage =>
                              row'[m].original = row[m].original
  OBVIOUS
<1>0. TypeOK /\ TriggersListed /\ AccountMatchesPKInfo
  BY DEF IInv
<1>1. ASSUME NEW m \in Messages
      PROVE  /\ row'[m] # NoRow => NamesAccount(row'[m], m)
             /\ deleteLog'[m] # NoRow => NamesAccount(deleteLog'[m], m)
             /\ row[m] # NoRow /\ row'[m] # NoRow /\ row[m].original # NoMessage =>
                   row'[m].original = row[m].original
  <2>1. /\ row[m] # NoRow => NamesAccount(row[m], m)
        /\ deleteLog[m] # NoRow => NamesAccount(deleteLog[m], m)
    BY <1>0 DEF AccountMatchesPKInfo
  <2>2. \/ row'[m] = row[m]
        \/ row'[m] = NoRow
        \/ row[m] = NoRow /\ row'[m].user = Author[m] /\ row'[m].original = NoMessage
        \/ row[m] # NoRow /\ row'[m].user = row[m].user /\ row'[m].original = row[m].original
        \/ /\ m \in Proxies /\ row[m] # NoRow
           /\ row'[m].user = Author[Original[m]] /\ row'[m].original = Original[m]
    BY <1>0, RowChanges
  <2>3. m \in Proxies => Original[m] # NoMessage /\ Sender(m) = Author[Original[m]]
    BY MessageLogAssumption DEF Sender
  <2>4. row'[m] # NoRow => NamesAccount(row'[m], m)
    BY <2>1, <2>2, <2>3 DEF NamesAccount
  <2>5. deleteLog'[m] # NoRow => NamesAccount(deleteLog'[m], m)
    <3>1. deleteLog'[m] \in {deleteLog[m], row[m]}
      BY <1>0, LogChanges
    <3> QED
      BY <2>1, <3>1
  <2>6. row[m] # NoRow /\ row'[m] # NoRow /\ row[m].original # NoMessage =>
            row'[m].original = row[m].original
    BY <2>1, <2>2 DEF NamesAccount
  <2> QED
    BY <2>4, <2>5, <2>6
<1>2. ASSUME NEW e \in Edits, editLog'[e] # NoRow
      PROVE  NamesAccount(editLog'[e], EditOf[e])
  <2>1. editLog'[e] \in {editLog[e], row[EditOf[e]]}
    BY <1>0, EditChanges
  <2> QED
    BY <1>0, <1>2, <2>1, MessageLogAssumption DEF AccountMatchesPKInfo
<1>3. AccountMatchesPKInfo'
  BY <1>1, <1>2 DEF AccountMatchesPKInfo, NamesAccount, Sender
<1> QED
  BY <1>1, <1>3

LEMMA EditsStep == IInv /\ [Next]_vars => EditsChecked'
<1> SUFFICES ASSUME IInv, [Next]_vars, NEW e \in Edits, edit'[e] = "reading"
             PROVE  /\ EditOf[e] \notin scene'.ignored /\ Root' # NoChannel
                    /\ ~Ignored(scene'.config, scene'.channel, Root', Author[EditOf[e]])
  BY DEF EditsChecked
<1>0. TypeOK /\ EditsChecked
  BY DEF IInv
<1>1. /\ EditOf[e] \notin scene.ignored /\ Root # NoChannel
      /\ ~Ignored(scene.config, scene.channel, Root, Author[EditOf[e]])
  BY <1>0, EditChanges DEF EditsChecked
<1>2. scene' = scene /\ Root' = Root
  BY <1>0, <1>1, Keeps, RootStays DEF Root
<1> QED
  BY <1>1, <1>2

LEMMA AwakeStep == IInv /\ [Next]_vars => AwakeInTime'
<1> SUFFICES ASSUME IInv, [Next]_vars, NEW m \in Messages
             PROVE  /\ delete'[m] # "none" => create'[m] # "none"
                    /\ delete'[m] \notin {"none", "asleep"} /\ m \notin late' =>
                          /\ create'[m] # "inserting"
                          /\ Root' # NoChannel
                          /\ \A e \in Edits : EditOf[e] = m => edit'[e] \in {"none", "done"}
  BY DEF AwakeInTime
<1>0. TypeOK /\ TriggersListed /\ AwakeInTime
  BY DEF IInv
<1>1. \/ create'[m] = create[m]
      \/ create[m] = "none" /\ delete' = delete
      \/ create[m] # "none" /\ create'[m] \in {"sleeping", "done"}
  BY <1>0, CreateChanges
<1>2. \/ delete'[m] = delete[m]
      \/ delete[m] = "none" /\ delete'[m] = "asleep" /\ create[m] # "none" /\ create' = create
      \/ /\ delete[m] = "asleep" /\ create' = create /\ edit' = edit /\ known' = known
         /\ m \notin late' => ~TooEarly(m)
      \/ delete[m] \notin {"none", "asleep"} /\ delete'[m] # "none"
  BY <1>0, DeleteChanges
<1>3. delete'[m] # "none" => create'[m] # "none"
  BY <1>0, <1>1, <1>2 DEF AwakeInTime
<1>4. ASSUME delete'[m] \notin {"none", "asleep"}, m \notin late'
      PROVE  /\ create'[m] # "inserting"
             /\ Root' # NoChannel
             /\ \A e \in Edits : EditOf[e] = m => edit'[e] \in {"none", "done"}
  <2>1. CASE delete[m] = "asleep"
    <3>1. create' = create /\ edit' = edit /\ known' = known /\ ~TooEarly(m) /\ scene' = scene
      BY <1>0, <1>2, <1>4, <2>1, Keeps
    <3>2. \A e \in Edits : edit[e] \in {"none", "checking", "reading", "inserting", "done"}
      BY <1>0 DEF TypeOK
    <3> QED
      BY <3>1, <3>2 DEF TooEarly, Root
  <2>2. CASE delete[m] \notin {"none", "asleep"}
    <3>1. m \notin late /\ scene' = scene /\ known \subseteq known'
      BY <1>0, <1>4, Keeps
    <3>2. /\ create[m] \notin {"none", "inserting"}
          /\ Root # NoChannel
          /\ \A e \in Edits : EditOf[e] = m => edit[e] \in {"none", "done"}
      BY <1>0, <2>2, <3>1 DEF AwakeInTime
    <3>3. create'[m] # "inserting"
      BY <1>1, <3>2
    <3>4. Root' # NoChannel
      BY <3>1, <3>2, RootStays DEF Root
    <3>5. ASSUME NEW e \in Edits, EditOf[e] = m PROVE edit'[e] \in {"none", "done"}
      <4>1. edit[e] \in {"none", "done"}
        BY <3>2, <3>5
      <4> QED
        BY <1>0, <2>2, <3>5, <4>1, EditChanges
    <3> QED
      BY <3>3, <3>4, <3>5
  <2> QED
    BY <1>2, <1>4, <2>1, <2>2
<1> QED
  BY <1>3, <1>4

\* Queries that have not failed now have not failed before.
LEMMA ReliableBefore ==
    ASSUME TypeOK, [Next]_vars, Reliable'
    PROVE  Reliable /\ failures' = 0 /\ scene' = scene /\ scene.config.log["delete"] # NoChannel
BY Keeps DEF Reliable

LEMMA StayStep == IInv /\ [Next]_vars => RowsStay'
<1> SUFFICES ASSUME IInv, [Next]_vars, Reliable', NEW m \in Messages \ Triggers,
                    create'[m] \in {"sleeping", "done"}, delete'[m] \notin {"removing", "done"}
             PROVE  row'[m] # NoRow
  BY DEF RowsStay, Triggers
<1>0. TypeOK /\ TriggersListed /\ RowsStay
  BY DEF IInv
<1>1. Reliable /\ failures' = 0 /\ scene.config.log["delete"] # NoChannel
  BY <1>0, ReliableBefore
<1>2. delete[m] \notin {"removing", "done"}
  BY <1>0, DeleteChanges
<1>3. create[m] \in {"sleeping", "done"} \/ row'[m] # NoRow
  BY <1>0, <1>1, CreateChanges DEF Events
<1>4. CASE create[m] \in {"sleeping", "done"}
  <2>1. row[m] # NoRow
    BY <1>0, <1>1, <1>2, <1>4 DEF RowsStay
  <2>2. \/ row'[m] = row[m]
        \/ row'[m] = NoRow /\ (m \in Triggers \/ delete[m] = "removing")
        \/ row'[m] \in Message
    BY <1>0, RowChanges
  <2> QED
    BY <1>2, <2>1, <2>2, MessageLogAssumption
<1> QED
  BY <1>3, <1>4

LEMMA GoStep == IInv /\ [Next]_vars => RowsGo'
<1> SUFFICES ASSUME IInv, [Next]_vars, Reliable', NEW m \in Messages \ late', delete'[m] = "done",
                    m \in Triggers => pkLog'[ProxyOf(m)] = "none" /\ ProxyOf(m) \notin scene.unlinked
             PROVE  row'[m] = NoRow
  BY Keeps DEF IInv, RowsGo, Triggers, ProxyOf
<1>0. TypeOK /\ TriggersListed /\ AwakeInTime /\ RowsGo
  BY DEF IInv
<1>1. /\ Reliable /\ failures' = 0 /\ scene.config.log["delete"] # NoChannel
      /\ m \notin late
  BY <1>0, ReliableBefore, Keeps
<1>2. m \notin proxyTriggers
  <2>1. ASSUME m \in proxyTriggers PROVE FALSE
    <3>1. PICK p \in Proxies : Original[p] = m /\ pkLog[p] # "none"
      BY <1>0, <2>1 DEF TriggersListed
    <3>2. m \in Triggers /\ ProxyOf(m) = p
      BY <3>1, ProxyFacts, MessageLogAssumption
    <3> QED
      BY <1>0, <3>1, <3>2, PkChanges
  <2> QED
    BY <2>1
<1>3. delete[m] = "done" \/ row'[m] = NoRow
  BY <1>0, <1>1, <1>2, DeleteChanges
<1>4. CASE delete[m] = "done"
  <2>1. row[m] = NoRow
    <3>1. m \in Triggers => pkLog[ProxyOf(m)] = "none"
      BY <1>0, ProxyFacts, PkChanges
    <3> QED
      BY <1>0, <1>1, <1>4, <3>1 DEF RowsGo
  <2>2. /\ create[m] # "inserting"
        /\ \A e \in Edits : EditOf[e] = m => edit[e] # "inserting"
    BY <1>0, <1>1, <1>4 DEF AwakeInTime
  <2> QED
    BY <1>0, <2>1, <2>2, RowChanges
<1> QED
  BY <1>3, <1>4

LEMMA LogsMadeStep == IInv /\ [Next]_vars => LogsMade'
<1> SUFFICES ASSUME IInv, [Next]_vars, Reliable', ~TestMode, NEW m \in Messages \ (Triggers \cup late'),
                    delete'[m] \in {"removing", "done"},
                    \A u \in {Author[m], Sender(m)} : Wanted(scene.config, scene.channel, u)
             PROVE  deleteLog'[m] # NoRow \/ BelongsIn(scene.config, "delete", scene.channel, NoChannel)
  BY Keeps DEF IInv, LogsMade, Triggers, Sender
<1>0. TypeOK /\ TriggersListed /\ AccountMatchesPKInfo /\ AwakeInTime /\ RowsStay /\ LogsMade
  BY DEF IInv
<1>1. /\ Reliable /\ failures' = 0 /\ scene.config.log["delete"] # NoChannel
      /\ m \notin late
  BY <1>0, ReliableBefore, Keeps
<1>2. m \notin proxyTriggers
  BY <1>0, ProxyFacts, MessageLogAssumption DEF TriggersListed
<1>3. \/ delete[m] \in {"removing", "done"}
      \/ delete[m] = "reading" /\ (~Shown(m) \/ deleteLog'[m] = row[m])
  BY <1>0, <1>1, <1>2, DeleteChanges
<1>4. CASE delete[m] \in {"removing", "done"}
  <2>1. deleteLog[m] # NoRow \/ BelongsIn(scene.config, "delete", scene.channel, NoChannel)
    BY <1>0, <1>1, <1>4 DEF LogsMade
  <2>2. deleteLog[m] # NoRow => deleteLog'[m] # NoRow
    BY <1>0, LogChanges DEF Shown
  <2> QED
    BY <2>1, <2>2
<1>5. CASE delete[m] = "reading"
  <2>1. create[m] \in {"sleeping", "done"} /\ Root # NoChannel
    BY <1>0, <1>1, <1>5 DEF AwakeInTime, TypeOK
  <2>2. row[m] # NoRow
    BY <1>0, <1>1, <1>5, <2>1 DEF RowsStay
  <2>3. row[m].user \in {Author[m], Sender(m)}
    BY <1>0, <2>2 DEF AccountMatchesPKInfo, NamesAccount
  <2>4. ~Ignored(scene.config, scene.channel, Root, row[m].user)
    BY <1>0, <2>1, <2>3, SceneFacts, IgnoredOrWanted DEF Root
  <2>5. BelongsIn(scene.config, "delete", scene.channel,
                  LogChannel(scene.config, "delete", scene.channel, Root))
    BY <1>0, <2>1, SceneFacts, Routing DEF Root, Events
  <2> QED
    BY <1>3, <1>5, <2>1, <2>2, <2>4, <2>5 DEF Shown
<1> QED
  BY <1>3, <1>4, <1>5

LEMMA RoutedStep == IInv /\ [Next]_vars => LogsRouted'
<1> SUFFICES ASSUME IInv, [Next]_vars PROVE LogsRouted'
  OBVIOUS
<1>0. TypeOK /\ AccountMatchesPKInfo /\ EditsChecked /\ LogsRouted /\ scene' = scene
  BY Keeps DEF IInv
<1>1. ASSUME Root # NoChannel, NEW event \in Events
      PROVE  BelongsIn(scene.config, event, scene.channel,
                       LogChannel(scene.config, event, scene.channel, Root))
  BY <1>0, <1>1, SceneFacts, Routing DEF Root
<1>2. ASSUME Root # NoChannel, NEW u, ~Ignored(scene.config, scene.channel, Root, u)
      PROVE  Wanted(scene.config, scene.channel, u)
  BY <1>0, <1>2, SceneFacts, IgnoredOrWanted DEF Root
<1>3. ASSUME NEW m \in Messages, deleteLog'[m] # NoRow
      PROVE  /\ Wanted(scene.config, scene.channel, deleteLog'[m].user)
             /\ BelongsIn(scene.config, "delete", scene.channel, deleteLogIn'[m])
  <2>1. CASE deleteLog'[m] = deleteLog[m] /\ deleteLogIn'[m] = deleteLogIn[m]
    BY <1>0, <1>3, <2>1 DEF LogsRouted
  <2>2. CASE /\ Shown(m) /\ deleteLog'[m] = row[m]
             /\ deleteLogIn'[m] = LogChannel(scene.config, "delete", scene.channel, Root)
    BY <1>1, <1>2, <2>2 DEF Shown, Events
  <2> QED
    BY <1>0, <2>1, <2>2, LogChanges
<1>4. ASSUME NEW e \in Edits, editLog'[e] # NoRow
      PROVE  /\ EditOf[e] \notin scene.ignored
             /\ Wanted(scene.config, scene.channel, Author[EditOf[e]])
             /\ \/ Wanted(scene.config, scene.channel, editLog'[e].user)
                \/ EditOf[e] \in Proxies /\ editLog'[e].original # NoMessage
             /\ BelongsIn(scene.config, "update", scene.channel, editLogIn'[e])
  <2>1. CASE editLog'[e] = editLog[e] /\ editLogIn'[e] = editLogIn[e]
    BY <1>0, <1>4, <2>1 DEF LogsRouted
  <2>2. CASE /\ edit[e] = "reading" /\ ShownEdit(e) /\ editLog'[e] = row[EditOf[e]]
             /\ editLogIn'[e] = LogChannel(scene.config, "update", scene.channel, Root)
    <3>1. /\ EditOf[e] \notin scene.ignored
          /\ Wanted(scene.config, scene.channel, Author[EditOf[e]])
          /\ BelongsIn(scene.config, "update", scene.channel, editLogIn'[e])
      BY <1>0, <1>1, <1>2, <2>2 DEF EditsChecked, Events
    <3>2. NamesAccount(row[EditOf[e]], EditOf[e])
      BY <1>0, <2>2, MessageLogAssumption DEF ShownEdit, AccountMatchesPKInfo
    <3> QED
      BY <2>2, <3>1, <3>2 DEF NamesAccount
  <2> QED
    BY <1>0, <2>1, <2>2, EditChanges
<1> QED
  BY <1>0, <1>3, <1>4 DEF LogsRouted
-----------------------------------------------------------------------------
(* The embed of an edit. *)

\* The numbers are well founded, and so a set of them has a least element.
LEMMA Before ==
    ASSUME NEW m \in Nat, NEW n \in Nat, m < n
    PROVE  <<m, n>> \in OpToRel(<, Nat)
BY DEF OpToRel

LEMMA Least ==
    ASSUME NEW T \in SUBSET Nat, T # {}
    PROVE  \E n \in T : \A m \in T : n <= m
<1> DEFINE R == OpToRel(<, Nat)
<1>1. IsWellFoundedOn(R, Nat)
  BY NatLessThanWellFounded
<1>2. \A m, n \in Nat : m < n => <<m, n>> \in R
  BY Before
<1> HIDE DEF R
<1>3. PICK n \in T : \A m \in T : ~(<<m, n>> \in R)
  BY <1>1, WFMin
<1>4. ASSUME NEW m \in T PROVE n <= m
  <2>1. m \in Nat /\ n \in Nat
    OBVIOUS
  <2>2. ~(m < n)
    BY <1>2, <1>3, <2>1, Zenon
  <2> QED
    BY <2>1, <2>2
<1> QED
  BY <1>4

\* Induction over the numbers, for sets.
LEMMA Induction ==
    ASSUME NEW T \in SUBSET Nat, 0 \in T, \A n \in T : n + 1 \in T
    PROVE  T = Nat
<1> SUFFICES ASSUME Nat \ T # {} PROVE FALSE
  OBVIOUS
<1>1. PICK n \in Nat \ T : \A m \in Nat \ T : n <= m
  BY Least
<1> QED
  BY <1>1, n - 1 \in Nat, n - 1 \notin Nat \ T

\* A set of numbers below a bound has a greatest element.
LEMMA MaxFacts ==
    ASSUME NEW n \in Nat, NEW t \in SUBSET (1..n), t # {}
    PROVE  Max(t) \in t /\ \A x \in t : x <= Max(t)
<1> DEFINE Above == {k \in Nat : \A x \in t : x <= k}
<1>1. n \in Above
  OBVIOUS
<1>2. PICK k \in Above : \A j \in Above : k <= j
  <2> HIDE DEF Above
  <2>1. Above \in SUBSET Nat
    BY DEF Above
  <2> QED
    BY <1>1, <2>1, Least
<1>3. k \in t
  <2> SUFFICES ASSUME k \notin t PROVE FALSE
    OBVIOUS
  <2>1. k \in Nat /\ \A x \in t : x \in Nat /\ x >= 1 /\ x <= k
    BY <1>2
  <2>2. \A x \in t : x < k
    BY <2>1
  <2>4. PICK x \in t : TRUE
    OBVIOUS
  <2>5. k - 1 \in Nat /\ \A y \in t : y <= k - 1
    BY <2>1, <2>2, <2>4
  <2>3. k - 1 \in Above
    BY <2>5
  <2> QED
    BY <1>2, <2>1, <2>3
<1> QED
  BY <1>2, <1>3 DEF Max

\* The sum of the fields, as SequencesExt folds it: Sums(rest, s, g, n) if g has the sums of
\* the parts of s at the subsets of 1..n.
Sums(rest, s, g, n) ==
    g = [t \in SUBSET (1..n) |-> IF t = {} THEN rest ELSE g[t \ {Max(t)}] + Size(s[Max(t)])]

LEMMA SumsExist ==
    ASSUME NEW rest \in Int, NEW s, NEW n \in Nat
    PROVE  \E g : Sums(rest, s, g, n)
<1> DEFINE T == {k \in Nat : \E g : Sums(rest, s, g, k)}
<1>1. 0 \in T
  <2>1. Sums(rest, s, [t \in SUBSET (1..0) |-> rest], 0)
    <3>1. \A t \in SUBSET (1..0) : t = {}
      OBVIOUS
    <3> QED
      BY <3>1 DEF Sums
  <2> QED
    BY <2>1
<1>2. ASSUME NEW k \in T PROVE k + 1 \in T
  <2>0. k \in Nat /\ k + 1 \in Nat
    OBVIOUS
  <2>1. PICK g : Sums(rest, s, g, k)
    OBVIOUS
  <2> DEFINE h == [t \in SUBSET (1..(k+1)) |->
                      IF t = {} THEN rest ELSE g[t \ {Max(t)}] + Size(s[Max(t)])]
  <2>2. ASSUME NEW t \in SUBSET (1..k) PROVE h[t] = g[t]
    <3>1. t \in SUBSET (1..(k+1))
      OBVIOUS
    <3> QED
      BY <2>1, <3>1 DEF Sums
  <2>3. ASSUME NEW t \in SUBSET (1..(k+1)), t # {} PROVE h[t \ {Max(t)}] = g[t \ {Max(t)}]
    <3>1. Max(t) \in t /\ \A x \in t : x <= Max(t)
      BY <2>0, <2>3, MaxFacts
    <3>2. ASSUME NEW x \in t, x # Max(t) PROVE x \in 1..k
      <4>1. x \in 1..(k+1) /\ Max(t) \in 1..(k+1) /\ x <= Max(t)
        BY <3>1
      <4> QED
        BY <2>0, <3>2, <4>1
    <3>3. t \ {Max(t)} \in SUBSET (1..k)
      BY <3>2
    <3> QED
      BY <2>2, <3>3
  <2>4. Sums(rest, s, h, k + 1)
    BY <2>3 DEF Sums
  <2> QED
    BY <2>0, <2>4
<1> HIDE DEF T
<1>3. T = Nat
  <2>1. T \in SUBSET Nat
    BY DEF T
  <2> QED
    BY <1>1, <1>2, <2>1, Induction
<1> QED
  BY <1>3 DEF T

LEMMA SumStep ==
    ASSUME NEW rest \in Int, NEW n \in Nat, NEW s, NEW g, Sums(rest, s, g, n), NEW k \in 1..n
    PROVE  g[1..k] = g[1..(k-1)] + Size(s[k])
<1>1. /\ k \in Nat /\ k - 1 \in Nat /\ k <= n
      /\ 1..k \in SUBSET (1..n) /\ 1..k # {} /\ k \in 1..k /\ (1..k) \ {k} = 1..(k-1)
  OBVIOUS
<1>2. Max(1..k) = k
  <2>1. Max(1..k) \in 1..k /\ \A x \in 1..k : x <= Max(1..k)
    BY <1>1, MaxFacts
  <2> QED
    BY <1>1, <2>1
<1>3. g[1..k] = g[(1..k) \ {Max(1..k)}] + Size(s[Max(1..k)])
  <2> DEFINE t == 1..k
  <2>1. t \in SUBSET (1..n) /\ t # {}
    BY <1>1
  <2> HIDE DEF t
  <2>2. g[t] = g[t \ {Max(t)}] + Size(s[Max(t)])
    BY <2>1 DEF Sums
  <2> QED
    BY <2>2 DEF t
<1> QED
  BY <1>1, <1>2, <1>3, Zenon

LEMMA SizeIsSum ==
    ASSUME NEW rest \in Int, NEW s, NEW n \in Nat, DOMAIN s = 1..n
    PROVE  \E g : Sums(rest, s, g, n) /\ EmbedSize(rest, s) = g[1..n] /\ g[1..0] = rest
<1>1. EmbedSize(rest, s) = (CHOOSE g : Sums(rest, s, g, n))[1..n]
  BY DEF EmbedSize, FoldLeft, MapThenFoldSet, Sums
<1>2. \E g : Sums(rest, s, g, n)
  BY SumsExist
<1>3. Sums(rest, s, CHOOSE g : Sums(rest, s, g, n), n)
  BY <1>2
<1>4. ASSUME NEW g, Sums(rest, s, g, n) PROVE g[1..0] = rest
  <2>1. 1..0 = {} /\ {} \in SUBSET (1..n)
    OBVIOUS
  <2> QED
    BY <1>4, <2>1 DEF Sums
<1> QED
  BY <1>1, <1>3, <1>4

\* Pieces of contents, and what one adds to an embed.
Pieces == [from : Nat, to : Nat, marks : Nat]

LEMMA SizeType ==
    ASSUME NEW p \in Pieces
    PROVE  Size(p) \in Int
<1>1. p.from \in Nat /\ p.to \in Nat /\ p.marks \in Nat
  BY DEF Pieces
<1> QED
  BY <1>1 DEF Size

LEMMA EmptySize ==
    ASSUME NEW rest \in Int
    PROVE  EmbedSize(rest, <<>>) = rest
<1>1. DOMAIN <<>> = 1..0
  OBVIOUS
<1>2. PICK g : EmbedSize(rest, <<>>) = g[1..0] /\ g[1..0] = rest
  BY <1>1, SizeIsSum
<1> QED
  BY <1>2

LEMMA AppendSize ==
    ASSUME NEW rest \in Int, NEW s \in Seq(Pieces), NEW p \in Pieces
    PROVE  EmbedSize(rest, s) \in Int /\ EmbedSize(rest, Append(s, p)) = EmbedSize(rest, s) + Size(p)
<1> DEFINE n == Len(s)
           r == Append(s, p)
<1>1. /\ n \in Nat /\ DOMAIN s = 1..n /\ DOMAIN r = 1..(n + 1)
      /\ r[n + 1] = p /\ \A k \in 1..n : r[k] = s[k] /\ s[k] \in Pieces
  OBVIOUS
<1> HIDE DEF n, r
<1>2. PICK g : Sums(rest, s, g, n) /\ EmbedSize(rest, s) = g[1..n] /\ g[1..0] = rest
  BY <1>1, SizeIsSum
<1>3. PICK h : Sums(rest, r, h, n + 1) /\ EmbedSize(rest, r) = h[1..(n + 1)] /\ h[1..0] = rest
  <2>1. n + 1 \in Nat
    BY <1>1
  <2> QED
    BY <1>1, <2>1, SizeIsSum
<1> DEFINE T == {k \in Nat : k <= n => g[1..k] \in Int /\ h[1..k] = g[1..k]}
<1>4. 0 \in T
  BY <1>2, <1>3
<1>5. ASSUME NEW k \in T PROVE k + 1 \in T
  <2>1. CASE k + 1 <= n
    <3>1. k + 1 \in 1..n /\ k + 1 \in 1..(n + 1) /\ (k + 1) - 1 = k
      BY <1>1, <2>1
    <3>2. /\ g[1..(k + 1)] = g[1..k] + Size(s[k + 1])
          /\ h[1..(k + 1)] = h[1..k] + Size(r[k + 1])
      <4> DEFINE j == k + 1
      <4>1. j \in 1..n /\ j \in 1..(n + 1) /\ n + 1 \in Nat
        BY <1>1, <3>1
      <4> HIDE DEF j
      <4>2. g[1..j] = g[1..(j - 1)] + Size(s[j])
        BY <1>1, <1>2, <4>1, SumStep
      <4>3. h[1..j] = h[1..(j - 1)] + Size(r[j])
        BY <1>3, <4>1, SumStep
      <4> QED
        BY <3>1, <4>2, <4>3, Zenon DEF j
    <3>3. Size(s[k + 1]) \in Int /\ r[k + 1] = s[k + 1]
      BY <1>1, <3>1, SizeType
    <3>4. g[1..k] \in Int /\ h[1..k] = g[1..k]
      BY <1>1, <2>1
    <3> QED
      BY <3>2, <3>3, <3>4
  <2> QED
    BY <1>1, <2>1
<1>6. T = Nat
  <2>1. T \in SUBSET Nat
    OBVIOUS
  <2> HIDE DEF T
  <2> QED
    BY <1>4, <1>5, <2>1, Induction
<1>7. g[1..n] \in Int /\ h[1..n] = g[1..n]
  BY <1>1, <1>6
<1>8. h[1..(n + 1)] = h[1..n] + Size(r[n + 1])
  <2>1. n + 1 \in Nat /\ n + 1 \in 1..(n + 1) /\ (n + 1) - 1 = n
    BY <1>1
  <2> QED
    BY <1>1, <1>3, <2>1, SumStep
<1> QED
  BY <1>1, <1>2, <1>3, <1>7, <1>8 DEF r

\* An embed of one to four fields that follow each other.
LEMMA OneField ==
    ASSUME NEW rest \in Int, NEW p \in Pieces, p.from = 0, Size(p) \in 1..FieldLimit
    PROVE  /\ <<p>> \in Seq(Pieces) /\ Continuous(<<p>>)
           /\ \A i \in DOMAIN <<p>> : Size(<<p>>[i]) \in 1..FieldLimit
           /\ EmbedSize(rest, <<p>>) = rest + Size(p)
<1>1. /\ <<p>> \in Seq(Pieces) /\ Len(<<p>>) = 1 /\ <<p>>[1] = p
      /\ \A i \in DOMAIN <<p>> : i = 1
  OBVIOUS
<1>2. <<p>> = Append(<<>>, p) /\ <<>> \in Seq(Pieces)
  OBVIOUS
<1>3. EmbedSize(rest, <<p>>) = EmbedSize(rest, <<>>) + Size(p)
  <2>1. EmbedSize(rest, Append(<<>>, p)) = EmbedSize(rest, <<>>) + Size(p)
    BY <1>2, AppendSize
  <2> QED
    BY <1>2, <2>1, Zenon
<1>4. EmbedSize(rest, <<>>) = rest
  BY EmptySize
<1>5. \A i \in 2..1 : FALSE
  OBVIOUS
<1>6. Continuous(<<p>>)
  BY <1>1, <1>5, Zenon DEF Continuous
<1>7. \A i \in DOMAIN <<p>> : Size(<<p>>[i]) \in 1..FieldLimit
  BY <1>1, Zenon
<1> QED
  BY <1>1, <1>3, <1>4, <1>6, <1>7, Zenon

LEMMA TwoFields ==
    ASSUME NEW rest \in Int, NEW p \in Pieces, p.from = 0, Size(p) \in 1..FieldLimit,
           NEW q \in Pieces, q.from = p.to, Size(q) \in 1..FieldLimit
    PROVE  /\ <<p, q>> \in Seq(Pieces) /\ Continuous(<<p, q>>)
           /\ \A i \in DOMAIN <<p, q>> : Size(<<p, q>>[i]) \in 1..FieldLimit
           /\ EmbedSize(rest, <<p, q>>) = rest + Size(p) + Size(q)
<1>1. /\ <<p, q>> \in Seq(Pieces) /\ Len(<<p, q>>) = 2
      /\ <<p, q>>[1] = p /\ <<p, q>>[2] = q
      /\ \A i \in DOMAIN <<p, q>> : i = 1 \/ i = 2
  OBVIOUS
<1>2. <<p, q>> = Append(<<p>>, q) /\ <<p>> \in Seq(Pieces)
  OBVIOUS
<1>3. EmbedSize(rest, <<p, q>>) = EmbedSize(rest, <<p>>) + Size(q)
  <2>1. EmbedSize(rest, Append(<<p>>, q)) = EmbedSize(rest, <<p>>) + Size(q)
    BY <1>2, AppendSize
  <2> QED
    BY <1>2, <2>1, Zenon
<1>4. EmbedSize(rest, <<p>>) = rest + Size(p)
  BY OneField
<1>5. /\ \A i \in 2..2 : i = 2
      /\ 2 - 1 = 1
  OBVIOUS
<1>6. Continuous(<<p, q>>)
  BY <1>1, <1>5, Zenon DEF Continuous
<1>7. \A i \in DOMAIN <<p, q>> : Size(<<p, q>>[i]) \in 1..FieldLimit
  BY <1>1, Zenon
<1> QED
  BY <1>1, <1>3, <1>4, <1>6, <1>7, Zenon

LEMMA ThreeFields ==
    ASSUME NEW rest \in Int, NEW p \in Pieces, p.from = 0, Size(p) \in 1..FieldLimit,
           NEW q \in Pieces, q.from = p.to, Size(q) \in 1..FieldLimit,
           NEW r \in Pieces, r.from = q.to, Size(r) \in 1..FieldLimit
    PROVE  /\ <<p, q, r>> \in Seq(Pieces) /\ Continuous(<<p, q, r>>)
           /\ \A i \in DOMAIN <<p, q, r>> : Size(<<p, q, r>>[i]) \in 1..FieldLimit
           /\ EmbedSize(rest, <<p, q, r>>) = rest + Size(p) + Size(q) + Size(r)
<1>1. /\ <<p, q, r>> \in Seq(Pieces) /\ Len(<<p, q, r>>) = 3
      /\ <<p, q, r>>[1] = p /\ <<p, q, r>>[2] = q /\ <<p, q, r>>[3] = r
      /\ \A i \in DOMAIN <<p, q, r>> : i = 1 \/ i = 2 \/ i = 3
  OBVIOUS
<1>2. <<p, q, r>> = Append(<<p, q>>, r) /\ <<p, q>> \in Seq(Pieces)
  OBVIOUS
<1>3. EmbedSize(rest, <<p, q, r>>) = EmbedSize(rest, <<p, q>>) + Size(r)
  <2>1. EmbedSize(rest, Append(<<p, q>>, r)) = EmbedSize(rest, <<p, q>>) + Size(r)
    BY <1>2, AppendSize
  <2> QED
    BY <1>2, <2>1, Zenon
<1>4. EmbedSize(rest, <<p, q>>) = rest + Size(p) + Size(q)
  BY TwoFields
<1>5. /\ \A i \in 2..3 : i = 2 \/ i = 3
      /\ 2 - 1 = 1 /\ 3 - 1 = 2
  OBVIOUS
<1>6. Continuous(<<p, q, r>>)
  BY <1>1, <1>5, Zenon DEF Continuous
<1>7. \A i \in DOMAIN <<p, q, r>> : Size(<<p, q, r>>[i]) \in 1..FieldLimit
  BY <1>1, Zenon
<1> QED
  BY <1>1, <1>3, <1>4, <1>6, <1>7, Zenon

LEMMA FourFields ==
    ASSUME NEW rest \in Int, NEW p \in Pieces, p.from = 0, Size(p) \in 1..FieldLimit,
           NEW q \in Pieces, q.from = p.to, Size(q) \in 1..FieldLimit,
           NEW r \in Pieces, r.from = q.to, Size(r) \in 1..FieldLimit,
           NEW s \in Pieces, s.from = r.to, Size(s) \in 1..FieldLimit
    PROVE  /\ <<p, q, r, s>> \in Seq(Pieces) /\ Continuous(<<p, q, r, s>>)
           /\ \A i \in DOMAIN <<p, q, r, s>> : Size(<<p, q, r, s>>[i]) \in 1..FieldLimit
           /\ EmbedSize(rest, <<p, q, r, s>>) = rest + Size(p) + Size(q) + Size(r) + Size(s)
<1>1. /\ <<p, q, r, s>> \in Seq(Pieces) /\ Len(<<p, q, r, s>>) = 4
      /\ <<p, q, r, s>>[1] = p /\ <<p, q, r, s>>[2] = q
      /\ <<p, q, r, s>>[3] = r /\ <<p, q, r, s>>[4] = s
      /\ \A i \in DOMAIN <<p, q, r, s>> : i = 1 \/ i = 2 \/ i = 3 \/ i = 4
  OBVIOUS
<1>2. <<p, q, r, s>> = Append(<<p, q, r>>, s) /\ <<p, q, r>> \in Seq(Pieces)
  OBVIOUS
<1>3. EmbedSize(rest, <<p, q, r, s>>) = EmbedSize(rest, <<p, q, r>>) + Size(s)
  <2>1. EmbedSize(rest, Append(<<p, q, r>>, s)) = EmbedSize(rest, <<p, q, r>>) + Size(s)
    BY <1>2, AppendSize
  <2> QED
    BY <1>2, <2>1, Zenon
<1>4. EmbedSize(rest, <<p, q, r>>) = rest + Size(p) + Size(q) + Size(r)
  BY ThreeFields
<1>5. /\ \A i \in 2..4 : i = 2 \/ i = 3 \/ i = 4
      /\ 2 - 1 = 1 /\ 3 - 1 = 2 /\ 4 - 1 = 3
  OBVIOUS
<1>6. Continuous(<<p, q, r, s>>)
  BY <1>1, <1>5, Zenon DEF Continuous
<1>7. \A i \in DOMAIN <<p, q, r, s>> : Size(<<p, q, r, s>>[i]) \in 1..FieldLimit
  BY <1>1, Zenon
<1> QED
  BY <1>1, <1>3, <1>4, <1>6, <1>7, Zenon

LEMMA JoinedThree ==
    ASSUME NEW p \in Pieces, NEW q \in Pieces, NEW r \in Pieces
    PROVE  <<p, q>> \o <<r>> = <<p, q, r>>
<1>1. <<p, q>> \in Seq(Pieces)
  OBVIOUS
<1>2. ASSUME NEW s \in Seq(Pieces) PROVE s \o <<r>> = Append(s, r)
  OBVIOUS
<1>3. <<p, q>> \o <<r>> = Append(<<p, q>>, r)
  BY <1>1, <1>2, Zenon
<1>4. <<p, q, r>> = Append(<<p, q>>, r)
  OBVIOUS
<1> QED
  BY <1>3, <1>4, Zenon

LEMMA JoinedFour ==
    ASSUME NEW p \in Pieces, NEW q \in Pieces, NEW r \in Pieces, NEW s \in Pieces
    PROVE  <<p, q>> \o <<r, s>> = <<p, q, r, s>>
<1>1. <<p, q>> \in Seq(Pieces)
  OBVIOUS
<1>2. ASSUME NEW t \in Seq(Pieces) PROVE t \o <<r, s>> = Append(Append(t, r), s)
  OBVIOUS
<1>3. <<p, q>> \o <<r, s>> = Append(Append(<<p, q>>, r), s)
  BY <1>1, <1>2, Zenon
<1>4. <<p, q, r>> = Append(<<p, q>>, r) /\ <<p, q, r, s>> = Append(<<p, q, r>>, s)
  OBVIOUS
<1> QED
  BY <1>3, <1>4, Zenon

\* One or two fields behind others.
LEMMA OneMore ==
    ASSUME NEW rest \in Int, NEW f \in Seq(Pieces), NEW p \in Pieces
    PROVE  EmbedSize(rest, f \o <<p>>) = EmbedSize(rest, f) + Size(p)
<1>1. f \o <<p>> = Append(f, p)
  OBVIOUS
<1> QED
  BY <1>1, AppendSize

LEMMA TwoMore ==
    ASSUME NEW rest \in Int, NEW f \in Seq(Pieces), NEW p \in Pieces, NEW q \in Pieces
    PROVE  EmbedSize(rest, f \o <<p, q>>) = EmbedSize(rest, f) + Size(p) + Size(q)
<1>1. f \o <<p, q>> = Append(Append(f, p), q)
  OBVIOUS
<1>2. Append(f, p) \in Seq(Pieces)
  OBVIOUS
<1>3. /\ EmbedSize(rest, Append(f, p)) = EmbedSize(rest, f) + Size(p)
      /\ EmbedSize(rest, Append(Append(f, p), q)) = EmbedSize(rest, Append(f, p)) + Size(q)
  BY <1>2, AppendSize
<1> QED
  BY <1>1, <1>3

\* What one content's fields are like.
Shaped(fields) ==
    /\ fields \in Seq(Pieces)
    /\ Continuous(fields)
    /\ \A i \in DOMAIN fields : Size(fields[i]) \in 1..FieldLimit

\* The fields of the old content.
LEMMA OldFieldsFit ==
    ASSUME NEW rest \in Int, NEW n \in 1..ContentLimit.user
    PROVE  /\ Shaped(OldFields(n))
           /\ EmbedSize(rest, OldFields(n)) \in Int
           /\ EmbedSize(rest, OldFields(n)) <= rest + 3506
           /\ n <= 2000 => EmbedSize(rest, OldFields(n)) <= rest + 2002
           /\ n < 2000 => Complete(OldFields(n), n)
<1> DEFINE f == OldFields(n)
           e == EmbedSize(rest, f)
<1>0. n \in Nat /\ 1 <= n /\ n <= 4000 /\ FieldLimit = 1024
  BY DEF ContentLimit, FieldLimit
<1>1. CASE n <= 1000
  <2>1. Piece(0, n, 0) \in Pieces /\ Piece(0, n, 0).from = 0 /\ Piece(0, n, 0).to = n
        /\ Size(Piece(0, n, 0)) = n /\ n \in 1..FieldLimit
    BY <1>0, <1>1 DEF Piece, Pieces, Size
  <2>2. f = <<Piece(0, n, 0)>>
    BY <1>1 DEF OldFields
  <2> HIDE DEF f
  <2>3. PICK p \in Pieces : p.from = 0 /\ p.to = n /\ Size(p) = n /\ f = <<p>>
    BY <2>1, <2>2
  <2>4. Shaped(f) /\ e = rest + Size(p)
    BY <2>1, <2>3, OneField DEF Shaped
  <2>5. Complete(f, n)
    BY <2>3 DEF Complete
  <2> HIDE DEF e
  <2>6. e \in Int /\ e <= rest + 3506 /\ e <= rest + 2002
    BY <1>0, <1>1, <2>3, <2>4
  <2> QED
    BY <2>4, <2>5, <2>6 DEF e, f
<1>2. CASE 1000 < n /\ n <= 2000
  <2>1. /\ Piece(0, 1000, 1) \in Pieces /\ Piece(0, 1000, 1).from = 0
        /\ Piece(0, 1000, 1).to = 1000 /\ Size(Piece(0, 1000, 1)) = 1001
        /\ Piece(1000, n, 1) \in Pieces /\ Piece(1000, n, 1).from = 1000
        /\ Piece(1000, n, 1).to = n /\ Size(Piece(1000, n, 1)) = n - 999
        /\ 1001 \in 1..FieldLimit /\ n - 999 \in 1..FieldLimit
    BY <1>0, <1>2 DEF Piece, Pieces, Size
  <2>2. f = <<Piece(0, 1000, 1), Piece(1000, n, 1)>>
    BY <1>0, <1>2 DEF OldFields
  <2> HIDE DEF f
  <2>3. PICK p \in Pieces, q \in Pieces :
           /\ p.from = 0 /\ p.to = 1000 /\ Size(p) = 1001
           /\ q.from = 1000 /\ q.to = n /\ Size(q) = n - 999
           /\ f = <<p, q>>
    BY <2>1, <2>2
  <2>4. Shaped(f) /\ e = rest + Size(p) + Size(q)
    BY <2>1, <2>3, TwoFields DEF Shaped
  <2>5. Complete(f, n)
    BY <2>3 DEF Complete
  <2> HIDE DEF e
  <2>6. e \in Int /\ e <= rest + 3506 /\ e <= rest + 2002
    BY <1>0, <1>2, <2>3, <2>4
  <2> QED
    BY <2>4, <2>5, <2>6 DEF e, f
<1>3. CASE 2000 < n /\ n <= 3000
  <2>1. /\ Piece(0, 1000, 1) \in Pieces /\ Piece(0, 1000, 1).from = 0
        /\ Piece(0, 1000, 1).to = 1000 /\ Size(Piece(0, 1000, 1)) = 1001
        /\ Piece(1000, 2000, 2) \in Pieces /\ Piece(1000, 2000, 2).from = 1000
        /\ Piece(1000, 2000, 2).to = 2000 /\ Size(Piece(1000, 2000, 2)) = 1002
        /\ Piece(2000, n, 1) \in Pieces /\ Piece(2000, n, 1).from = 2000
        /\ Size(Piece(2000, n, 1)) = n - 1999
        /\ 1001 \in 1..FieldLimit /\ 1002 \in 1..FieldLimit /\ n - 1999 \in 1..FieldLimit
    BY <1>0, <1>3 DEF Piece, Pieces, Size
  <2>2. f = <<Piece(0, 1000, 1), Piece(1000, 2000, 2)>> \o <<Piece(2000, n, 1)>>
    BY <1>0, <1>3 DEF OldFields
  <2>3. f = <<Piece(0, 1000, 1), Piece(1000, 2000, 2), Piece(2000, n, 1)>>
    BY <2>1, <2>2, JoinedThree
  <2> HIDE DEF f
  <2>4. PICK p \in Pieces, q \in Pieces, r \in Pieces :
           /\ p.from = 0 /\ p.to = 1000 /\ Size(p) = 1001
           /\ q.from = 1000 /\ q.to = 2000 /\ Size(q) = 1002
           /\ r.from = 2000 /\ Size(r) = n - 1999
           /\ f = <<p, q, r>>
    BY <2>1, <2>3
  <2>5. Shaped(f) /\ e = rest + Size(p) + Size(q) + Size(r)
    BY <2>1, <2>4, ThreeFields DEF Shaped
  <2> HIDE DEF e
  <2>6. e \in Int /\ e <= rest + 3506 /\ ~(n <= 2000)
    BY <1>0, <1>3, <2>4, <2>5
  <2> QED
    BY <2>5, <2>6 DEF e, f
<1>4. CASE 3000 < n
  <2> DEFINE last == IF n <= 3500 THEN Piece(3000, n, 1) ELSE Piece(3000, 3500, 2)
  <2>1. /\ Piece(0, 1000, 1) \in Pieces /\ Piece(0, 1000, 1).from = 0
        /\ Piece(0, 1000, 1).to = 1000 /\ Size(Piece(0, 1000, 1)) = 1001
        /\ Piece(1000, 2000, 2) \in Pieces /\ Piece(1000, 2000, 2).from = 1000
        /\ Piece(1000, 2000, 2).to = 2000 /\ Size(Piece(1000, 2000, 2)) = 1002
        /\ Piece(2000, 3000, 1) \in Pieces /\ Piece(2000, 3000, 1).from = 2000
        /\ Piece(2000, 3000, 1).to = 3000 /\ Size(Piece(2000, 3000, 1)) = 1001
        /\ 1001 \in 1..FieldLimit /\ 1002 \in 1..FieldLimit
        /\ \A k \in 2..502 : k \in 1..FieldLimit
    BY <1>0 DEF Piece, Pieces, Size
  <2>2. last \in Pieces /\ last.from = 3000 /\ Size(last) \in 2..502
    <3>1. CASE n <= 3500
      <4>1. /\ Piece(3000, n, 1) \in Pieces /\ Piece(3000, n, 1).from = 3000
            /\ Size(Piece(3000, n, 1)) = n - 3000 + 1
        BY <1>0 DEF Piece, Pieces, Size
      <4>2. n - 3000 + 1 \in 2..502 /\ last = Piece(3000, n, 1)
        BY <1>0, <1>4, <3>1
      <4> HIDE DEF last
      <4> QED
        BY <4>1, <4>2
    <3>2. CASE ~(n <= 3500)
      <4>1. /\ Piece(3000, 3500, 2) \in Pieces /\ Piece(3000, 3500, 2).from = 3000
            /\ Size(Piece(3000, 3500, 2)) = 502
        BY DEF Piece, Pieces, Size
      <4>2. 502 \in 2..502 /\ last = Piece(3000, 3500, 2)
        BY <3>2
      <4> HIDE DEF last
      <4> QED
        BY <4>1, <4>2
    <3> QED
      BY <3>1, <3>2
  <2>3. f = <<Piece(0, 1000, 1), Piece(1000, 2000, 2)>> \o <<Piece(2000, 3000, 1), last>>
    BY <1>0, <1>4 DEF OldFields
  <2> HIDE DEF last
  <2>4. f = <<Piece(0, 1000, 1), Piece(1000, 2000, 2), Piece(2000, 3000, 1), last>>
    BY <2>1, <2>2, <2>3, JoinedFour
  <2> HIDE DEF f
  <2>5. PICK p \in Pieces, q \in Pieces, r \in Pieces, s \in Pieces :
           /\ p.from = 0 /\ p.to = 1000 /\ Size(p) = 1001
           /\ q.from = 1000 /\ q.to = 2000 /\ Size(q) = 1002
           /\ r.from = 2000 /\ r.to = 3000 /\ Size(r) = 1001
           /\ s.from = 3000 /\ Size(s) \in 2..502
           /\ f = <<p, q, r, s>>
    BY <2>1, <2>2, <2>4
  <2>6. Shaped(f) /\ e = rest + Size(p) + Size(q) + Size(r) + Size(s)
    <3>1. /\ p.from = 0 /\ q.from = p.to /\ r.from = q.to /\ s.from = r.to
          /\ Size(p) \in 1..FieldLimit /\ Size(q) \in 1..FieldLimit
          /\ Size(r) \in 1..FieldLimit /\ Size(s) \in 1..FieldLimit
      BY <2>1, <2>5
    <3>2. /\ <<p, q, r, s>> \in Seq(Pieces) /\ Continuous(<<p, q, r, s>>)
          /\ \A i \in DOMAIN <<p, q, r, s>> : Size(<<p, q, r, s>>[i]) \in 1..FieldLimit
          /\ EmbedSize(rest, <<p, q, r, s>>) = rest + Size(p) + Size(q) + Size(r) + Size(s)
      BY <3>1, FourFields
    <3>3. Shaped(<<p, q, r, s>>)
      BY <3>2 DEF Shaped
    <3> QED
      BY <2>5, <3>2, <3>3
  <2> HIDE DEF e
  <2>7. e \in Int /\ e <= rest + 3506 /\ ~(n <= 2000)
    BY <1>0, <1>4, <2>5, <2>6
  <2> QED
    BY <2>6, <2>7 DEF e, f
<1> QED
  BY <1>0, <1>1, <1>2, <1>3, <1>4

\* The fields of the new content, behind those of the old.
LEMMA NewFieldsFit ==
    ASSUME NEW rest \in Int, NEW n \in 1..ContentLimit.user,
           NEW f \in Seq(Pieces), EmbedSize(rest, f) \in Int
    PROVE  /\ Shaped(NewFields(n))
           /\ EmbedSize(rest, f \o NewFields(n)) \in Int
           /\ EmbedSize(rest, f \o NewFields(n)) <= EmbedSize(rest, f) + 2025
           /\ n < 2000 => Complete(NewFields(n), n)
<1> DEFINE g == NewFields(n)
           b == EmbedSize(rest, f)
           e == EmbedSize(rest, f \o g)
<1>0. n \in Nat /\ 1 <= n /\ n <= 4000 /\ FieldLimit = 1024 /\ b \in Int
  BY DEF ContentLimit, FieldLimit
<1>1. CASE n <= 1000
  <2>1. Piece(0, n, 0) \in Pieces /\ Piece(0, n, 0).from = 0 /\ Piece(0, n, 0).to = n
        /\ Size(Piece(0, n, 0)) = n /\ n \in 1..FieldLimit
    BY <1>0, <1>1 DEF Piece, Pieces, Size
  <2>2. g = <<Piece(0, n, 0)>>
    BY <1>1 DEF NewFields
  <2> HIDE DEF g
  <2>3. PICK p \in Pieces : p.from = 0 /\ p.to = n /\ Size(p) = n /\ g = <<p>>
    BY <2>1, <2>2
  <2>4. Shaped(g)
    BY <2>1, <2>3, OneField DEF Shaped
  <2>5. e = b + Size(p)
    BY <2>3, OneMore
  <2>6. Complete(g, n)
    BY <2>3 DEF Complete
  <2> HIDE DEF b, e
  <2>7. e \in Int /\ e <= b + 2025
    BY <1>0, <1>1, <2>3, <2>5
  <2> QED
    BY <2>4, <2>6, <2>7 DEF b, e, g
<1>2. CASE 1000 < n
  <2> DEFINE last == IF n < 2024 THEN Piece(1000, n, 1) ELSE Piece(1000, 2015, 2)
  <2>1. /\ Piece(0, 1000, 1) \in Pieces /\ Piece(0, 1000, 1).from = 0
        /\ Piece(0, 1000, 1).to = 1000 /\ Size(Piece(0, 1000, 1)) = 1001
        /\ 1001 \in 1..FieldLimit
    BY <1>0 DEF Piece, Pieces, Size
  <2>2. /\ last \in Pieces /\ last.from = 1000
        /\ Size(last) \in 2..1024 /\ Size(last) \in 1..FieldLimit
        /\ n < 2000 => last.to = n
    <3>1. CASE n < 2024
      <4>1. /\ Piece(1000, n, 1) \in Pieces /\ Piece(1000, n, 1).from = 1000
            /\ Piece(1000, n, 1).to = n /\ Size(Piece(1000, n, 1)) = n - 1000 + 1
        BY <1>0 DEF Piece, Pieces, Size
      <4>2. n - 1000 + 1 \in 2..1024 /\ n - 1000 + 1 \in 1..FieldLimit
            /\ last = Piece(1000, n, 1)
        BY <1>0, <1>2, <3>1
      <4> HIDE DEF last
      <4>3. last.to = n
        BY <4>1, <4>2
      <4>4. last \in Pieces /\ last.from = 1000 /\ Size(last) = n - 1000 + 1
        BY <4>1, <4>2
      <4>5. Size(last) \in 2..1024 /\ Size(last) \in 1..FieldLimit
        <5> DEFINE k == n - 1000 + 1
                   z == Size(last)
        <5>1. k \in 2..1024 /\ k \in 1..FieldLimit /\ z = k
          BY <4>2, <4>4
        <5> HIDE DEF k, z
        <5>2. z \in 2..1024 /\ z \in 1..FieldLimit
          BY <5>1
        <5> QED
          BY <5>2 DEF z
      <4> QED
        BY <4>3, <4>4, <4>5
    <3>2. CASE ~(n < 2024)
      <4>1. /\ Piece(1000, 2015, 2) \in Pieces /\ Piece(1000, 2015, 2).from = 1000
            /\ Size(Piece(1000, 2015, 2)) = 1017
        BY DEF Piece, Pieces, Size
      <4>2. 1017 \in 2..1024 /\ 1017 \in 1..FieldLimit /\ ~(n < 2000) /\ last = Piece(1000, 2015, 2)
        BY <1>0, <3>2
      <4> HIDE DEF last
      <4> QED
        BY <4>1, <4>2
    <3> QED
      BY <3>1, <3>2
  <2>3. g = <<Piece(0, 1000, 1), last>>
    BY <1>0, <1>2 DEF NewFields
  <2> HIDE DEF g, last
  <2>4. PICK p \in Pieces, q \in Pieces :
           /\ p.from = 0 /\ p.to = 1000 /\ Size(p) = 1001
           /\ q.from = 1000 /\ Size(q) \in 2..1024 /\ Size(q) \in 1..FieldLimit
           /\ (n < 2000 => q.to = n)
           /\ g = <<p, q>>
    BY <2>1, <2>2, <2>3
  <2>5. Shaped(g)
    <3>1. /\ p.from = 0 /\ q.from = p.to /\ Size(p) \in 1..FieldLimit
          /\ Size(q) \in 1..FieldLimit
      BY <2>1, <2>4
    <3>2. Shaped(<<p, q>>)
      BY <3>1, TwoFields, Zenon DEF Shaped
    <3> QED
      BY <2>4, <3>2
  <2>6. e = b + Size(p) + Size(q)
    BY <2>4, TwoMore
  <2>7. n < 2000 => Complete(g, n)
    BY <2>4 DEF Complete
  <2> HIDE DEF b, e
  <2>8. e \in Int /\ e <= b + 2025
    <3> DEFINE x == Size(q)
    <3>1. b \in Int /\ e = b + 1001 + x
      BY <1>0, <2>4, <2>6
    <3>2. x \in 2..1024
      BY <2>4
    <3> HIDE DEF x
    <3> QED
      BY <3>1, <3>2
  <2> QED
    BY <2>5, <2>7, <2>8 DEF b, e, g
<1> QED
  BY <1>0, <1>1, <1>2

\* The rest of a user's embed without PluralKit data, and of a webhook's.
LEMMA RestFacts ==
    /\ Rest("user", "none") = 410
    /\ \A linked \in {"none", "found", "unknown"} :
          Rest("webhook", linked) \in Int /\ Rest("webhook", linked) <= 576
<1>1. /\ NameLimit["user"] = 32 /\ NameLimit["webhook"] = 80
      /\ IDLength = 19 /\ Mention = 22 /\ ID = 23
      /\ Tag("user") = 37 /\ Tag("webhook") = 85
  BY DEF NameLimit, IDLength, Mention, ID, Tag
<1>2. Heading("user", "none") = 142
  BY <1>1 DEF Heading
<1>3. /\ Heading("webhook", "none") = 238 /\ Heading("webhook", "found") = 298
      /\ Heading("webhook", "unknown") = 308
  BY <1>1 DEF Heading
<1> QED
  BY <1>1, <1>2, <1>3 DEF Rest

\* An edit of a user's message without PluralKit data, or of a webhook's, makes an
\* embed that Discord takes, and shows or attaches all of it.
LEMMA EveryEditFits ==
    ASSUME NEW sender \in {"user", "webhook"}, NEW linked \in {"none", "found", "unknown"},
           sender = "user" => linked = "none",
           NEW old \in 1..ContentLimit[sender], NEW new \in 1..ContentLimit[sender]
    PROVE  EditFits(sender, linked, old, new)
<1> DEFINE f == OldFields(old)
           g == NewFields(new)
           rest == Rest(sender, linked)
<1>0. /\ rest \in Int
      /\ old \in 1..ContentLimit.user /\ new \in 1..ContentLimit.user
      /\ \/ rest = 410
         \/ rest <= 576 /\ old <= 2000
  <2>1. /\ ContentLimit[sender] \in {2000, 4000}
        /\ sender = "webhook" => ContentLimit[sender] = 2000
        /\ ContentLimit.user = 4000
    BY DEF ContentLimit
  <2> QED
    BY <2>1, RestFacts
<1> HIDE DEF rest
<1>1. /\ f \in Seq(Pieces)
      /\ \A i \in DOMAIN f : Size(f[i]) \in 1..FieldLimit
      /\ EmbedSize(rest, f) \in Int /\ EmbedSize(rest, f) <= rest + 3506
      /\ old <= 2000 => EmbedSize(rest, f) <= rest + 2002
      /\ Continuous(f) /\ (old < 2000 => Complete(f, old))
  <2>1. /\ Shaped(f) /\ EmbedSize(rest, f) \in Int /\ EmbedSize(rest, f) <= rest + 3506
        /\ old <= 2000 => EmbedSize(rest, f) <= rest + 2002
        /\ old < 2000 => Complete(f, old)
    <3>1. rest \in Int
      BY <1>0
    <3>2. old \in 1..ContentLimit.user
      BY <1>0
    <3>3. EmbedSize(rest, f) \in Int
      BY ONLY <3>1, <3>2, OldFieldsFit
    <3> QED
      BY ONLY <3>1, <3>2, <3>3, OldFieldsFit
  <2> QED
    BY <2>1 DEF Shaped
<1>2. /\ g \in Seq(Pieces)
      /\ \A i \in DOMAIN g : Size(g[i]) \in 1..FieldLimit
      /\ EmbedSize(rest, f \o g) \in Int
      /\ EmbedSize(rest, f \o g) <= EmbedSize(rest, f) + 2025
      /\ Continuous(g) /\ (new < 2000 => Complete(g, new))
  BY <1>0, <1>1, NewFieldsFit DEF Shaped
<1> HIDE DEF f, g
<1>3. f \o g \in Seq(Pieces)
  BY <1>1, <1>2
<1>4. ASSUME NEW i \in DOMAIN (f \o g) PROVE Size((f \o g)[i]) \in 1..FieldLimit
  <2>1. /\ Len(f) \in Nat /\ Len(g) \in Nat /\ i \in 1..(Len(f) + Len(g))
        /\ DOMAIN f = 1..Len(f) /\ DOMAIN g = 1..Len(g)
    BY <1>1, <1>2
  <2>2. CASE i <= Len(f)
    <3>1. i \in DOMAIN f /\ (f \o g)[i] = f[i]
      BY <1>1, <1>2, <2>1, <2>2
    <3> QED
      BY <1>1, <3>1
  <2>3. CASE ~(i <= Len(f))
    <3>1. i - Len(f) \in DOMAIN g /\ (f \o g)[i] = g[i - Len(f)]
      BY <1>1, <1>2, <2>1, <2>3
    <3> QED
      BY <1>2, <3>1
  <2> QED
    BY <2>2, <2>3
<1>5. EmbedSize(rest, f \o g) <= EmbedLimit
  <2>1. EmbedLimit = 6000
    BY DEF EmbedLimit
  <2> QED
    BY <1>0, <1>1, <1>2, <2>1
<1>6. Attached(old, new) \/ (Complete(f, old) /\ Complete(g, new))
  <2>1. CASE old < 2000 /\ new < 2000
    BY <1>0, <1>1, <1>2, <2>1
  <2>2. CASE old >= 2000 \/ new >= 2000
    BY <2>2 DEF Attached
  <2> QED
    BY <2>1, <2>2
<1> QED
  BY <1>1, <1>2, <1>4, <1>5, <1>6 DEF EditFits, f, g, rest
-----------------------------------------------------------------------------
\* Whatever the handlers of messageCreate, pkMessageCreate, messageUpdate and
\* messageDelete interleave, IInv holds.
THEOREM Invariance == Spec => []IInv
<1>1. IInv /\ [Next]_vars => IInv'
  BY TypeStep, TriggersStep, AccountStep, EditsStep, AwakeStep, StayStep, GoStep,
     LogsMadeStep, RoutedStep DEF IInv
<1> QED
  BY InitInvariant, <1>1, PTL DEF Spec

\* No deletion log names an ignored user (messageDelete tests the row's), no edit of
\* one is logged (messageUpdate tests the event's author), and a log of an edit names
\* one only as the account linked to a proxied message, whose author is a webhook.
\* Nothing is logged from an ignored place, and a log goes where the narrowest
\* redirect says (db/channels.go), whatever the store knows of the channels.
THEOREM LogsGoWhereTheyBelong == Spec => []LogsRouted
<1>1. IInv => LogsRouted
  BY DEF IInv
<1> QED
  BY Invariance, <1>1, PTL

\* A row names the account that its PluralKit data are about, and no step takes
\* these data from it: UpdatePKInfo and the upsert of InsertMessage
\* (db/message.go) work in either order.
THEOREM PKInfoStays == Spec => PKInfoKept
<1>1. IInv /\ [Next]_vars =>
         [ /\ AccountMatchesPKInfo'
           /\ \A m \in Messages :
                 row[m] # NoRow /\ row'[m] # NoRow /\ row[m].original # NoMessage =>
                     row'[m].original = row[m].original]_vars
  BY AccountStep
<1> QED
  BY Invariance, <1>1, PTL DEF Spec, PKInfoKept

\* A message whose deletion messageDelete or pkMessageCreate has handled leaves no
\* row behind, if it slept long enough and no query failed.
THEOREM NoRowsLeft == Spec => []DeletedRowsGone
<1>1. IInv => DeletedRowsGone
  BY DEF IInv, RowsGo, Reliable, DeletedRowsGone
<1> QED
  BY Invariance, <1>1, PTL

\* A deleted message that is no trigger has been logged by messageDelete, unless
\* somebody wants it ignored, its log has no channel, a query failed or the bot
\* woke too early.
THEOREM NoDeletionMissed == Spec => []DeletionsLogged
<1>1. IInv => DeletionsLogged
  BY DEF IInv, LogsMade, Reliable, DeletionsLogged
<1> QED
  BY Invariance, <1>1, PTL

\* The embed of a logged edit is within Discord's limits, with the PluralKit fields
\* of a proxied message too, and leaves nothing of either content out that is not
\* attached (messageUpdate), for contents of every length that Discord lets a user
\* or a webhook post: no row has these fields but a webhook's.
THEOREM EditsAlwaysFit == Spec => []EditLogsFit
<1>1. IInv => EditLogsFit
  <2> SUFFICES ASSUME IInv, NEW e \in Edits, editLog[e] # NoRow,
                      NEW sender \in IF EditOf[e] \in Proxies THEN {"webhook"} ELSE {"user", "webhook"},
                      NEW linked \in IF editLog[e].original = NoMessage THEN {"none"} ELSE {"found", "unknown"}
               PROVE  <<sender, linked>> \in EmbedsThatFit
    BY DEF EditLogsFit
  <2>1. /\ sender \in {"user", "webhook"} /\ linked \in {"none", "found", "unknown"}
        /\ sender = "user" => linked = "none"
    BY DEF IInv, AccountMatchesPKInfo, NamesAccount
  <2>2. \A old, new \in Lengths \cap 1..ContentLimit[sender] : EditFits(sender, linked, old, new)
    BY <2>1, EveryEditFits
  <2> QED
    BY <2>1, <2>2 DEF EmbedsThatFit
<1> QED
  BY Invariance, <1>1, PTL
=============================================================================
