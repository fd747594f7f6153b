----------------------------- MODULE MessageLog -----------------------------
(***************************************************************************)
(* Message logging (logging/messages) over the messages table: the         *)
(* handlers messageCreate, pkMessageCreate, messageUpdate and              *)
(* messageDelete.  Every gateway event starts a goroutine of its own, so   *)
(* the handlers of one message overlap: each query, each call of the       *)
(* PluralKit API and each use of a shared set is a step.                   *)
(*                                                                         *)
(* PluralKit replaces a user's message (the trigger, Original[p]) by a     *)
(* webhook message p, deletes the trigger, and announces both in the       *)
(* guild's pk;log channel if there is one.                                 *)
(*                                                                         *)
(* Where a log goes, and whether there is one, is LogRouting's matter: the *)
(* handlers ask the guild's row, and the memory store for the channels,    *)
(* which channelCreate fills.                                              *)
(***************************************************************************)
EXTENDS Naturals, FiniteSets, LogRouting, EditFields

CONSTANTS
    Messages,       \* messages of one channel or thread
    Proxies,        \* the messages posted by PluralKit
    Original,       \* Original[p]: the trigger of p
    Author,         \* Author[m]: the author on Discord
    NewChannels,    \* channels that are created while the bot runs
    Scenes,         \* what may surround the handlers (see scene)
    Edits,          \* message updates with content; an edit names its content
    EditOf,         \* EditOf[e]: the message
    Created,        \* the content a message is created with
    Lengths,        \* lengths of contents
    TestMode,       \* bot.Config.Bot.TestMode
    MaxLate,        \* bounds the deletions that are handled too early (see late)
    MaxFailures,    \* bound on failed queries
    MaxApiFailures, \* bound on failed PluralKit calls
    NoMessage,
    NoRow

\* original is set together with the system and the member (UpdatePKInfo).
Message == [content : Edits \cup {Created}, user : Users, original : Messages \cup {NoMessage}]

ASSUME MessageLogAssumption ==
    /\ Proxies \subseteq Messages
    /\ Original \in [Proxies -> Messages \ Proxies]
    /\ \A p, q \in Proxies : Original[p] = Original[q] => p = q
    /\ Author \in [Messages -> Users]
    /\ NewChannels \subseteq Channels \ Threads
    /\ \A s \in Scenes :
          /\ s.channel \in Channels
          /\ IsGuildConfig(s.config)
          /\ s.posted \subseteq Messages
          /\ s.unlinked \subseteq Proxies
          /\ s.ignored \subseteq Messages
    /\ Lengths \subseteq 1..ContentLimit.user
    /\ EditOf \in [Edits -> Messages]
    /\ Created \notin Edits
    /\ TestMode \in BOOLEAN
    /\ NoMessage \notin Messages
    /\ NoRow \notin Message
    /\ MaxLate \in Nat
    /\ MaxFailures \in Nat
    /\ MaxApiFailures \in Nat

VARIABLES
    create,          \* create[m]: progress of messageCreate
    pkLog,           \* pkLog[p]: progress of pkMessageCreate for p's announcement
    edit,            \* edit[e]: progress of messageUpdate
    delete,          \* delete[m]: progress of messageDelete
    scene,           \* the channel and the messages that are ever posted there, the
                     \* guild's row, the proxies whose system or member
                     \* PluralKit does not name, and the ignored messages
                     \* (IsMessageIgnored); none of this changes
    known,           \* the channels in the memory store
    row,             \* the messages table
    proxyTriggers,   \* Bot.proxyTriggers
    handledMessages, \* Bot.handledMessages
    editLog,         \* editLog[e]: the old row that the log of e shows
    editLogIn,       \* editLogIn[e]: the channel of this log
    deleteLog,       \* deleteLog[m]: the row that the deletion log of m shows
    deleteLogIn,     \* deleteLogIn[m]: the channel of this log
    late,            \* deleted messages whose creation, edits or channel had
                     \* not been stored when their deletion was handled
    failures,        \* queries that failed
    apiFailures      \* PluralKit calls that failed

handlers == <<create, pkLog, edit, delete>>
sets     == <<proxyTriggers, handledMessages>>
logs     == <<editLog, editLogIn, deleteLog, deleteLogIn>>
context  == <<scene, known>>
faults   == <<late, failures, apiFailures>>
vars     == <<handlers, context, row, sets, logs, faults>>

-----------------------------------------------------------------------------
Triggers == {Original[p] : p \in Proxies}
ProxyOf(t) == CHOOSE p \in Proxies : Original[p] = t

TypeOK ==
    /\ create \in [Messages -> {"none", "inserting", "sleeping", "done"}]
    /\ pkLog \in [Proxies -> {"none", "adding", "updating", "deleting", "handling", "done"}]
    /\ edit \in [Edits -> {"none", "checking", "reading", "inserting", "done"}]
    /\ delete \in [Messages -> {"none", "asleep", "checking", "asking", "saving", "purging",
                                "reading", "removing", "done"}]
    /\ scene \in Scenes
    /\ known \subseteq Channels \ Threads
    /\ row \in [Messages -> Message \cup {NoRow}]
    /\ proxyTriggers \subseteq Triggers
    /\ handledMessages \subseteq Proxies
    /\ editLog \in [Edits -> Message \cup {NoRow}]
    /\ editLogIn \in [Edits -> Channels \cup {NoChannel}]
    /\ \A e \in Edits : editLog[e] = NoRow <=> editLogIn[e] = NoChannel
    /\ deleteLog \in [Messages -> Message \cup {NoRow}]
    /\ deleteLogIn \in [Messages -> Channels \cup {NoChannel}]
    /\ \A m \in Messages : deleteLog[m] = NoRow <=> deleteLogIn[m] = NoChannel
    /\ late \subseteq Messages
    /\ Cardinality(late) <= MaxLate
    /\ failures \in 0..MaxFailures
    /\ apiFailures \in 0..MaxApiFailures

Init ==
    /\ create = [m \in Messages |-> "none"]
    /\ pkLog = [p \in Proxies |-> "none"]
    /\ edit = [e \in Edits |-> "none"]
    /\ delete = [m \in Messages |-> "none"]
    /\ scene \in Scenes
    /\ known = Channels \ (Threads \cup NewChannels)
    /\ row = [m \in Messages |-> NoRow]
    /\ proxyTriggers = {}
    /\ handledMessages = {}
    /\ editLog = [e \in Edits |-> NoRow]
    /\ editLogIn = [e \in Edits |-> NoChannel]
    /\ deleteLog = [m \in Messages |-> NoRow]
    /\ deleteLogIn = [m \in Messages |-> NoChannel]
    /\ late = {}
    /\ failures = 0
    /\ apiFailures = 0

-----------------------------------------------------------------------------
\* db/message.go.

QueryFails ==
    /\ failures < MaxFailures
    /\ failures' = failures + 1

\* A write that is done, or fails and changes nothing.
Write(write) ==
    \/ write /\ UNCHANGED failures
    \/ QueryFails /\ UNCHANGED row

\* Slip: on conflict the whole row is written again.
InsertReplacesRow(m, content) ==
    row' = [row EXCEPT ![m] = [content |-> content, user |-> Author[m], original |-> NoMessage]]

\* insert ... on conflict (id) do update set content
InsertMessage(m, content) ==
    row' = [row EXCEPT ![m] =
              IF @ = NoRow THEN [content |-> content, user |-> Author[m], original |-> NoMessage]
              ELSE [@ EXCEPT !.content = content]]

\* Slip: a row that is not there is inserted.
UpdatePKInfoUpserts(p) ==
    row' = [row EXCEPT ![p] = [content |-> IF @ = NoRow THEN Created ELSE @.content,
                               original |-> Original[p], user |-> Author[Original[p]]]]

\* Changes the row if there is one.
UpdatePKInfo(p) ==
    row' = [row EXCEPT ![p] =
              IF @ = NoRow THEN @
              ELSE [@ EXCEPT !.original = Original[p], !.user = Author[Original[p]]]]

DeleteMessage(m) == row' = [row EXCEPT ![m] = NoRow]

HasPKInfo(m) ==
    \E q \in Messages :
        /\ row[q] # NoRow
        /\ row[q].original # NoMessage
        /\ m \in {q, row[q].original}

-----------------------------------------------------------------------------
\* messageCreate.  A trigger precedes its proxy.
CreateSent(m) ==
    /\ create[m] = "none"
    /\ m \in scene.posted
    /\ m \in Proxies => create[Original[m]] # "none"
    /\ create' = [create EXCEPT ![m] = IF \A event \in Events : scene.config.log[event] = NoChannel
                                          THEN "done" ELSE "inserting"]
    /\ UNCHANGED <<pkLog, edit, delete, row, sets, logs, context, faults>>

\* db.Channels or InsertMessage fails: the handler gives up.
CreateFails(m) ==
    /\ create[m] = "inserting"
    /\ QueryFails
    /\ create' = [create EXCEPT ![m] = "done"]
    /\ UNCHANGED <<pkLog, edit, delete, row, sets, logs, context, late, apiFailures>>

CreateInserts(m) ==
    /\ create[m] = "inserting"
    /\ InsertMessage(m, Created)
    /\ create' = [create EXCEPT ![m] = IF m \in Proxies THEN "sleeping" ELSE "done"]
    /\ UNCHANGED <<pkLog, edit, delete, sets, logs, context, faults>>

\* A second later a proxied message is struck off handledMessages.
CreateWakes(m) ==
    /\ create[m] = "sleeping"
    /\ handledMessages' = handledMessages \ {m}
    /\ create' = [create EXCEPT ![m] = "done"]
    /\ UNCHANGED <<pkLog, edit, delete, row, proxyTriggers, logs, context, faults>>

-----------------------------------------------------------------------------
\* pkMessageCreate for the announcement of p, after its pattern checks.  A guild
\* without a pk;log channel is one where this does not come.
AnnouncementSent(p) ==
    /\ pkLog[p] = "none"
    /\ create[p] # "none"
    /\ pkLog' = [pkLog EXCEPT ![p] = "adding"]
    /\ UNCHANGED <<create, edit, delete, row, sets, logs, context, faults>>

\* Slip: the proxy's ID is listed in place of the trigger's.
PkAddsProxy(p) ==
    /\ pkLog[p] = "adding"
    /\ proxyTriggers' = proxyTriggers \cup {p}
    /\ pkLog' = [pkLog EXCEPT ![p] = "updating"]
    /\ UNCHANGED <<create, edit, delete, row, handledMessages, logs, context, faults>>

PkAddsTrigger(p) ==
    /\ pkLog[p] = "adding"
    /\ proxyTriggers' = proxyTriggers \cup {Original[p]}
    /\ pkLog' = [pkLog EXCEPT ![p] = "updating"]
    /\ UNCHANGED <<create, edit, delete, row, handledMessages, logs, context, faults>>

PkUpdates(p) ==
    /\ pkLog[p] = "updating"
    /\ Write(UpdatePKInfo(p))
    /\ pkLog' = [pkLog EXCEPT ![p] = "deleting"]
    /\ UNCHANGED <<create, edit, delete, sets, logs, context, late, apiFailures>>

PkDeletesOriginal(p) ==
    /\ pkLog[p] = "deleting"
    /\ Write(DeleteMessage(Original[p]))
    /\ pkLog' = [pkLog EXCEPT ![p] = "handling"]
    /\ UNCHANGED <<create, edit, delete, sets, logs, context, late, apiFailures>>

PkHandled(p) ==
    /\ pkLog[p] = "handling"
    /\ handledMessages' = handledMessages \cup {p}
    /\ pkLog' = [pkLog EXCEPT ![p] = "done"]
    /\ UNCHANGED <<create, edit, delete, row, proxyTriggers, logs, context, faults>>

-----------------------------------------------------------------------------
\* channelCreate's deferred SetChannel, after its log.  No handler stores a
\* thread, a moved channel or a deletion.
ChannelCreated(c) ==
    /\ c \in NewChannels \ known
    /\ known' = known \cup {c}
    /\ UNCHANGED <<handlers, scene, row, sets, logs, faults>>

Root == RootChannel(known, scene.channel)

\* messageUpdate: an event with content.  An edit follows the message and
\* precedes its deletion.
EditSent(e) ==
    /\ edit[e] = "none"
    /\ create[EditOf[e]] # "none"
    /\ delete[EditOf[e]] = "none"
    /\ edit' = [edit EXCEPT ![e] = "checking"]
    /\ UNCHANGED <<create, pkLog, delete, row, sets, logs, context, faults>>

\* The handler goes on if edits are logged, the root channel is known, and
\* neither the message nor the channel nor the author is ignored.  The author of a
\* proxied message is the webhook, not the account that its row may name.
EditChecks(e) ==
    /\ edit[e] = "checking"
    /\ LET m == EditOf[e]
           goesOn ==
              /\ m \notin scene.ignored
              /\ scene.config.log["update"] # NoChannel
              /\ Root # NoChannel
              /\ ~Ignored(scene.config, scene.channel, Root, Author[m])
       IN  edit' = [edit EXCEPT ![e] = IF goesOn THEN "reading" ELSE "done"]
    /\ UNCHANGED <<create, pkLog, delete, row, sets, logs, context, faults>>

\* IsMessageIgnored or db.Channels fails: nothing is stored either.
EditFails(e) ==
    /\ edit[e] = "checking"
    /\ QueryFails
    /\ edit' = [edit EXCEPT ![e] = "done"]
    /\ UNCHANGED <<create, pkLog, delete, row, sets, logs, context, late, apiFailures>>

ShownEdit(e) ==
    /\ ~TestMode
    /\ row[EditOf[e]] # NoRow
    /\ row[EditOf[e]].content # e
    /\ LogChannel(scene.config, "update", scene.channel, Root) # NoChannel

\* GetMessage and the log, which shows the old row; without it, or when the query
\* fails, only the deferred insert remains.
EditReads(e) ==
    /\ edit[e] = "reading"
    /\ \/ /\ IF ShownEdit(e)
             THEN /\ editLog' = [editLog EXCEPT ![e] = row[EditOf[e]]]
                  /\ editLogIn' = [editLogIn EXCEPT ![e] =
                                     LogChannel(scene.config, "update", scene.channel, Root)]
             ELSE UNCHANGED <<editLog, editLogIn>>
          /\ UNCHANGED failures
       \/ QueryFails /\ UNCHANGED <<editLog, editLogIn>>
    /\ edit' = [edit EXCEPT ![e] = "inserting"]
    /\ UNCHANGED <<create, pkLog, delete, row, sets, deleteLog, deleteLogIn,
                   context, late, apiFailures>>

EditInserts(e) ==
    /\ edit[e] = "inserting"
    /\ Write(InsertMessage(EditOf[e], e))
    /\ edit' = [edit EXCEPT ![e] = "done"]
    /\ UNCHANGED <<create, pkLog, delete, sets, logs, context, late, apiFailures>>

-----------------------------------------------------------------------------
\* messageDelete.  A trigger is deleted once its proxy exists.
DeleteSent(m) ==
    /\ delete[m] = "none"
    /\ create[m] # "none"
    /\ m \in Triggers => create[ProxyOf(m)] # "none"
    /\ delete' = [delete EXCEPT ![m] = "asleep"]
    /\ UNCHANGED <<create, pkLog, edit, row, sets, logs, context, faults>>

\* What messageDelete sleeps for has not come about when it wakes.
TooEarly(m) ==
    \/ create[m] = "inserting"
    \/ \E e \in Edits : EditOf[e] = m /\ edit[e] \in {"checking", "reading", "inserting"}
    \/ Root = NoChannel

\* After the sleep, a known trigger ends the handler.
DeleteWakes(m) ==
    /\ delete[m] = "asleep"
    /\ late' = IF TooEarly(m) THEN late \cup {m} ELSE late
    /\ Cardinality(late') <= MaxLate
    /\ proxyTriggers' = proxyTriggers \ {m}
    /\ delete' = [delete EXCEPT ![m] = IF m \in proxyTriggers THEN "done" ELSE "checking"]
    /\ UNCHANGED <<create, pkLog, edit, row, handledMessages, logs, context,
                   failures, apiFailures>>

\* HasPKInfo, which answers no when the query fails.  The other half of the
\* condition (message_delete.go:35, a message sent before a minute from now)
\* always holds.
DeleteChecks(m) ==
    /\ delete[m] = "checking"
    /\ \/ /\ delete' = [delete EXCEPT ![m] = IF HasPKInfo(m) THEN "reading" ELSE "asking"]
          /\ UNCHANGED failures
       \/ /\ QueryFails
          /\ delete' = [delete EXCEPT ![m] = "asking"]
    /\ UNCHANGED <<create, pkLog, edit, row, sets, logs, context, late, apiFailures>>

\* Slip: a proxy itself is taken for a trigger.
DeleteIgnoresProxies(m) ==
    /\ delete[m] = "asking"
    /\ delete' = [delete EXCEPT ![m] =
          IF m \in Proxies THEN "done"
          ELSE IF m \notin Triggers THEN "reading"
          ELSE IF ProxyOf(m) \in scene.unlinked THEN "done" ELSE "saving"]
    /\ UNCHANGED <<create, pkLog, edit, row, sets, logs, context, faults>>

\* PluralKit names the proxy of a trigger; any other message, or an error, is
\* logged as usual.
DeleteAsks(m) ==
    /\ delete[m] = "asking"
    /\ delete' = [delete EXCEPT ![m] =
          IF m \notin Triggers THEN "reading"
          ELSE IF ProxyOf(m) \in scene.unlinked THEN "done" ELSE "saving"]
    /\ UNCHANGED <<create, pkLog, edit, row, sets, logs, context, faults>>

DeleteAsksInVain(m) ==
    /\ delete[m] = "asking"
    /\ apiFailures < MaxApiFailures
    /\ apiFailures' = apiFailures + 1
    /\ delete' = [delete EXCEPT ![m] = "reading"]
    /\ UNCHANGED <<create, pkLog, edit, row, sets, logs, context, late, failures>>

DeleteSavesProxy(m) ==
    /\ delete[m] = "saving"
    /\ Write(UpdatePKInfo(ProxyOf(m)))
    /\ delete' = [delete EXCEPT ![m] = "purging"]
    /\ UNCHANGED <<create, pkLog, edit, sets, logs, context, late, apiFailures>>

DeletePurgesTrigger(m) ==
    /\ delete[m] = "purging"
    /\ Write(DeleteMessage(m))
    /\ delete' = [delete EXCEPT ![m] = "done"]
    /\ UNCHANGED <<create, pkLog, edit, sets, logs, context, late, apiFailures>>

\* db.Channels fails, or no delete log is set: the row is not removed.
DeleteGivesUp(m) ==
    /\ delete[m] = "reading"
    /\ IF scene.config.log["delete"] # NoChannel THEN QueryFails ELSE UNCHANGED failures
    /\ delete' = [delete EXCEPT ![m] = "done"]
    /\ UNCHANGED <<create, pkLog, edit, row, sets, logs, context, late, apiFailures>>

Shown(m) ==
    /\ ~TestMode
    /\ row[m] # NoRow
    /\ Root # NoChannel
    /\ ~Ignored(scene.config, scene.channel, Root, row[m].user)
    /\ LogChannel(scene.config, "delete", scene.channel, Root) # NoChannel

\* GetMessage, the ignores and the log; then the deferred DeleteMessage.
DeleteLogs(m) ==
    /\ delete[m] = "reading"
    /\ scene.config.log["delete"] # NoChannel
    /\ \/ /\ IF Shown(m)
             THEN /\ deleteLog' = [deleteLog EXCEPT ![m] = row[m]]
                  /\ deleteLogIn' = [deleteLogIn EXCEPT ![m] =
                                       LogChannel(scene.config, "delete", scene.channel, Root)]
             ELSE UNCHANGED <<deleteLog, deleteLogIn>>
          /\ UNCHANGED failures
       \/ QueryFails /\ UNCHANGED <<deleteLog, deleteLogIn>>
    /\ delete' = [delete EXCEPT ![m] = "removing"]
    /\ UNCHANGED <<create, pkLog, edit, row, sets, editLog, editLogIn, context, late, apiFailures>>

DeleteRemoves(m) ==
    /\ delete[m] = "removing"
    /\ Write(DeleteMessage(m))
    /\ delete' = [delete EXCEPT ![m] = "done"]
    /\ UNCHANGED <<create, pkLog, edit, sets, logs, context, late, apiFailures>>

-----------------------------------------------------------------------------
Next ==
    \/ \E m \in Messages :
          \/ CreateSent(m) \/ CreateFails(m) \/ CreateInserts(m) \/ CreateWakes(m)
          \/ DeleteSent(m) \/ DeleteWakes(m) \/ DeleteChecks(m)
          \/ DeleteAsks(m) \/ DeleteAsksInVain(m)
          \/ DeleteSavesProxy(m) \/ DeletePurgesTrigger(m)
          \/ DeleteGivesUp(m) \/ DeleteLogs(m) \/ DeleteRemoves(m)
    \/ \E p \in Proxies :
          \/ AnnouncementSent(p) \/ PkAddsTrigger(p) \/ PkUpdates(p)
          \/ PkDeletesOriginal(p) \/ PkHandled(p)
    \/ \E c \in NewChannels : ChannelCreated(c)
    \/ \E e \in Edits :
          EditSent(e) \/ EditChecks(e) \/ EditFails(e) \/ EditReads(e) \/ EditInserts(e)

Spec == Init /\ [][Next]_vars

-----------------------------------------------------------------------------
Settled ==
    /\ \A m \in Messages : create[m] \in {"none", "done"} /\ delete[m] \in {"none", "done"}
    /\ \A p \in Proxies : pkLog[p] \in {"none", "done"}
    /\ \A e \in Edits : edit[e] \in {"none", "done"}

Sender(m) == IF m \in Proxies THEN Author[Original[m]] ELSE Author[m]

\* message_create.go:150-151: a trigger is listed "so that we don't log it
\* being deleted".  Without an announcement the PluralKit API stands in for the
\* list, as long as it answers.
TriggersNotLogged ==
    apiFailures = 0 => \A t \in Triggers : deleteLog[t] = NoRow

\* The four handlers write the same rows in any order.  A row, and each log made
\* from it, names the account that the PluralKit data beside it is about: the
\* trigger's author with them, the message's own without.
NamesAccount(r, m) ==
    /\ r.original = NoMessage => r.user = Author[m]
    /\ r.original # NoMessage => m \in Proxies /\ r.original = Original[m] /\ r.user = Sender(m)

AccountMatchesPKInfo ==
    /\ \A m \in Messages : \A r \in {row[m], deleteLog[m]} \ {NoRow} : NamesAccount(r, m)
    /\ \A e \in Edits : editLog[e] # NoRow => NamesAccount(editLog[e], EditOf[e])

\* That is so after every step, and no step takes PluralKit data from a row:
\* messageCreate and messageUpdate insert a message that may have them already;
\* on conflict only the content changes (message.go:81-82).
PKInfoKept ==
    [][ /\ AccountMatchesPKInfo'
        /\ \A m \in Messages :
              row[m] # NoRow /\ row'[m] # NoRow /\ row[m].original # NoMessage =>
                  row'[m].original = row[m].original]_vars

\* When what messageDelete sleeps for has come about, no row of a deleted
\* message is left behind, a trigger's neither, whether it was listed or PluralKit
\* was asked about it, unless it was announced (its insert may follow the
\* announcement, and messageDelete then leaves the row) or PluralKit does not name
\* its system.
DeletedRowsGone ==
    Settled /\ failures = 0 /\ scene.config.log["delete"] # NoChannel =>
        \A m \in Messages \ late :
            /\ delete[m] = "done"
            /\ m \in Triggers => pkLog[ProxyOf(m)] = "none" /\ ProxyOf(m) \notin scene.unlinked
            => row[m] = NoRow

\* Then a deleted message that nobody wants ignored and that is no trigger has
\* been logged, whatever became of its announcement and its PluralKit data
\* meanwhile, and where the narrowest redirect says.
DeletionsLogged ==
    Settled /\ failures = 0 /\ scene.config.log["delete"] # NoChannel /\ ~TestMode =>
        \A m \in Messages \ (Triggers \cup late) :
            /\ delete[m] = "done"
            /\ \A u \in {Author[m], Sender(m)} : Wanted(scene.config, scene.channel, u)
            => deleteLog[m] # NoRow \/ BelongsIn(scene.config, "delete", scene.channel, NoChannel)

\* Whatever the handlers read and when, and whatever the store knows of the
\* channels: nothing is logged from a place that is ignored, be it by way of the
\* category, and a log goes where the narrowest redirect of Discord's tree says, not
\* to one of a wider place or to the default.  Nor does a deletion log name an
\* ignored user.  messageUpdate has a copy of this check that asks another question,
\* of who sent the event (message_update.go:67-75) and not of whom the row names
\* (message_delete.go:118-126).  For a proxied message that is a webhook: the edit is
\* logged although the account that its log names is ignored.  That is the one
\* exception; no other log of an edit names an ignored user.
LogsRouted ==
    /\ \A m \in Messages : deleteLog[m] # NoRow =>
          /\ Wanted(scene.config, scene.channel, deleteLog[m].user)
          /\ BelongsIn(scene.config, "delete", scene.channel, deleteLogIn[m])
    /\ \A e \in Edits : editLog[e] # NoRow =>
          /\ EditOf[e] \notin scene.ignored
          /\ Wanted(scene.config, scene.channel, Author[EditOf[e]])
          /\ \/ Wanted(scene.config, scene.channel, editLog[e].user)
             \/ EditOf[e] \in Proxies /\ editLog[e].original # NoMessage
          /\ BelongsIn(scene.config, "update", scene.channel, editLogIn[e])

\* Who sent a message, what the old row has of PluralKit: the embeds that fit,
\* whatever the lengths of the contents.
EmbedsThatFit ==
    {e \in {<<sender, linked>> : sender \in {"user", "webhook"},
                                 linked \in {"none", "found", "unknown"}} :
        \A old, new \in Lengths \cap 1..ContentLimit[e[1]] : EditFits(e[1], e[2], old, new)}

\* An edit that is logged makes an embed that Discord takes, and what does not fit
\* into it is attached.  A user's message, of 4000 characters, fits with nothing to
\* spare for the PluralKit fields: that the embed fits hangs on no row but a proxy's,
\* a webhook's, ever having PluralKit data.
EditLogsFit ==
    \A e \in Edits : editLog[e] # NoRow =>
        LET senders == IF EditOf[e] \in Proxies THEN {"webhook"} ELSE {"user", "webhook"}
            links   == IF editLog[e].original = NoMessage THEN {"none"} ELSE {"found", "unknown"}
        IN  \A sender \in senders, linked \in links : <<sender, linked>> \in EmbedsThatFit
-----------------------------------------------------------------------------
\* Only a trigger that was announced is listed; only a trigger's row is purged.
TriggersListed ==
    /\ \A t \in proxyTriggers : \E p \in Proxies : Original[p] = t /\ pkLog[p] # "none"
    /\ \A m \in Messages : delete[m] \in {"saving", "purging"} => m \in Triggers

\* An edit that has been checked stays one to be logged, for no channel leaves the
\* store.
EditsChecked ==
    \A e \in Edits : edit[e] = "reading" =>
        /\ EditOf[e] \notin scene.ignored
        /\ Root # NoChannel
        /\ ~Ignored(scene.config, scene.channel, Root, Author[EditOf[e]])

\* What a deletion that is not late has slept for has come about, and nothing is
\* inserted any more.
AwakeInTime ==
    \A m \in Messages :
        /\ delete[m] # "none" => create[m] # "none"
        /\ delete[m] \notin {"none", "asleep"} /\ m \notin late =>
              /\ create[m] # "inserting"
              /\ Root # NoChannel
              /\ \A e \in Edits : EditOf[e] = m => edit[e] \in {"none", "done"}

Reliable == failures = 0 /\ scene.config.log["delete"] # NoChannel

\* While queries do not fail, a row that was inserted stays until its deletion has
\* been logged, but for a trigger's.
RowsStay ==
    Reliable => \A m \in Messages \ Triggers :
        create[m] \in {"sleeping", "done"} /\ delete[m] \notin {"removing", "done"} =>
            row[m] # NoRow

\* DeletedRowsGone and DeletionsLogged, while handlers are under way.
RowsGo ==
    Reliable => \A m \in Messages \ late :
        /\ delete[m] = "done"
        /\ m \in Triggers => pkLog[ProxyOf(m)] = "none" /\ ProxyOf(m) \notin scene.unlinked
        => row[m] = NoRow

LogsMade ==
    Reliable /\ ~TestMode => \A m \in Messages \ (Triggers \cup late) :
        /\ delete[m] \in {"removing", "done"}
        /\ \A u \in {Author[m], Sender(m)} : Wanted(scene.config, scene.channel, u)
        => deleteLog[m] # NoRow \/ BelongsIn(scene.config, "delete", scene.channel, NoChannel)

\* The inductive invariant.
IInv ==
    /\ TypeOK
    /\ TriggersListed
    /\ AccountMatchesPKInfo
    /\ EditsChecked
    /\ AwakeInTime
    /\ RowsStay
    /\ RowsGo
    /\ LogsMade
    /\ LogsRouted
=============================================================================
