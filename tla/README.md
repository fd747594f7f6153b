# Catalogger in TLA+

A verification development for catalogger, a Discord bot written in Go that
logs what happens in a server (edited and deleted messages, roles, channels,
invites) to log channels, through webhooks. The modules here are read from the
source beside them; `PROJECT.json` maps every definition that stands for code
to its lines.

## 1. The system

The bot holds one gateway connection per shard. Every gateway event is handed
to each handler registered for its type **in a goroutine of its own**
(`bot/bot.go`, `AddHandler`), so two events about the same message, role or
guild are handled side by side, in either order of completion. What the
handlers share is Redis, PostgreSQL, a store of guilds, channels and roles in
memory, a few sets and maps under mutexes, and one queue of embeds per webhook.

| component | state | operations | used by |
|---|---|---|---|
| embed queue (`bot/queue.go`) | per webhook: slice of embeds, timer, mutex | `queue`, the `AfterFunc` callback, `queueInner` | every log handler, through `Send` |
| log dispatch and webhook cache (`bot/queue.go`, `bot/webhooks.go`) | webhook of each channel in Redis, clients in a map | `Send`, `getWebhook`, `webhookClient` | every log handler |
| guild cache filling (`logging/cache`) | two sets of guilds to fetch per shard (memory); members, invites, cached guilds (Redis) | `guildCreate`, `fetchLoop`, `fetchOneGuild`, `guildMembersChunk` | gateway, ticker |
| message logging (`logging/messages`, `db/message.go`) | `messages` table; `proxyTriggers`, `handledMessages` | `messageCreate`, `pkMessageCreate`, `messageUpdate`, `messageDelete` | gateway; asks the PluralKit API |
| log channels, redirects, ignores (`db/channels.go`) | one row per guild | `Channels`, `SetChannels`, `For` | message logging, `Send`, configuration |
| memory store (`store/memory`) | maps of guilds, channels, roles and a list of IDs per guild | `Set*`, `Remove*`, `Role(s)`, `Channel(s)`, `RootChannel` | role, channel and message logging, configuration |
| role, channel and invite logging (`logging/roles`, `channels`, `invites`) | none of their own | one handler per event | gateway |
| configuration menu (`commands/config`) | a copy of the guild's channels for up to ten minutes | `/config channels` and its buttons | users |
| guild logging (`logging/meta`, `db/guild.go`) | the guild's row in `guilds` | `guildCreate`, `CreateGuild` | gateway |
| metrics (`bot/metrics`) | counters under four mutexes | `IncRequests` and its like, `submit`, `submitInner` | the HTTP client of the bot, a ticker |
| import (`cmd/importdb`) | two databases | `run`, `cleanNewDatabase`, `doMigrateMessages` | the operator |
| durations (`common/duration`) | - | `FormatTime` | role logging |
| user cache (`bot/users.go`) | a map under a mutex | `GuildUser` | message and channel logging |

What makes this hard to test, and where it bites, is the list of hazards in
`PROJECT.json`. In short: timers that fire while another goroutine stops them;
a lock held over a network call and one released before it; overlapping fetches
that retry; sets in memory against marks in Redis across a restart; four
handlers that write the same row in an order nobody controls; reads before a
sleep or a query that are used after it.

What makes each component correct:

- *Embed queue*: an embed is in one place until its post has ended, is posted
  at most once and, while the process runs, at last; a post holds at most five
  embeds and is one that Discord takes; a waiting embed always has a timer.
- *Webhook cache*: embeds reach the channel they are meant for; only faults lose
  them; the webhooks created by calls that race stay bounded.
- *Guild cache*: a guild is marked as cached only when its members are stored;
  no guild is forgotten between its queue, a goroutine and the gateway; both
  lists are fetched at last.
- *Message logging*: a proxied trigger is not logged as deleted and its row goes
  away; a row names one account consistently; every other deletion is logged;
  a deleted message leaves no row.
- *Memory store and role logging*: the lists and the maps agree, and the store
  holds what Discord holds once the handlers are done.
- *Invites*: once the handlers are done the stored list is Discord's; deletions
  are logged.
- *Configuration*: a choice made in a menu survives all but a menu that was open
  when it was made; a session ends, and takes its buttons away.
- *Routing*: what is ignored, in a channel or above it, is not logged (but see
  `LogsRouted` in section 3); a log goes where the narrowest redirect says; an
  edit's embed is one that Discord takes.
- *Guild row*: it is made once and never anew; a join is logged once.
- *Metrics*: what is counted is reported once, and the totals agree.
- *Import*: a finished one has copied every message; one that began with empty
  tables holds nothing else, at any moment.

## 2. Modules

| module | stands for | role |
|---|---|---|
| `LogDelivery` | - | what a webhook's queue promises, without lock, timer or slice |
| `EmbedQueue` | `bot/queue.go` 105-194, `cmd/bot/cmd.go` 67-85 | one webhook's queue, with its callers, callbacks and shutdown |
| `GuildFetch` | `logging/cache`, the Redis marks | one shard's guilds from `GUILD_CREATE` to cached |
| `LogRouting` | `db/channels.go`, `RootChannel`, the checks of `logging/messages` | ignores and redirects over a channel tree, and what they should come to |
| `EditFields` | `message_update.go` 117-280, 297-309 | the embed of an edit: the fields and the attachment that hold its two contents, and the size of the rest |
| `MessageLog` | `logging/messages`, `db/message.go`, `channelCreate` | one channel's messages under the four handlers, on `LogRouting` and `EditFields` |
| `WebhookCache` | `bot/queue.go` 27-82, `bot/webhooks.go` | calls of `Send` and the webhooks of their channels |
| `MemoryStore` | `store/memory` | the store of IDs and values, as operators |
| `Durations` | `common/duration` | how an age is shown, and read |
| `RoleLog` | `logging/roles`, the roles of `GUILD_CREATE` | one guild's roles under the handlers, on `MemoryStore` and `Durations` |
| `InviteCache` | `logging/invites`, the fetch of `logging/cache` | one guild's invites under their three writers |
| `GuildLog` | `logging/meta`, `db/guild.go` | one guild's row and the log of joining it |
| `ConfigMenu` | `commands/config`, `common/wait_for.go` | sessions of `/config channels` in one guild, beside `GuildLog` |
| `Metrics` | `bot/metrics/metrics.go` | counters, submissions, and the end of the process |
| `ImportMessages` | `cmd/importdb` | the copy of an old database's messages, over several attempts |
| `...Proofs` | - | theorems about the module of the name; `ConfigMenuProofs` is about `GuildLog` too, `MessageLogProofs` about `LogRouting` and `EditFields`, `RoleLogProofs` about `MemoryStore` and `Durations`, `EmbedQueueProofs` about `Metrics`, because both are about folds |
| `MC...` | - | instances for TLC |

In each module a definition named after a fault of programming and commented
"Slip" is a changed form of the definition that follows it; the specification
never uses it. The slips are the mutants of `PROJECT.json`, with which each
property is shown to depend on the code. A definition that is a conjunct of a
property (`CountedOnce`, `AccountMatchesPKInfo`, `StoredAreListed`, `ArrivesAsMeant`)
is checked as a part of it. So are the conjuncts of `IInv`, the inductive invariant
of each module with proofs: `TypeOK` and what section 4 says of it. The run `import`
has the two properties that `IInv` is for and not `IInv` itself, which TLC finds to
hold there too.

### EmbedQueue

A call of `bot.queue` is named by the one embed it brings, and the callback it
may arm by the same embed, so that `call`, `callback` and `batch` (the local
`embeds` of either) are functions of embeds. `queue` and `timer` are `q.queue`
and `q.timer`. Code between `q.mu.Lock` and `Unlock` that does not leave the
process is one step. Two places leave it: an overflowing caller posts with the
lock held (`Overflow`, then `FlushReturns`; `Locked` is true between them), and
a callback posts after releasing it (`Collect`, then `CallbackReturns`).
`TimerFires` is the runtime starting the callback: from then on `timer.Stop` no
longer stops it, which is why `Overflow` ends only an armed callback. `Collect`
clears `q.timer` whoever's timer it is, as line 165 does. A post has one result
for all its embeds; Discord never takes an empty post or one with too many
characters (`Postable`). `Shutdown` is the interrupt of `cmd/bot/cmd.go`.
`Length` is `Embed.Length`, any natural number, also for embeds too long for
any message.

### GuildFetch

`guildCreate` is two steps, up to the answer of `IsGuildCached` and the part
under the mutex; `fetchOneGuild` is one step under the mutex (`PickGuilds`) and
one for each request it makes, per `Workers` member, so that fetches overlap.
`wire` holds the chunks Discord owes, in order; each chunk then has a handler
of its own (`handling`), and the handler of the last one marks the guild
(`marking`). Members are stored by chunk. Faults come in five kinds (`send`,
`rest`, `redis`, `reconnect`, `restart`), each with a bound. A `Restart` clears
what is in memory and keeps what is in Redis. Line 96 of `fetch_queue.go` puts
the *member* guild into the *invite* queue after a failed invite request;
`ListFails` does what the code does. `setting`, chosen at the start, is an
instance: which guilds, how many overlapping fetches, and how many faults of
each kind; a run checks all its settings at once. `Undisturbed` says that no
fault has happened that the code has no answer to.

### LogRouting, EditFields and MessageLog

`LogRouting` has the two ways of looking at a place: `Path`, `Ignored` and
`LogChannel` are what the handlers do with the root channel that the store
gives them; `Within`, `Wanted` and `BelongsIn` say what the tree on Discord asks
for. `EditFields` is the arithmetic of `messageUpdate` on lengths: `OldFields` and
`NewFields` are the pieces of the contents in the embed's fields, `Attached` what
the attached file holds, `Rest` all else in the embed at its longest. How long that
is depends on who sent the message, for a webhook's name may be longer than a user's
(`Tag`), and on the old row (`Heading`): with PluralKit data in it the title names the
proxy, the field of the sender shows the linked account, with its tag if `GuildUser`
finds it, and three fields follow. `EditFits` asks that the pieces follow each other
without gap or overlap, that nothing is missing from embed and file together,
and that the embed keeps Discord's limits.

Messages are plain, proxies, or triggers (the originals of proxies); each has
at most one run of each handler, and each handler is a program counter with one
step per query or set operation. `row` is the `messages` table (content, user,
`original_id`); the insert keeps user and PluralKit data on a conflict, as the
SQL does. `deleteLog` and `editLog` record the row that was shown in a log handed to
`Send`, `deleteLogIn` and `editLogIn` for which channel. `scene` is what surrounds
the handlers and does not change: the channel or thread, the guild's row, the
messages that are posted, the proxies whose system or member PluralKit does not name
(`unlinked`), and the rows of `ignored_messages` (`ignored`), which `messageUpdate`
asks for and nothing in the repository writes. A guild without a pk;log channel is
one in which no announcement comes.
`known` is the memory store's channels: a new channel enters with
`ChannelCreated`, after its log; a thread never does, for no handler stores one,
so that `RootChannel` fails for it.

Every query may fail while `failures` is below `MaxFailures`, and the PluralKit
API likewise. Discord's own order is kept (a message before its edits, a
trigger's proxy before its deletion, an announcement after its proxy); the
handlers of these events run in any order. `messageDelete` sleeps so that the
handlers of earlier events may end; `late` remembers the messages for which they
had not, or whose channel was not stored, and the properties that rely on this
except them.

### WebhookCache

A call of `Send` is named by an element of `Sends`, and a webhook it creates by
the same name; `Own` tells these from the webhooks others have made. Steps end
where the code leaves the process: channel lookup, Redis, Discord's list,
creation, Redis again, post. `ready` is `bot.user`, set by the first shard's
`Ready`: without it no webhook is recognised, and a creation without a name is
refused. `DeleteHook` removes a webhook on Discord; nothing tells the bot.
What happens to an embed in the queue is `EmbedQueue`; here `Post` follows at
some time.

### MemoryStore and RoleLog

`MemoryStore` has a map and the list of its IDs, with `Shifted` for `remove`:
the code shifts the array in place and drops the shorter slice, so that the
list keeps its length. `RoleLog` has one handler per event: it reads the old
role and sends the log, then stores or removes the role in its deferred
function (`Save`, or within `LogUpdate`, `LogDelete` where they return early).
Changes arrive in order, handlers finish in any order. While the shard is
disconnected changes bring no events; `Reconnect` brings a snapshot, whose
handler is one more writer. `overlapped` remembers the roles of which two
handlers ran at once: for these the code promises nothing.

### InviteCache

A writer is a handler or a fetch; it takes Discord's list (`List`) and stores it
(`Store`), after its log if it has one. `crossed` remembers that a list was
taken while an earlier one waited to be stored, `failed` that a request failed;
both are forgotten when a writer starts in a quiet guild.

### GuildLog and ConfigMenu

A session is a program counter through `channelsEntry` and `channelPage`; it
copies the row at `Open`, and `Save` writes the copy back after each page.
`pressed` holds what users pressed and the bot has not seen; `WaitFor` hears it
only in the menu or on a page, with the filter of each, else it is lost. `hctx`
is the interaction that the menu is to be answered to: `none` after a button
that the menu's switch does not know, `answered` after a page that ended with
no press. `choice`, `stale` and `lost` keep account of what the users chose.

`GuildLog` owns the row (`config`, which is `NoRow` before the first
`CreateGuild`), and its steps run between those of the sessions. A `GUILD_CREATE`
carries the time of the join; a handler that finds the row and a join of more
than a minute ago sends nothing. `recent` is the joins that are younger.
`setting` holds the row at the start and the bounds of the instance.

### Metrics

A submission takes the counters mutex by mutex, so that every `Take` is a step,
and writes three points, each a step: `hand` is what its locals hold between.
`buffer` is what `WritePoint` has been given and the InfluxDB client has not sent.
Two goroutines wait for signals: `submit` for SIGINT and SIGTERM, the main one
for SIGINT only. Only `IncRequests` is called in the repository; the other
counters are modelled as the client offers them. All arithmetic on counters is
`Wrapped`, that of `uint32`, at a width of choice.

### ImportMessages

`Begin` to `Ends` is one run of the command; a statement on either database is a
step and may fail, and the command may be killed between any two. `msgs` is the
rest of the page in memory, pairs of an ID and a row, of which the one with the
smallest ID is inserted next (`First`); a page is sorted by its IDs. `nextTable` is the
index of the table that `cleanNewDatabase` empties next. The old bot's writes are interleaved. `steady` and
`seen` are about the run that began last: the messages that did not change since,
and all rows there were. A message that cannot be decrypted is one whose content
is `Corrupt`. Whatever happens, `run` returns no error once the copy has begun.

### Durations

`Split` takes units off a duration one after the other; which units depends on
its size. `Read` is what a reader makes of the result. `RoleLog` uses it in the
log of a deletion.

## 3. Runs

| run | question | result |
|---|---|---|
| `embed_queue` | four callers and timers, a queue of two embeds or eight characters: is an embed ever lost, doubled, stranded, or in an unacceptable post? Is it posted while the process runs, and does the queue implement `LogDelivery`, fairness included? | never; yes |
| `guild_fetch` | two guilds, one that hides its invites, with a failed chunk request and a lost session; and one guild, two overlapping fetches, one fault of each kind: are both lists fetched at last, and what holds whatever fails? | they are; nothing is forgotten and a mark means stored members, up to Redis errors |
| `guild_fetch_rest` | two guilds with one failed invite request | violated: the wrong guild is put back |
| `message_log` | a plain message, or a trigger and its proxy, with edits and deletions, in old and new channels and a thread, under redirects and ignores, with late handlers, a failing query and a failing API: rows and logs | consistent, complete but for what came too early, and routed; an edit is checked for its author only |
| `message_log_trigger` | with an announcement, is a trigger ever logged? | violated: the set is read once, before the announcement is handled |
| `webhook_cache` | overlapping calls for two channels, a failed request, a deleted webhook and a restart: do embeds reach the right channel, how many webhooks are made? | they do, unless a request fails; as many as calls overlap, per life of the process |
| `role_log` | three roles, a gap in the connection: is the store right, are the logs, and the ages in them? | yes, for roles whose handlers did not overlap |
| `invite_cache` | four writers, one failed request: is the list right, are deletions logged? | yes, unless lists cross |
| `config_menu` | two sessions side by side or in turn: are choices kept? | yes, but for menus opened before the choice |
| `config_menu_session` | one session, one failure, late, lost and doubled presses, and `GUILD_CREATE`s: how does it end, is the row made once, are joins logged once? | it ends; buttons stay only after a page's timeout, and a panic takes a second press; yes |
| `metrics` | two overlapping submissions, counts between their mutexes, an interrupt: is each count reported, and once? | yes, at last, until a signal comes |
| `import` | imports that fail, are killed and started again while the old bot writes: what does the target hold? | all of it when one has finished; nothing else if the tables were emptied |

A run that is violated refutes a sentence of the repository, quoted in
`PROJECT.json` under "findings".

What a property excepts is where the code goes another way, and the modules show
how when the exception is dropped:

- `CachedMeansStored`, `EventuallyFetched`: the last chunk marks the guild whatever
  became of the others; after one failed Redis write, or a restart while earlier
  chunks are handled, a marked guild lacks members for good.
- `NeverForgotten`: only the members' mark survives a restart, so that a
  restart between the two lists leaves the invites unfetched.
- `DeletedRowsGone`: an announced trigger that is inserted after the
  announcement deleted it keeps its row, for `messageDelete` returns early. A
  trigger whose announcement has not come is not excepted: the API stands in.
- `LogsRouted`: the two copies of the check of ignored users ask different questions.
  `messageDelete` asks for the user of the row (118-126), which for a proxied message
  is the account linked to it; `messageUpdate` asks for the author of the event
  (67-75), which is the webhook, and then shows the linked account (235-256). An edit
  of an ignored user's proxied message is thus logged under that user's name, while
  its deletion is not. No doc says which is meant, so that this is no finding; the
  property excepts it and nothing else. The run reaches it where Bob is ignored in
  the category.
- `EditLogsFit`: lengths are Discord's to bound. With contents of 4000 characters the
  embed of a user's message has 5941 of the 6000 that Discord takes, and the PluralKit
  fields would not fit beside them; they appear only for messages that a webhook
  posted, whose contents have 2000 at most. The code itself tests neither length.
- `DeletionsLogged`, `DeletedRowsGone` (`late`): messages in threads are neither
  stored after an edit nor logged, for no thread is ever in the store, although
  `message_update.go` and `message_delete.go` look for a thread's parent; nor are
  those of a channel whose own log is still on its way.
- `JoinLoggedOnce`: after a failed query a known guild is logged as new, and two
  `GUILD_CREATE`s in the first minute are two logs.
- `EventuallyReported`: SIGTERM ends `submit` (line 112 of `metrics.go`) and not the
  bot, whose main goroutine waits for SIGINT: the bot runs on and its counts stay
  where they are. What a submission writes after the flush may not be sent.
- `OnlyThisRun`: the warning that the import "will delete any data already stored
  in the target database" (`cmd.go` 47) is true when no statement fails; when one
  does, the copy goes on over what is left, and rows under the same ID keep their
  accounts (`CopiedAll` says no more than content then). The usage text (line 20)
  also names guild settings, which are deleted and not imported.
- `LostOnlyByFaults`: a webhook deleted on Discord stays in Redis.
- `StoredAreListed`, a part of `StoreFollowsDiscord`, has no converse: `RemoveRole` and `RemoveChannel` discard the
  result of `remove`, and the list keeps its length.
- `UpToDateUnlessCrossed`: two lists stored in the other order than they were
  taken leave the older one.
- `ChoicesKept`: a menu writes its whole copy, and undoes what another changed
  since it was opened.
- `ClearedUnlessPageEnded`: a page that times out has no interaction left to
  show the menu with, and its buttons stay.
- `CrashTakesSecondPress`: a button of a page that reaches the menu leaves
  `hctx` nil.

**Bounds.** Four embeds of three lengths let a queue of two overflow by count, by
length and by an embed that fills it exactly, with a second overflow while the
first posts, a callback that outlives its timer and one timer left over; the
code's 5 and 6000 differ only in size, and the proofs hold for all, embeds that
fit no message included. Two chunks are what it takes for the last to overtake another; two
workers for overlapping fetches; one fault of a kind for each retry path to be
taken, and no path counts its retries. Three messages cover each kind that the
handlers tell apart; one edit of a proxy and two of a plain message, which may
overtake each other. The scenes hold a redirect beside one of its category, an
ignored category, a user ignored in it, a thread, a new channel, an ignored message,
and a guild that logs no edits; the lengths are those around each boundary of the
fields. Two
overlapping calls of `Send` are what the race for a webhook takes, and a third
for one channel meets what the two leave behind. Three roles, so that one in the
middle of the list can go; two events with their handlers for overlap, beside a
snapshot. Invites need two writers to cross and a
third to mend. Two sessions of the menu with one press on its way each (a late
press, and the lost update), one session with two (a doubled press); two kinds
of event so that a save can undo a choice it has nothing to do with; beside a
session one `GUILD_CREATE`, and three of them without presses, for a join, a
repetition and a new join. Two submissions overlap as the minute's sleep lets
them, two counters of one map give a total, and counters that wrap at two wrap
within two counts. Pages of two of four messages make a full page, a last one and
an empty one; two failures, a failed attempt followed by one whose tables are
not emptied; two writes of the old bot, an insert and a deletion. Ages are those
around each boundary between units.

**Fairness.** Weak fairness of single steps: Go's scheduler runs every goroutine
that can run, a mutex that is free is granted (Go's mutex is starvation free),
timers and tickers fire, HTTP calls return because the client has a timeout,
and Discord sends what it owes on a live session. The deadline of a menu is
strongly fair: it is fixed when the menu opens, and a menu that is left and
entered again and again is at last entered after it. The
InfluxDB client sends its buffer, and the statements of an import return. No
fairness is assumed of events (calls of `bot.queue`, counts, faults, signals,
kills, reconnects, restarts, shutdown).
Deadlock is not checked where a bounded set of events is exhausted at the end.

## 4. Proofs

Every theorem below holds for all values of the constants that the module's
assumption admits: any number of embeds, guilds, messages, roles, sessions, any
tree of channels, any bounds on faults. Each safety invariant is a conjunct of the
module's `IInv` or follows from it at once; `Invariance` is `Spec => []IInv`, from
`InitInvariant` and one lemma for each part of `IInv` or each action of `Next`.
TLC checked each `IInv` on the module's runs before it was proved.

**EmbedQueue**, for any `Length` and `MaxLength`, and `MaxEmbeds > 0`.

- `LockDiscipline`: a caller that posts under the lock is alone, with an empty
  slice and no timer. Without it `FlushReturns` could append to a slice someone
  refilled.
- `HeldOnceUntilPosted` needs it to know that the slice and every local are
  disjoint and that only a caller or callback that is posting holds anything.
- `BatchesBounded` needs it at `FlushReturns`, where no check precedes the
  append.
- `QueuedMeansTimerPending` is about `Collect`, which clears a timer that may
  not be its own: it can, because it takes the whole slice.
- `LengthsChecked` is what `OnlyOversizeEmbedsRefused` follows from: a slice of more
  than one embed was within the length when the last came. `totalLength` is
  a fold; that it grows by `Length` with an `Append` is an induction over numbers,
  which the proof makes by hand (below).

`RefinesLogDelivery` shows that the initial states and every step of the queue
map to those of `LogDelivery` or to a stutter: the post of a batch is `Post` of
the set of its embeds, for which the proof needs that a batch has no duplicates
(its cardinality is its length) and that its embeds are still accepted.

**GuildFetch**. `NeverForgotten` is not inductive: it says nothing of the invites of
a guild whose members have gone ahead, and a goroutine could be about to request
the zero ID. `InvitesFollow` says that a guild whose members have left the queue
has its invites underway or stored, because line 40 of `guild_create.go` fills both
queues under one lock; `WorkersHaveGuilds` that goroutines go on for guilds only.
`CachedMeansStored` needs `ChunksFollow`: on the wire of a guild a last chunk never
comes before an earlier one that is not stored or handled, whatever requests are
repeated. The steps are proved action by action, with the wire's `Append`, `Tail`
and concatenation in lemmas.

**WebhookCache**, where channels are told from the outcomes "none", "dropped"
and "lost". `LostOnlyByFaults` follows what Redis and the calls hold (`HooksUsable`):
webhooks that a call for the same channel created and that are there unless
somebody deletes one; `OwnInPlace` and `CallsProceed` are the same for Discord's
lists and for channels and `Ready`. `HooksBounded` counts: a creation moves a call
from `Creating` to `Own`, a call goes on to create when it saw none of the bot's
webhooks, and then all that are there are those of calls that overlap with it
(`OverlapBounded`), or, before `Ready`, none of this life.

**ConfigMenu** and **GuildLog**. `ChoicesKept` is inductive with `RowBeforeMenus`.
`ClearedUnlessPageEnded` and `CrashTakesSecondPress` need `AnswersFollow` (what a
session's message offers and which interaction it is to answer, place by place) and
`OnePress`: before a second press on one menu or page there is at most one on its
way, made on what is shown. `JoinLoggedOnce` follows from `HandlersLog`,
`RowMadeOnce` (one handler finds no row), `AloneInTime` and `JoinsHandled`; that
no two handlers log is a count of at most one.

**InviteCache**. `ListsFollow` is `UpToDateUnlessCrossed` while writers are under way:
one list at most waits to be stored, and if no other is to be taken it is Discord's.
`AloneFindsInvite` carries `DeletionsLogged` from the event to the look at the
stored list.

**MessageLog**, for any tree of channels without categories in categories, any
guild's row, any authors and edits. `Routing` is the lemma of `LogRouting`: `Ignored` and
`LogChannel`, which go by the root channel the store gives, answer what `Wanted` and
`BelongsIn` ask of Discord's tree. `LogsRouted` then needs that an edit which has
been checked stays one to be logged (`EditsChecked`): `known` only grows.
`AccountMatchesPKInfo`, the invariant in `PKInfoKept`, is inductive alone, but for
the deletion that takes a row for a trigger's (`TriggersListed`). `DeletedRowsGone`
and `DeletionsLogged` speak of settled states; `RowsStay`, `RowsGo` and `LogsMade`
are what they come from while handlers are under way, and `AwakeInTime` says what
a deletion that was not late has waited for. In `LogsRouted` it is
`AccountMatchesPKInfo` that leaves an edit's log no ignored user but the account linked
to a proxied message. So it does in `EditsAlwaysFit`: a log with PluralKit fields is of
a proxy, a webhook's message, and its contents have half the length. For every pair of
lengths up to Discord's limits the fields are one of few forms, whose sizes are added
up (`OldFieldsFit`, `NewFieldsFit`) to the rest (`RestFacts`), at most 576 + 2002 + 2025
for a webhook's message and 410 + 3506 + 2025 for a user's.

**RoleLog**, for finitely many roles. `HandlersFollow`, `SnapshotsFollow` and
`StoreFollows` are one statement for the three times of a role that never
overlapped: a handler is under way, a `GUILD_CREATE` is, or none. In each the store
has the role as the last change that the bot heard of left it. `StoredAreListed`
rests on what the operators of `MemoryStore` do to list and map, `remove` and its
shift included. `LogsFollow` is `LogsMatchChanges` from the log on.

**Durations**, for every integer as an age; `AgesShown` is the theorem of `RoleLog`
that comes from it. `CutFacts`: a unit taken off a duration leaves less than one of
it, and the two make up what there was. `Split` is a fold, which `SplitThree` and
`SplitFour` turn into cuts one after the other. Thus each format is off by less than its
last unit (`ShortAges`, `MiddleAges`, `LongAges`). That no older age reads below needs
more where the format changes: what is shown of a long duration is a multiple of
the last unit, and so is the bound above which the format is used
(`LongerReadsLonger`). TLC checks the ages around each bound.

**ImportMessages**, for a finite set of IDs and pages of any size.
`EmptiedSoFar`: no emptied table is filled before the copy. `RestOfPage`: what
is in memory was in the old database, and is still if it did not change.
`CopiedSoFar` and `NoFarther` say how far the copy has come, from both sides: a
steady message is copied, or in the rest of the page, or behind both; and nothing
is in the target from behind it. The step that reads a page needs that it has the
first messages behind `lastMessageID`: one that is left out has all of the page
before it, because a full page is counted (`Cardinality`).

**Metrics**, for finitely many counters of each kind, any number of submissions
and any width of counters. `AccountsBalance` is inductive with `TotalsTaken`: a submission has no
total before it has taken the events, so that the total it takes is new. Each step
moves counts from one holder to another, and the accounts are sums of remainders.
The proofs are therefore about numbers that a counter cannot tell apart (`Same`, which
`WrappedSame` ties to `Wrapped`), and about sums over finite sets: what one changed
member does to a sum (`TotalChange`), and that the sum of added counters is the
sum of the sums (`TotalPlus`). The totals then balance for a submission that takes,
writes and sends as each counter's account does (`TakeBalance`, `WriteBalance`,
`SendBalance`).

**Induction.** The library's induction theorems take an operator as a
parameter, which the provers cannot instantiate. Where a fold has to be
evaluated (`totalLength`, `EmbedSize`), or a least or greatest element found, the
proofs use `WFMin` and `NatLessThanWellFounded`, which are about sets: a set of
numbers that is not empty has a least one (`Least`), so that one with 0 and with
every successor is `Nat` (`Induction`). `SumsExist` shows by it that the recursive
function within `MapThenFoldSet` exists, and `SumStep` unfolds it once; so do
`PartsExist` and `PartStep` for `Split`. `FiniteInduction` is the same for the sets of
subsets of a finite set.

**Model-checked only:**

- liveness and the fairness part of the refinement (`EventuallyPosted`,
  `ImplementsLogDelivery` as a whole, `EventuallyFetched`, `SessionsEnd`,
  `EventuallyReported`, `ImportEnds`): outside the prover's logic.

## 5. Not modelled

Construction, configuration, wording, formatting and I/O libraries (gateway,
Redis and PostgreSQL clients, AES-GCM); see the components of `PROJECT.json`,
each with its reason. Message contents are abstract but for their lengths, which
are counted in characters where the code counts bytes; the other shards of a bot
share no data with the one modelled but a mutex. The user cache is one map that
is filled under a mutex and never emptied. The bulk removals of the memory store
have no caller. Floating point is exact in `Durations`: the code may be one unit
off within nanoseconds of a boundary.

## 6. Plan

In this order, the behaviour that most logs pass through first:

1. `LogDelivery`, `EmbedQueue` and its proofs (done).
2. `GuildFetch`, `MessageLog`, `WebhookCache`, `MemoryStore` and `RoleLog`,
   `InviteCache`, `ConfigMenu`, `LogRouting`, `EditFields`, `GuildLog`,
   `ImportMessages`, with the proofs of all their safety properties (done).
3. `Metrics` and `Durations`, and their proofs (done).
4. `Pipeline`: a handler, the webhook cache and the queue composed. The three meet
   in one call each (`Send` to `getWebhook` to `queue`), of which each side's
   module has its own; the composition adds the order of logs, of which nothing
   is promised.
