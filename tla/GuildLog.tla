------------------------------ MODULE GuildLog ------------------------------
(***************************************************************************)
(* One guild's row and the log of the bot joining it (guildCreate of       *)
(* logging/meta, CreateGuild of db/guild.go).  GUILD_CREATE comes when the *)
(* bot joins, and again with each new session and after each outage; every *)
(* one has a handler in a goroutine of its own.  The row stays when the    *)
(* bot leaves.                                                             *)
(***************************************************************************)
EXTENDS Naturals, Sequences, FiniteSets

CONSTANTS
    Events,     \* kinds of event that have a log channel
    Channels,
    Unset,      \* discord.NullChannelID
    NoRow,
    Settings,   \* what is fixed for a run (see setting)
    ShouldLog,  \* bot.ShouldLog()
    MaxFaults   \* bounds the failures of Discord and the database

Targets == [Events -> Channels \cup {Unset}]

ASSUME GuildLogAssumption ==
    /\ Unset \notin Channels
    /\ NoRow \notin Targets
    /\ Settings \subseteq [config : Targets \cup {NoRow}, presses : Nat, creates : Nat]
    /\ ShouldLog \in BOOLEAN
    /\ MaxFaults \in Nat

VARIABLES
    setting,    \* the row at the start, and bounds on presses that are on
                \* their way and on GUILD_CREATEs
    config,     \* the guild's row: its log channels
    faults,
    member,     \* the bot is in the guild
    joins,      \* how often it joined since the start
    recent,     \* the joins of less than a minute ago
    creates,    \* the GUILD_CREATEs, each with its handler
    excused     \* joins with two GUILD_CREATEs within the minute, or a query
                \* that failed

guild == <<member, joins, recent, creates, excused>>

-----------------------------------------------------------------------------
\* join: the time in the event; inTime: the handler saw it within the minute.
Handler ==
    [join : Nat, step : {"begun", "created", "done"}, exists : BOOLEAN,
     inTime : BOOLEAN, logged : BOOLEAN]

GuildTypeOK ==
    /\ setting \in Settings
    /\ config \in Targets \cup {NoRow}
    /\ faults \in 0..MaxFaults
    /\ member \in BOOLEAN
    /\ joins \in 0..setting.creates
    /\ recent \subseteq 1..joins
    /\ creates \in Seq(Handler) /\ Len(creates) <= setting.creates
    /\ \A i \in DOMAIN creates : creates[i].join <= joins
    /\ excused \subseteq 0..joins

\* A guild without a row is one that the bot has not joined.
GuildInit ==
    /\ setting \in Settings
    /\ config = setting.config
    /\ faults = 0
    /\ member = (setting.config # NoRow)
    /\ joins = 0
    /\ recent = {}
    /\ creates = <<>>
    /\ excused = {}

Fault == faults < MaxFaults /\ faults' = faults + 1

-----------------------------------------------------------------------------
GuildCreateSent(join) ==
    /\ Len(creates) < setting.creates
    /\ creates' = Append(creates, [join |-> join, step |-> "begun", exists |-> FALSE,
                                   inTime |-> FALSE, logged |-> FALSE])

Join ==
    /\ ~member
    /\ member' = TRUE
    /\ joins' = joins + 1
    /\ recent' = recent \cup {joins'}
    /\ GuildCreateSent(joins')
    /\ UNCHANGED <<setting, config, faults, excused>>

\* A leave that no GUILD_CREATE can follow is left out.
Leave ==
    /\ member
    /\ Len(creates) < setting.creates
    /\ member' = FALSE
    /\ UNCHANGED <<setting, config, faults, joins, recent, creates, excused>>

\* A new session, or the guild is available again.
Available ==
    /\ member
    /\ GuildCreateSent(joins)
    /\ excused' = excused \cup ({joins} \cap recent)
    /\ UNCHANGED <<setting, config, faults, member, joins, recent>>

MinutePasses ==
    /\ recent # {}
    /\ recent' = {}
    /\ UNCHANGED <<setting, config, faults, member, joins, creates, excused>>

-----------------------------------------------------------------------------
NewRow == [e \in Events |-> Unset]

Created(i, exists) ==
    creates' = [creates EXCEPT ![i].step = "created", ![i].exists = exists]

\* Slip: ON CONFLICT DO UPDATE, which affects a row in any case.
CreateGuildAnew(i) ==
    /\ creates[i].step = "begun"
    /\ config' = NewRow
    /\ Created(i, FALSE)
    /\ UNCHANGED <<setting, faults, member, joins, recent, excused>>

\* An insert that leaves a row that is there alone, and tells whether it was.
CreateGuild(i) ==
    /\ creates[i].step = "begun"
    /\ config' = IF config = NoRow THEN NewRow ELSE config
    /\ Created(i, config # NoRow)
    /\ UNCHANGED <<setting, faults, member, joins, recent, excused>>

\* An error is logged, and the guild is taken for a new one.
CreateGuildFails(i) ==
    /\ creates[i].step = "begun"
    /\ Fault
    /\ Created(i, FALSE)
    /\ excused' = excused \cup {creates[i].join}
    /\ UNCHANGED <<setting, config, member, joins, recent>>

\* A guild that exists and was joined longer ago is not logged.
LogJoin(i) ==
    /\ creates[i].step = "created"
    /\ LET inTime == creates[i].join \in recent
       IN  creates' = [creates EXCEPT ![i].step = "done", ![i].inTime = inTime,
                                      ![i].logged = ShouldLog /\ (inTime \/ ~creates[i].exists)]
    /\ UNCHANGED <<setting, config, faults, member, joins, recent, excused>>

GuildNext ==
    \/ Join \/ Leave \/ Available \/ MinutePasses
    \/ \E i \in DOMAIN creates : CreateGuild(i) \/ CreateGuildFails(i) \/ LogJoin(i)

-----------------------------------------------------------------------------
\* guild_create.go:18-20: a join is logged once, however often GUILD_CREATE comes
\* later and in whatever order its handlers run, and a guild that the bot was in
\* before is not logged; but for a failed query, or a second GUILD_CREATE within
\* the minute.  A handler of a guild that had a row and that takes more than the
\* minute does not log.
JoinLoggedOnce ==
    \A j \in (0..joins) \ excused :
        LET handlers == {i \in DOMAIN creates : creates[i].join = j}
            logs     == {i \in handlers : creates[i].logged}
            inTime   == \E i \in handlers : creates[i].inTime
        IN  ShouldLog /\ (\A i \in handlers : creates[i].step = "done") =>
                /\ Cardinality(logs) <= 1
                /\ inTime \/ (setting.config = NoRow /\ joins = 1) => j = 0 \/ logs # {}
                /\ ~inTime /\ setting.config # NoRow => logs = {}

\* A handler that is done has logged as it saw the row and the minute.
HandlersLog ==
    \A i \in DOMAIN creates : LET h == creates[i] IN
        IF h.step = "done"
        THEN h.logged = (ShouldLog /\ (h.inTime \/ ~h.exists))
        ELSE ~h.inTime /\ ~h.logged

\* The handlers of joins that are not excused and have asked for the row.
Asked == {i \in DOMAIN creates : creates[i].step # "begun" /\ creates[i].join \notin excused}

\* The row is made once: one handler finds none, the others do.
RowMadeOnce ==
    /\ setting.config # NoRow => config # NoRow
    /\ \A i \in Asked :
          /\ config # NoRow
          /\ ~creates[i].exists => setting.config = NoRow /\ \A k \in Asked \ {i} : creates[k].exists
    /\ config # NoRow /\ setting.config = NoRow =>
          \E i \in DOMAIN creates : creates[i].step # "begun" /\ ~creates[i].exists

\* A handler within the minute is alone with its join; one that comes later finds
\* the row that the first has made.
AloneInTime ==
    \A i, k \in DOMAIN creates :
        i # k /\ creates[i].join = creates[k].join /\ creates[i].join \notin excused =>
            /\ creates[i].join \notin recent
            /\ creates[i].inTime => ~creates[k].inTime /\ (k \in Asked => creates[k].exists)

\* Each join has its handler, and a guild without a row has been joined.
JoinsHandled ==
    /\ joins <= Len(creates)
    /\ \A j \in 1..joins : \E i \in DOMAIN creates : creates[i].join = j
    /\ setting.config = NoRow =>
          /\ joins = 0 => ~member
          /\ \A i \in DOMAIN creates : creates[i].join # 0

\* The part of the inductive invariant (ConfigMenu) that is about the guild.
GuildIInv == GuildTypeOK /\ HandlersLog /\ RowMadeOnce /\ AloneInTime /\ JoinsHandled
=============================================================================
