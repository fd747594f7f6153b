----------------------------- MODULE LogRouting -----------------------------
(***************************************************************************)
(* Whether a message is logged, and in which channel (db/channels.go, and  *)
(* the same checks in messageUpdate and messageDelete).  A message is in a *)
(* channel or a thread; a thread has a channel above it, a channel may     *)
(* have a category.  What the bot knows of this tree is what its memory    *)
(* store holds: `known' in what follows.                                   *)
(***************************************************************************)
EXTENDS Sequences, SequencesExt

CONSTANTS
    Channels,   \* channels, threads and categories of the guild
    Threads,
    Parent,     \* Parent[c]: the channel of a thread, the category of a channel
    NoChannel,  \* discord.NullChannelID
    Users

ASSUME LogRoutingAssumption ==
    /\ Threads \subseteq Channels
    /\ NoChannel \notin Channels
    /\ Parent \in [Channels -> Channels \cup {NoChannel}]
    /\ \A t \in Threads : Parent[t] \in Channels \ Threads
    /\ \A c \in Channels \ Threads : Parent[c] = NoChannel \/ Parent[Parent[c]] = NoChannel

\* Kinds of event for messages.
Events == {"update", "delete", "bulk"}

\* A guild's row: log channels, redirects of some channels, and ignores.
IsGuildConfig(config) ==
    /\ DOMAIN config = {"log", "redirects", "ignoredChannels", "ignoredUsers", "ignoredIn"}
    /\ config.log \in [Events -> Channels \cup {NoChannel}]
    /\ DOMAIN config.redirects \subseteq Channels
    /\ \A c \in DOMAIN config.redirects : config.redirects[c] \in Channels \cup {NoChannel}
    /\ config.ignoredChannels \subseteq Channels
    /\ config.ignoredUsers \subseteq Users
    /\ config.ignoredIn \in [Channels -> SUBSET Users]

\* The channel of a thread, any other channel itself; or NoChannel, if one of
\* the two is not in the store.
RootChannel(known, c) ==
    LET root == IF c \in Threads THEN Parent[c] ELSE c
    IN  IF {c, root} \subseteq known THEN root ELSE NoChannel

\* Where the handlers look, in this order: the channel, its root and the root's
\* category.
Path(c, root) == <<c, root>> \o (IF Parent[root] = NoChannel THEN <<>> ELSE <<Parent[root]>>)

\* Slip: the category is not looked at.
IgnoredButCategory(config, c, root, u) ==
    \/ {c, root} \cap config.ignoredChannels # {}
    \/ u \in config.ignoredUsers \cup config.ignoredIn[c] \cup config.ignoredIn[root]

Ignored(config, c, root, u) ==
    \/ ToSet(Path(c, root)) \cap config.ignoredChannels # {}
    \/ u \in config.ignoredUsers
    \/ \E d \in ToSet(Path(c, root)) : u \in config.ignoredIn[d]

\* The first redirect, or else the log channel of the event.
LogChannel(config, event, c, root) ==
    LET path       == Path(c, root)
        redirected == {i \in DOMAIN path : path[i] \in DOMAIN config.redirects}
    IN  IF redirected = {} THEN config.log[event] ELSE config.redirects[path[Min(redirected)]]

-----------------------------------------------------------------------------
\* What the tree on Discord says, whatever the bot knows of it.

Up(c) == IF c \in Channels THEN Parent[c] ELSE NoChannel

\* c, and what it is in.
Within(c) == {c, Up(c), Up(Up(c))} \ {NoChannel}

\* Nobody has asked not to log u's messages in c.
Wanted(config, c, u) ==
    /\ Within(c) \cap config.ignoredChannels = {}
    /\ u \notin config.ignoredUsers
    /\ \A d \in Within(c) : u \notin config.ignoredIn[d]

\* A log about c belongs in the channel that the narrowest redirect names.
BelongsIn(config, event, c, target) ==
    LET redirected == Within(c) \cap DOMAIN config.redirects
    IN  \/ redirected = {} /\ target = config.log[event]
        \/ \E d \in redirected :
              /\ target = config.redirects[d]
              /\ \A other \in redirected : d \in Within(other) => other = d
=============================================================================
