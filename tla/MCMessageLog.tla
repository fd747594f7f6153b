---------------------------- MODULE MCMessageLog ----------------------------
(***************************************************************************)
(* Alice's message, or Bob's, which PluralKit replaces by a proxy, in a    *)
(* channel that is old or new, or in a thread.                             *)
(***************************************************************************)
EXTENDS MessageLog, TLC

MCChannels == {"category", "general", "thread", "new", "logs", "other logs", "category logs"}
MCParent   == [c \in MCChannels |-> CASE c \in {"general", "new"} -> "category"
                                      [] c = "thread"             -> "general"
                                      [] OTHER                    -> "none"]

MCMessages == {"plain", "trigger", "proxy"}
MCOriginal == [p \in {"proxy"} |-> "trigger"]
MCUsers    == {"alice", "bob", "webhook"}
MCAuthor   == [m \in MCMessages |-> CASE m = "plain"   -> "alice"
                                      [] m = "trigger" -> "bob"
                                      [] m = "proxy"   -> "webhook"]
MCEditOf   == [e \in {"edit1", "edit2", "edit3"} |-> IF e = "edit1" THEN "proxy" ELSE "plain"]

Logs       == [e \in Events |-> IF e = "bulk" THEN "none" ELSE "logs"]
NobodyIn   == [c \in MCChannels |-> {}]
Plain      == [log |-> Logs, redirects |-> <<>>,
               ignoredChannels |-> {}, ignoredUsers |-> {}, ignoredIn |-> NobodyIn]

\* The channel is redirected elsewhere than its category.
Redirected == [Plain EXCEPT !.redirects = "category" :> "category logs" @@ "new" :> "other logs"]

\* The category is ignored; Bob is, in the category.
NoCategory == [Plain EXCEPT !.ignoredChannels = {"category"}]
NotBob     == [Plain EXCEPT !.ignoredIn["category"] = {"bob"}, !.redirects = "new" :> "other logs"]

\* Edits are not logged.
NoEdits    == [Plain EXCEPT !.log["update"] = "none"]

Scene(channel, config, posted, unlinked, ignored) ==
    [channel |-> channel, config |-> config, posted |-> posted,
     unlinked |-> unlinked, ignored |-> ignored]

PK == {"trigger", "proxy"}

MCScenes ==
    {Scene("new", Redirected, PK, {}, {}), Scene("new", NotBob, PK, {"proxy"}, {}),
     Scene("general", NoCategory, PK, {}, {}), Scene("thread", Plain, PK, {}, {}),
     Scene("new", Redirected, {"plain"}, {}, {}), Scene("new", NoEdits, {"plain"}, {}, {}),
     Scene("general", Plain, {"plain"}, {}, {"plain"})}

PKScene == {Scene("general", Plain, PK, {}, {})}

MCLengths == {1, 999, 1000, 1001, 1999, 2000, 2001, 2023, 2024, 2025,
              2999, 3000, 3001, 3499, 3500, 3501, 4000}
=============================================================================
