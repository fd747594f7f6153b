------------------------------ MODULE ConfigMenu ------------------------------
(***************************************************************************)
(* Sessions of /config channels in one guild (commands/config).  A session *)
(* copies the guild's row when it is opened, changes the copy, and writes  *)
(* the whole copy back.  It listens to its message only in WaitFor: what   *)
(* is pressed at any other time is lost.  The menu and the pages are shown *)
(* on one message, so that a press made on a page may reach the menu.      *)
(* The row itself is made by guildCreate (GuildLog), which may run at any  *)
(* time.                                                                   *)
(***************************************************************************)
EXTENDS Naturals, Sequences, SequencesExt, GuildLog

CONSTANTS
    Sessions,
    Nothing     \* no event, no value

ASSUME ConfigMenuAssumption ==
    /\ Nothing \notin Events \cup Channels \cup {Unset}

VARIABLES
    copy,       \* logChannels of each session
    at,         \* where each session is
    editing,    \* the event whose page is open
    hctx,       \* the interaction to answer: none, open, or answered already
    shown,      \* what the session's message offers
    pressed,    \* presses on their way to the bot
    choice,     \* what users chose last for each event
    stale,      \* events chosen elsewhere that the session's copy lacks
    lost,       \* events whose choice failed to be saved, or was undone by the
                \* save of a session that lacked it
    pageEnded,  \* the session's page timed out
    fresh,      \* nothing has been pressed on what the message offers
    again       \* something was pressed on one menu or page after something else

ghosts == <<choice, stale, lost, pageEnded, fresh, again>>
menu == <<copy, at, editing, hctx, shown, pressed, ghosts>>
vars == <<setting, config, faults, menu, guild>>

-----------------------------------------------------------------------------
Press ==
    [kind : {"event"}, of : Events] \cup [kind : {"select"}, of : Channels]
        \cup [kind : {"reset", "cancel", "close"}, of : {Nothing}]

Offered == [nothing |-> {}, menu |-> {"event", "close"}, page |-> {"select", "reset", "cancel"}]

Places == {"unopened", "starting", "menu", "opening", "loading", "page", "saving",
           "responding", "returning", "closing", "ended", "crashed"}

TypeOK ==
    /\ copy \in [Sessions -> Targets]
    /\ at \in [Sessions -> Places]
    /\ editing \in [Sessions -> Events \cup {Nothing}]
    /\ \A s \in Sessions : at[s] \in {"opening", "loading", "page"} => editing[s] # Nothing
    /\ hctx \in [Sessions -> {"none", "open", "answered"}]
    /\ shown \in [Sessions -> DOMAIN Offered]
    /\ pressed \in [Sessions -> Seq(Press)]
    /\ \A s \in Sessions : Len(pressed[s]) <= setting.presses
    /\ choice \in Targets
    /\ stale \in [Sessions -> SUBSET Events]
    /\ lost \subseteq Events
    /\ {pageEnded, fresh, again} \subseteq [Sessions -> BOOLEAN]

Init ==
    /\ GuildInit
    /\ copy = [s \in Sessions |-> NewRow]
    /\ at = [s \in Sessions |-> "unopened"]
    /\ editing = [s \in Sessions |-> Nothing]
    /\ hctx = [s \in Sessions |-> "none"]
    /\ shown = [s \in Sessions |-> "nothing"]
    /\ pressed = [s \in Sessions |-> <<>>]
    /\ choice = IF config = NoRow THEN NewRow ELSE config
    /\ stale = [s \in Sessions |-> {}]
    /\ lost = {}
    /\ pageEnded = [s \in Sessions |-> FALSE]
    /\ fresh = [s \in Sessions |-> TRUE]
    /\ again = [s \in Sessions |-> FALSE]

Go(s, place) == at' = [at EXCEPT ![s] = place]
Set(f, s, v) == [f EXCEPT ![s] = v]

Over == {"unopened", "ended", "crashed"}

\* Events whose choice is on its way to the database.
Pending == {editing[s] : s \in {t \in Sessions : at[t] = "saving"}} \cap Events

\* Discord shows something else on the session's message.
Show(s, what) ==
    /\ shown' = Set(shown, s, what)
    /\ fresh' = Set(fresh, s, TRUE)

-----------------------------------------------------------------------------
\* Slip: the copy is not read from the database.
OpenWithOldCopy(s) ==
    /\ at[s] = "unopened"
    /\ stale' = Set(stale, s, lost \cup Pending)
    /\ Go(s, "starting") /\ Show(s, "menu")
    /\ UNCHANGED <<config, copy, editing, hctx, pressed, faults, choice, lost,
                   pageEnded, again>>

\* channelsEntry up to its first reply; the errors before it end the session,
\* and a guild without a row is one.
Open(s) ==
    /\ at[s] = "unopened"
    /\ config # NoRow
    /\ copy' = Set(copy, s, config)
    /\ stale' = Set(stale, s, lost \cup Pending)
    /\ \/ Go(s, "starting") /\ Show(s, "menu") /\ UNCHANGED faults
       \/ Fault /\ Go(s, "ended") /\ UNCHANGED <<shown, fresh>>
    /\ UNCHANGED <<config, editing, hctx, pressed, choice, lost, pageEnded, again>>

OpenWithoutRow(s) ==
    /\ at[s] = "unopened"
    /\ config = NoRow
    /\ Go(s, "ended")
    /\ UNCHANGED <<config, copy, editing, hctx, shown, pressed, faults, ghosts>>

\* Someone presses a button or selects a channel; what is pressed after the
\* session is left out, for nobody hears it.
SendPress(s, p) ==
    /\ at[s] \notin Over
    /\ p.kind \in Offered[shown[s]]
    /\ Len(pressed[s]) < setting.presses
    /\ pressed' = Set(pressed, s, Append(pressed[s], p))
    /\ fresh' = Set(fresh, s, FALSE)
    /\ again' = Set(again, s, again[s] \/ ~fresh[s])
    /\ UNCHANGED <<config, copy, at, editing, hctx, shown, faults, choice, stale, lost,
                   pageEnded>>

Take(s, i) == pressed' = Set(pressed, s, RemoveAt(pressed[s], i))

\* WaitFor: the menu takes buttons, a page takes buttons and selections.
Heard(s, p) ==
    \/ at[s] = "page"
    \/ at[s] = "menu" /\ p.kind # "select"

\* Nobody waits for the press, or the menu cannot make its context.
Lose(s, i) ==
    /\ \/ ~Heard(s, pressed[s][i]) /\ UNCHANGED faults
       \/ at[s] = "menu" /\ pressed[s][i].kind \in {"event", "reset", "cancel"} /\ Fault
    /\ Take(s, i)
    /\ UNCHANGED <<config, copy, at, editing, hctx, shown, ghosts>>

\* Slip: a loop that is out of time returns at once.
ListenReturns(s) ==
    /\ at[s] \in {"starting", "returning"}
    /\ \/ Go(s, "menu") /\ UNCHANGED faults
       \/ Go(s, "ended") /\ UNCHANGED faults
       \/ at[s] = "starting" /\ Fault /\ Go(s, "ended")
    /\ UNCHANGED <<config, copy, editing, hctx, shown, pressed, ghosts>>

\* The loop of channelsEntry looks at the deadline and waits again.
Listen(s) ==
    /\ at[s] \in {"starting", "returning"}
    /\ \/ Go(s, "menu") /\ UNCHANGED faults
       \/ Go(s, "closing") /\ UNCHANGED faults            \* cctx is done
       \/ at[s] = "starting" /\ Fault /\ Go(s, "ended")    \* ctx.Original
    /\ UNCHANGED <<config, copy, editing, hctx, shown, pressed, ghosts>>

\* A button at the menu.  One that belongs to a page matches no case: the
\* copy is saved and hctx stays nil.
MenuPressed(s, i) ==
    /\ at[s] = "menu" /\ Heard(s, pressed[s][i])
    /\ Take(s, i)
    /\ LET p == pressed[s][i] IN
       /\ Go(s, CASE p.kind = "close" -> "closing" [] p.kind = "event" -> "opening"
                  [] OTHER -> "saving")
       /\ editing' = Set(editing, s, IF p.kind = "event" THEN p.of ELSE Nothing)
       /\ hctx' = Set(hctx, s, IF p.kind = "event" THEN "open" ELSE "none")
    /\ UNCHANGED <<config, copy, shown, faults, ghosts>>

\* channelPage shows the page.  An answer that fails leaves hctx to be
\* answered, an error of ctx.Original (LoadPage) does not.
OpenPage(s) ==
    /\ at[s] = "opening"
    /\ \/ /\ Go(s, "loading") /\ Show(s, "page")
          /\ hctx' = Set(hctx, s, "answered")
          /\ UNCHANGED faults
       \/ Fault /\ Go(s, "saving") /\ UNCHANGED <<hctx, shown, fresh>>
    /\ UNCHANGED <<config, copy, editing, pressed, choice, stale, lost,
                   pageEnded, again>>

\* Slip: the error is returned with no context.
LoadPageReturnsNil(s) ==
    /\ at[s] = "loading"
    /\ \/ Go(s, "page") /\ UNCHANGED <<hctx, faults>>
       \/ Fault /\ Go(s, "saving") /\ hctx' = Set(hctx, s, "none")
    /\ UNCHANGED <<config, copy, editing, shown, pressed, ghosts>>

LoadPage(s) ==
    /\ at[s] = "loading"
    /\ \/ Go(s, "page") /\ UNCHANGED faults
       \/ Fault /\ Go(s, "saving")
    /\ UNCHANGED <<config, copy, editing, hctx, shown, pressed, ghosts>>

\* The users' choice for an event; other menus that are open lack it.
Choose(s, e, target) ==
    /\ copy' = [copy EXCEPT ![s][e] = target]
    /\ choice' = [choice EXCEPT ![e] = target]
    /\ stale' = [t \in Sessions |-> IF t = s THEN stale[t] \ {e} ELSE stale[t] \cup {e}]

\* Slip: the page takes a channel from whatever was pressed.
PickUnchecked(s, i) ==
    /\ at[s] = "page"
    /\ Take(s, i) /\ Go(s, "saving")
    /\ Choose(s, editing[s], pressed[s][i].of)
    /\ hctx' = Set(hctx, s, "open")
    /\ UNCHANGED <<config, editing, shown, lost, faults, pageEnded, fresh, again>>

\* channelPage ends with a press; a button other than "Stop logging" leaves
\* the channel as it is.  hctx is the new interaction, unless its context
\* cannot be made.
Pick(s, i) ==
    /\ at[s] = "page"
    /\ Take(s, i) /\ Go(s, "saving")
    /\ \/ /\ LET p == pressed[s][i] IN
             CASE p.kind = "select" -> Choose(s, editing[s], p.of)
               [] p.kind = "reset"  -> Choose(s, editing[s], Unset)
               [] OTHER             -> UNCHANGED <<copy, choice, stale>>
          /\ hctx' = Set(hctx, s, "open")
          /\ UNCHANGED faults
       \/ Fault /\ UNCHANGED <<copy, choice, stale, hctx>>
    /\ UNCHANGED <<config, editing, shown, lost, pageEnded, fresh, again>>

\* Slip: a page that is out of time waits once more.
PageWaitsOn(s) ==
    /\ at[s] = "page"
    /\ pageEnded' = Set(pageEnded, s, TRUE)
    /\ UNCHANGED <<config, copy, at, editing, hctx, shown, pressed, faults, choice, stale,
                   lost, fresh, again>>

\* Five minutes without a press.  hctx is the button that opened the page,
\* which has been answered.
PageTimesOut(s) ==
    /\ at[s] = "page"
    /\ Go(s, "saving")
    /\ pageEnded' = Set(pageEnded, s, TRUE)
    /\ UNCHANGED <<config, copy, editing, hctx, shown, pressed, faults, choice, stale,
                   lost, fresh, again>>

\* SetChannels with the whole copy, whatever the page did.  An error is
\* reported to hctx and ends the session.
Save(s) ==
    /\ at[s] = "saving"
    /\ \/ /\ config' = copy[s]
          /\ lost' = stale[s]
          /\ Go(s, "responding")
          /\ UNCHANGED faults
       \/ /\ Fault
          /\ lost' = lost \cup ({editing[s]} \cap Events)
          /\ Go(s, IF hctx[s] = "none" THEN "crashed" ELSE "ended")
          /\ UNCHANGED config
    /\ editing' = Set(editing, s, Nothing)
    /\ UNCHANGED <<copy, hctx, shown, pressed, choice, stale, pageEnded, fresh, again>>

\* The menu is shown again.  A nil hctx has no context (a panic), and Discord
\* takes one answer to an interaction.
Respond(s) ==
    /\ at[s] = "responding"
    /\ \/ /\ hctx[s] = "open"
          /\ Go(s, "returning") /\ Show(s, "menu") /\ UNCHANGED faults
       \/ /\ hctx[s] = "open"
          /\ Fault /\ Go(s, "ended") /\ UNCHANGED <<shown, fresh>>
       \/ /\ hctx[s] # "open"
          /\ Go(s, IF hctx[s] = "none" THEN "crashed" ELSE "ended")
          /\ UNCHANGED <<shown, fresh, faults>>
    /\ hctx' = Set(hctx, s, "none")
    /\ UNCHANGED <<config, copy, editing, pressed, choice, stale, lost, pageEnded, again>>

\* cctx: ten minutes after the menu was opened.
MenuTimesOut(s) ==
    /\ at[s] = "menu"
    /\ Go(s, "closing")
    /\ UNCHANGED <<config, copy, editing, hctx, shown, pressed, faults, ghosts>>

\* clearComponents, after "Close" or the deadline.
Clear(s) ==
    /\ at[s] = "closing"
    /\ Go(s, "ended")
    /\ \/ Show(s, "nothing") /\ UNCHANGED faults
       \/ Fault /\ UNCHANGED <<shown, fresh>>
    /\ UNCHANGED <<config, copy, editing, hctx, pressed, choice, stale, lost,
                   pageEnded, again>>

-----------------------------------------------------------------------------
\* The steps of the bot and of time, which the users cannot hold up.
Work(s) ==
    /\ \/ Listen(s) \/ OpenPage(s) \/ LoadPage(s) \/ PageTimesOut(s)
       \/ Save(s) \/ Respond(s) \/ Clear(s)
    /\ UNCHANGED <<setting, guild>>

\* What users do, and what comes of it.
Use(s) ==
    /\ \/ Open(s) \/ OpenWithoutRow(s)
       \/ \E p \in Press : SendPress(s, p)
       \/ \E i \in DOMAIN pressed[s] : Lose(s, i) \/ MenuPressed(s, i) \/ Pick(s, i)
    /\ UNCHANGED <<setting, guild>>

Deadline(s) == MenuTimesOut(s) /\ UNCHANGED <<setting, guild>>

Next ==
    \/ \E s \in Sessions : Use(s) \/ Work(s) \/ Deadline(s)
    \/ GuildNext /\ UNCHANGED menu

Spec == Init /\ [][Next]_vars

\* Requests return, for the HTTP client has a timeout, and so does a page.  The
\* menu's ten minutes are not prolonged by what is pressed meanwhile: a menu
\* that comes back again and again is at last found to be out of time.
FairSpec == Spec /\ \A s \in Sessions : WF_vars(Work(s)) /\ SF_vars(Deadline(s))

-----------------------------------------------------------------------------
\* The database holds what users chose last for each event, unless the choice
\* failed to be saved, is about to be, or was undone by the save of a menu that
\* had read the row before it.  Menus opened one after the other, their
\* timeouts, late and lost presses and failed answers neither drop a choice nor
\* add one; nor does the guild when it is made available, or joined, again.
ChoicesKept ==
    config # NoRow => \A e \in Events :
        /\ config[e] # choice[e] => e \in lost \cup Pending
        /\ \A s \in Sessions :
              at[s] \notin Over /\ copy[s][e] # choice[e] => e \in stale[s]

\* channels.go:241: "if timeout, clear components and return".  Without
\* failures, a session that has ended leaves no buttons that nobody hears, unless
\* a page ended with no press: the answer to the button that opened it is then
\* the second one, which Discord refuses.
ClearedUnlessPageEnded ==
    \A s \in Sessions :
        at[s] = "ended" /\ faults = 0 /\ ~pageEnded[s] => shown[s] = "nothing"

\* The panic at hctx.Ctx() takes a second press on one menu or page, before
\* Discord shows the next; neither timeouts nor failed requests lead there.
CrashTakesSecondPress ==
    \A s \in Sessions : at[s] = "crashed" => again[s]

\* No menu can be opened before the guild has its row.
RowBeforeMenus ==
    config = NoRow => choice = NewRow /\ \A s \in Sessions : at[s] \in {"unopened", "ended"}

\* What a session's message offers, and the interaction that it is to answer.  One
\* that was answered already is left by a failure or by a page's timeout, and none
\* by a second press.
AnswersFollow(s) ==
    /\ at[s] = "unopened" => shown[s] = "nothing" /\ pressed[s] = <<>>
    /\ at[s] \in {"starting", "menu", "opening", "returning"} => shown[s] = "menu"
    /\ at[s] \in {"loading", "page"} => hctx[s] = "answered"
    /\ at[s] = "opening" => hctx[s] = "open"
    /\ at[s] \in {"saving", "responding"} =>
          /\ hctx[s] = "answered" => faults # 0 \/ pageEnded[s]
          /\ hctx[s] = "none" => again[s]

\* Before a second press on one menu or page there is at most one on its way: it
\* was made on what is shown, and is over when the next is shown.
OnePress(s) ==
    at[s] \notin Over /\ ~again[s] =>
        /\ Len(pressed[s]) <= 1
        /\ fresh[s] => pressed[s] = <<>>
        /\ \A i \in DOMAIN pressed[s] : pressed[s][i].kind \in Offered[shown[s]]
        /\ at[s] = "opening" \/ (at[s] \in {"saving", "responding"} /\ hctx[s] = "open") =>
              pressed[s] = <<>> /\ ~fresh[s]

\* The inductive invariant.
IInv ==
    /\ TypeOK
    /\ GuildIInv
    /\ RowBeforeMenus
    /\ \A s \in Sessions : AnswersFollow(s) /\ OnePress(s)
    /\ ChoicesKept
    /\ ClearedUnlessPageEnded
    /\ CrashTakesSecondPress

\* A session ends: no press, lost or late, leaves it waiting for ever.
SessionsEnd ==
    \A s \in Sessions : at[s] \notin Over ~> at[s] \in {"ended", "crashed"}
=============================================================================
