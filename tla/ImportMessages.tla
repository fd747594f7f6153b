--------------------------- MODULE ImportMessages ---------------------------
(***************************************************************************)
(* catalogger importdb (cmd/importdb): the target database is emptied,     *)
(* table after table, and the messages of the old database are copied to   *)
(* it in pages, in the order of their IDs.  An error ends the copy where   *)
(* it is, and the operator may start the command again; an error of the    *)
(* emptying is logged and the copy goes on.  The old bot may write to its  *)
(* database meanwhile.                                                     *)
(***************************************************************************)
EXTENDS Naturals, Sequences, FiniteSets, Functions

CONSTANTS
    IDs,         \* message IDs
    Contents,    \* message contents
    Empty,       \* the empty content
    None,        \* the content "None"
    Corrupt,     \* a content that cannot be decrypted
    Accounts,    \* who wrote a message: user, names, PluralKit data
    OldRows,     \* what the old bot writes
    OldTables,   \* tables the old database may hold at the start
    NewTables,   \* messages tables the target may hold at the start
    PageSize,    \* 1000 in the code
    NoRow,
    MaxWrites,   \* bounds what the old bot writes
    MaxFailures  \* bounds failing statements and kills

Row == [content : Contents, account : Accounts]
Tables == [IDs -> Row \cup {NoRow}]

\* The tables that are emptied, in this order.
Emptied == <<"guilds", "messages", "ignored_messages", "invites", "watchlist">>
OtherTables == Range(Emptied) \ {"messages"}

ASSUME ImportMessagesAssumption ==
    /\ IDs \subseteq Nat \ {0} /\ IsFiniteSet(IDs)
    /\ {Empty, None} \subseteq Contents \ {Corrupt}
    /\ OldRows \subseteq Row
    /\ OldTables \subseteq Tables /\ NewTables \subseteq Tables
    /\ PageSize \in Nat \ {0}
    /\ NoRow \notin Row
    /\ MaxWrites \in Nat
    /\ MaxFailures \in Nat

VARIABLES
    old,            \* the old database's messages
    new,            \* the target's messages
    others,         \* the target's other tables that hold anything
    step,           \* "idle", "emptying", "reading" or "inserting"
    nextTable,      \* the table to be emptied next, by its place
    lastMessageID,
    msgs,           \* the rest of the page, as pairs of ID and row
    outcome,        \* of the last run: "none", "failed" or "copied"
    emptied,        \* ... whether it emptied all tables
    steady,         \* messages in old, unchanged since it began
    seen,           \* rows that were in old while it ran, as pairs of ID and row
    writes, failures

target == <<new, others>>
run    == <<step, nextTable, lastMessageID, msgs, outcome, emptied>>
ghosts == <<steady, seen>>
vars   == <<old, target, run, ghosts, writes, failures>>

-----------------------------------------------------------------------------
Stored(table) == {id \in IDs : table[id] # NoRow}
RowsOf(table) == {<<id, table[id]>> : id \in Stored(table)}

Init ==
    /\ old \in OldTables
    /\ new \in NewTables
    /\ others = OtherTables
    /\ step = "idle"
    /\ nextTable = 1
    /\ lastMessageID = 0
    /\ msgs = {}
    /\ outcome = "none"
    /\ emptied = FALSE
    /\ steady = {}
    /\ seen = {}
    /\ writes = 0
    /\ failures = 0

-----------------------------------------------------------------------------
(* The old bot inserts, edits and deletes messages of its own. *)

OldBotWrites(id) ==
    /\ writes < MaxWrites
    /\ writes' = writes + 1
    /\ \E entry \in OldRows \cup {NoRow} :
          /\ entry # old[id]
          /\ old' = [old EXCEPT ![id] = entry]
    /\ steady' = steady \ {id}
    /\ seen' = IF step = "idle" THEN seen ELSE seen \cup RowsOf(old')
    /\ UNCHANGED <<target, run, failures>>

-----------------------------------------------------------------------------
\* run: connecting and the keys are behind it.
Begin ==
    /\ step = "idle"
    /\ step' = "emptying"
    /\ nextTable' = 1
    /\ emptied' = FALSE
    /\ outcome' = "none"
    /\ steady' = Stored(old)
    /\ seen' = RowsOf(old)
    /\ UNCHANGED <<old, target, lastMessageID, msgs, writes, failures>>

\* doMigrateMessages begins, after the last table or an error.
StartCopy(done) ==
    /\ emptied' = done
    /\ step' = "reading"
    /\ nextTable' = 1
    /\ lastMessageID' = 0

\* cleanNewDatabase: a DELETE statement for each table.
EmptyTable ==
    /\ step = "emptying"
    /\ new' = IF Emptied[nextTable] = "messages" THEN [id \in IDs |-> NoRow] ELSE new
    /\ others' = others \ {Emptied[nextTable]}
    /\ IF nextTable < Len(Emptied)
       THEN /\ nextTable' = nextTable + 1
            /\ UNCHANGED <<step, lastMessageID, emptied>>
       ELSE StartCopy(TRUE)
    /\ UNCHANGED <<old, msgs, outcome, ghosts, writes, failures>>

Fail ==
    /\ failures < MaxFailures
    /\ failures' = failures + 1

\* Slip: the error is taken for success.
EmptyTableGoesOn ==
    /\ step = "emptying"
    /\ Fail
    /\ StartCopy(TRUE)
    /\ UNCHANGED <<old, target, msgs, outcome, ghosts, writes>>

\* The error is logged, and no more.
EmptyTableFails ==
    /\ step = "emptying"
    /\ Fail
    /\ StartCopy(FALSE)
    /\ UNCHANGED <<old, target, msgs, outcome, ghosts, writes>>

-----------------------------------------------------------------------------
\* A page: the first PageSize messages after lastMessageID.
Page ==
    LET after == {id \in Stored(old) : id > lastMessageID}
    IN  {<<id, old[id]>> : id \in {i \in after : Cardinality({j \in after : j < i}) < PageSize}}

Decryptable == \A msg \in Page : msg[2].content # Corrupt

Ends(how) ==
    /\ step' = "idle"
    /\ outcome' = how
    /\ msgs' = {}
    /\ UNCHANGED lastMessageID

\* GetOldMessages, and the end of the loop at an empty page.
ReadPage ==
    /\ step = "reading"
    /\ Decryptable
    /\ IF Page = {}
       THEN Ends("copied")
       ELSE /\ step' = "inserting"
            /\ msgs' = Page
            /\ UNCHANGED <<lastMessageID, outcome>>
    /\ UNCHANGED <<old, target, nextTable, emptied, ghosts, writes, failures>>

\* The query fails, or a message of the page cannot be decrypted.
ReadPageFails ==
    /\ step = "reading"
    /\ IF Decryptable THEN Fail ELSE UNCHANGED failures
    /\ Ends("failed")
    /\ UNCHANGED <<old, target, nextTable, emptied, ghosts, writes>>

Converted(content) == IF content = Empty THEN None ELSE content

\* Slip: ON CONFLICT DO NOTHING.
InsertedOnce(table, id, row) ==
    [table EXCEPT ![id] =
        IF table[id] = NoRow
        THEN [content |-> Converted(row.content), account |-> row.account]
        ELSE table[id]]

\* InsertNewMessage: of a row with this ID only content and metadata change.
Inserted(table, id, row) ==
    [table EXCEPT ![id] =
        [content |-> Converted(row.content),
         account |-> IF table[id] = NoRow THEN row.account ELSE table[id].account]]

\* The page is in the order of the IDs.
First(msg) == msg \in msgs /\ \A other \in msgs : msg[1] <= other[1]

\* Slip: the loop does not move on.
InsertMessageStays ==
    /\ step = "inserting"
    /\ \E msg \in msgs :
          /\ First(msg)
          /\ new' = Inserted(new, msg[1], msg[2])
          /\ msgs' = msgs \ {msg}
    /\ step' = IF msgs' = {} THEN "reading" ELSE "inserting"
    /\ UNCHANGED <<old, others, nextTable, lastMessageID, outcome, emptied, ghosts, writes, failures>>

\* The last message of a page is the one the next page begins after.
InsertMessage ==
    /\ step = "inserting"
    /\ \E msg \in msgs :
          /\ First(msg)
          /\ new' = Inserted(new, msg[1], msg[2])
          /\ msgs' = msgs \ {msg}
          /\ IF msgs' = {}
             THEN step' = "reading" /\ lastMessageID' = msg[1]
             ELSE UNCHANGED <<step, lastMessageID>>
    /\ UNCHANGED <<old, others, nextTable, outcome, emptied, ghosts, writes, failures>>

InsertMessageFails ==
    /\ step = "inserting"
    /\ Fail
    /\ Ends("failed")
    /\ UNCHANGED <<old, target, nextTable, emptied, ghosts, writes>>

\* The command is interrupted; each statement was a transaction of its own.
Kill ==
    /\ step # "idle"
    /\ Fail
    /\ Ends("failed")
    /\ nextTable' = 1
    /\ UNCHANGED <<old, target, emptied, ghosts, writes>>

Import ==
    \/ EmptyTable \/ EmptyTableFails
    \/ ReadPage \/ ReadPageFails
    \/ InsertMessage \/ InsertMessageFails

Next == (\E id \in IDs : OldBotWrites(id)) \/ Begin \/ Import \/ Kill

Spec == Init /\ [][Next]_vars /\ WF_vars(Import)

-----------------------------------------------------------------------------
TypeOK ==
    /\ old \in Tables
    /\ new \in Tables
    /\ others \subseteq OtherTables
    /\ step \in {"idle", "emptying", "reading", "inserting"}
    /\ nextTable \in 1..Len(Emptied)
    /\ lastMessageID \in Nat
    /\ msgs \subseteq IDs \X Row
    /\ outcome \in {"none", "failed", "copied"}
    /\ emptied \in BOOLEAN
    /\ steady \subseteq Stored(old)
    /\ seen \subseteq IDs \X Row

Copied(id) == new[id] # NoRow /\ new[id].content = Converted(old[id].content)

\* The tables are emptied in their order: nothing is left in those behind.
EmptiedSoFar ==
    step = "emptying" =>
        /\ ~emptied
        /\ \A k \in 1..(nextTable - 1) :
              IF Emptied[k] = "messages" THEN Stored(new) = {} ELSE Emptied[k] \notin others

\* What a run still has to insert: messages behind the last page, each with a row
\* that was in the old database, and the present one if it has not changed.
RestOfPage ==
    /\ step = "inserting" <=> msgs # {}
    /\ step # "idle" => RowsOf(old) \subseteq seen
    /\ msgs \subseteq seen
    /\ \A msg, other \in msgs : msg[1] = other[1] => msg = other
    /\ \A msg \in msgs :
          /\ msg[1] > lastMessageID
          /\ msg[1] \in steady => msg[2] = old[msg[1]]

\* How far a run has come: up to the end of the last page, and of the present one
\* but for the messages that are still to be inserted.
CopiedSoFar ==
    /\ outcome = "copied" => step = "idle" /\ \A id \in steady : Copied(id)
    /\ step \in {"reading", "inserting"} =>
          \A id \in steady :
              \/ Copied(id)
              \/ <<id, old[id]>> \in msgs
              \/ id > lastMessageID /\ \A msg \in msgs : msg[1] < id

\* ... and no farther, if the tables were emptied.
NoFarther ==
    emptied /\ step \in {"reading", "inserting"} =>
        \A later \in Stored(new) :
            IF step = "reading" THEN later <= lastMessageID ELSE \A msg \in msgs : later < msg[1]

\* When the copy has come to its end, every message that was in the old database
\* all the time is in the target with its content, whatever the old bot inserted,
\* edited or deleted meanwhile, whatever earlier runs left, and even if the tables
\* could not be emptied (doMigrateMessages, lines 169-190).
CopiedAll ==
    step = "idle" /\ outcome = "copied" =>
        \A id \in steady :
            new[id] # NoRow /\ new[id].content = Converted(old[id].content)

\* While a run whose tables were emptied copies, and when it has ended, failed or
\* not, the target holds nothing from before: only rows of the old database, as
\* they were at some time in this run, with the accounts they had there; and the
\* messages copied so far are the first ones, so that none is left out between two
\* that are there (cleanNewDatabase, and the order of the pages).
OnlyThisRun ==
    emptied =>
        /\ others = {}
        /\ \A id \in Stored(new) :
              \E entry \in seen :
                  /\ entry[1] = id
                  /\ new[id] = [entry[2] EXCEPT !.content = Converted(@)]
        /\ \A id \in steady, later \in Stored(new) : id < later => new[id] # NoRow

\* The inductive invariant.
IInv ==
    /\ TypeOK
    /\ EmptiedSoFar
    /\ RestOfPage
    /\ CopiedSoFar
    /\ NoFarther
    /\ OnlyThisRun

\* A run that is begun ends: the pages move on, and an error ends it too.
ImportEnds == step # "idle" ~> step = "idle"
=============================================================================
