------------------------ MODULE ImportMessagesProofs ------------------------
(***************************************************************************)
(* Proofs about ImportMessages: a finished import has copied every message *)
(* and one that began with empty tables holds nothing else, for any        *)
(* databases, any size of the pages, and any number of runs, failures and  *)
(* writes of the old bot.                                                  *)
(***************************************************************************)
EXTENDS ImportMessages, FiniteSetTheorems, WellFoundedInduction, TLAPS

-----------------------------------------------------------------------------
\* The numbers are well founded, and so a set of them has a least element.
LEMMA Before ==
    ASSUME NEW m \in Nat, NEW n \in Nat, m < n
    PROVE  <<m, n>> \in OpToRel(<, Nat)
BY DEF OpToRel

LEMMA Least ==
    ASSUME NEW T \in SUBSET Nat, T # {}
    PROVE  \E n \in T : \A m \in T : n <= m
<1> DEFINE R == OpToRel(<, Nat)
<1>1. IsWellFoundedOn(R, Nat)
  BY NatLessThanWellFounded
<1>2. \A m, n \in Nat : m < n => <<m, n>> \in R
  BY Before
<1> HIDE DEF R
<1>3. PICK n \in T : \A m \in T : ~(<<m, n>> \in R)
  BY <1>1, WFMin
<1>4. ASSUME NEW m \in T PROVE n <= m
  <2>1. m \in Nat /\ n \in Nat
    OBVIOUS
  <2>2. ~(m < n)
    BY <1>2, <1>3, <2>1, Zenon
  <2> QED
    BY <2>1, <2>2
<1> QED
  BY <1>4

-----------------------------------------------------------------------------
\* IDs, rows and tables.
LEMMA IDFacts == \A id \in IDs : id \in Nat /\ id > 0
BY ImportMessagesAssumption

LEMMA ConvertedContent ==
    ASSUME NEW content \in Contents
    PROVE  Converted(content) \in Contents
BY ImportMessagesAssumption DEF Converted

LEMMA RowFields ==
    ASSUME NEW row \in Row
    PROVE  row.content \in Contents /\ row.account \in Accounts /\ row # NoRow
BY ImportMessagesAssumption DEF Row

LEMMA PairFacts ==
    ASSUME NEW pair \in IDs \X Row
    PROVE  /\ pair[1] \in IDs /\ pair[1] \in Nat /\ pair[1] > 0
           /\ pair[2] \in Row
           /\ pair = <<pair[1], pair[2]>>
<1>1. pair[1] \in IDs /\ pair[2] \in Row /\ pair = <<pair[1], pair[2]>>
  OBVIOUS
<1> QED
  BY <1>1, IDFacts

LEMMA RowsOfFacts ==
    ASSUME NEW table \in Tables
    PROVE  /\ \A pair \in RowsOf(table) : pair \in IDs \X Row /\ pair[2] = table[pair[1]]
           /\ \A id \in Stored(table) : id \in IDs /\ table[id] \in Row /\ <<id, table[id]>> \in RowsOf(table)
<1>1. \A id \in Stored(table) : id \in IDs /\ table[id] \in Row
  BY DEF Stored, Tables
<1> QED
  BY <1>1 DEF RowsOf

\* InsertNewMessage stores the content in any case, and the account where there
\* was no row.
LEMMA InsertedFacts ==
    ASSUME NEW table \in Tables, NEW id \in IDs, NEW row \in Row
    PROVE  /\ Inserted(table, id, row) \in Tables
           /\ Inserted(table, id, row)[id] # NoRow
           /\ Inserted(table, id, row)[id].content = Converted(row.content)
           /\ table[id] = NoRow =>
                 Inserted(table, id, row)[id] = [row EXCEPT !.content = Converted(row.content)]
           /\ \A other \in IDs : other # id => Inserted(table, id, row)[other] = table[other]
           /\ Stored(Inserted(table, id, row)) = Stored(table) \cup {id}
<1> DEFINE new0 == [content |-> Converted(row.content),
                    account |-> IF table[id] = NoRow THEN row.account ELSE table[id].account]
<1>1. Converted(row.content) \in Contents /\ row.account \in Accounts
  BY RowFields, ConvertedContent
<1>2. table[id] # NoRow => table[id].account \in Accounts
  BY RowFields DEF Tables
<1>3. new0 \in Row /\ new0.content = Converted(row.content)
  BY <1>1, <1>2 DEF Row
<1>4. table[id] = NoRow => new0 = [row EXCEPT !.content = Converted(row.content)]
  BY <1>1 DEF Row
<1>5. Inserted(table, id, row) = [table EXCEPT ![id] = new0]
  BY DEF Inserted
<1> HIDE DEF new0
<1>6. new0 # NoRow
  BY <1>3, RowFields
<1>7. /\ Inserted(table, id, row) \in Tables
      /\ Inserted(table, id, row)[id] = new0
      /\ \A other \in IDs : other # id => Inserted(table, id, row)[other] = table[other]
  BY <1>3, <1>5 DEF Tables
<1>8. Stored(Inserted(table, id, row)) = Stored(table) \cup {id}
  BY <1>6, <1>7 DEF Stored
<1> QED
  BY <1>3, <1>4, <1>6, <1>7, <1>8

-----------------------------------------------------------------------------
\* A page leaves no message out between lastMessageID and its end, and is empty
\* only when there are none behind.
LEMMA PageFacts ==
    ASSUME TypeOK
    PROVE  /\ \A msg \in Page : msg \in RowsOf(old) /\ msg \in IDs \X Row
                                /\ msg[2] = old[msg[1]] /\ msg[1] > lastMessageID
           /\ \A msg, other \in Page : msg[1] = other[1] => msg = other
           /\ \A id \in Stored(old) :
                 \/ id <= lastMessageID
                 \/ <<id, old[id]>> \in Page
                 \/ Page # {} /\ id > lastMessageID /\ \A msg \in Page : msg[1] < id
<1> DEFINE after == {id \in Stored(old) : id > lastMessageID}
           before(id) == {j \in after : j < id}
           first == {i \in after : Cardinality(before(i)) < PageSize}
<1>0. old \in Tables /\ lastMessageID \in Nat /\ PageSize \in Nat /\ 0 < PageSize
  BY ImportMessagesAssumption DEF TypeOK
<1>1. Page = {<<id, old[id]>> : id \in first}
  BY DEF Page
<1>2. after \subseteq Nat /\ IsFiniteSet(after) /\ after \subseteq Stored(old)
  <2>1. after \subseteq IDs
    BY DEF Stored
  <2> QED
    BY <2>1, ImportMessagesAssumption, FS_Subset
<1>3. ASSUME NEW id \in after PROVE IsFiniteSet(before(id)) /\ Cardinality(before(id)) \in Nat
  BY <1>2, FS_Subset, FS_CardinalityType
<1>4. ASSUME NEW i \in after, NEW k \in first, i <= k PROVE i \in first
  <2>1. before(i) \subseteq before(k)
    BY <1>2, <1>4
  <2>2. Cardinality(before(i)) <= Cardinality(before(k))
    BY <1>3, <2>1, FS_Subset
  <2> QED
    BY <1>0, <1>3, <1>4, <2>2
<1>5. after # {} => first # {}
  <2> SUFFICES ASSUME after # {} PROVE first # {}
    OBVIOUS
  <2>1. PICK i \in after : \A j \in after : i <= j
    BY <1>2, Least
  <2>2. before(i) = {}
    BY <1>2, <2>1
  <2>3. Cardinality(before(i)) = 0
    BY <2>2, FS_EmptySet
  <2> QED
    BY <1>0, <2>3
<1>6. first \subseteq after
  OBVIOUS
<1>7. \A i \in first : i \in Stored(old) /\ i > lastMessageID /\ i \in Nat
  BY <1>2, <1>6
<1>8. \A id \in Stored(old) : id \in Nat /\ (id <= lastMessageID \/ id \in after)
  BY <1>0, ImportMessagesAssumption DEF Stored
<1> HIDE DEF first
<1>9. \A msg \in Page : msg \in RowsOf(old) /\ msg \in IDs \X Row
                        /\ msg[2] = old[msg[1]] /\ msg[1] > lastMessageID /\ msg[1] \in first
  <2> SUFFICES ASSUME NEW id \in first
               PROVE  /\ <<id, old[id]>> \in RowsOf(old)
                      /\ <<id, old[id]>> \in IDs \X Row
                      /\ id > lastMessageID
    BY <1>1
  <2> QED
    BY <1>0, <1>7, RowsOfFacts
<1>12. \A msg, other \in Page : msg[1] = other[1] => msg = other
  <2> SUFFICES ASSUME NEW i \in first, NEW k \in first, <<i, old[i]>>[1] = <<k, old[k]>>[1]
               PROVE  <<i, old[i]>> = <<k, old[k]>>
    BY <1>1
  <2> QED
    OBVIOUS
<1>10. ASSUME NEW id \in Stored(old), id \in after, id \notin first
       PROVE  Page # {} /\ id > lastMessageID /\ \A msg \in Page : msg[1] < id
  <2>1. Page # {}
    BY <1>1, <1>5, <1>10
  <2>2. \A k \in first : k < id
    BY <1>4, <1>7, <1>8, <1>10
  <2> QED
    BY <1>9, <1>10, <2>1, <2>2
<1>11. \A id \in first : <<id, old[id]>> \in Page
  BY <1>1
<1> HIDE DEF after
<1> QED
  BY <1>8, <1>9, <1>10, <1>11, <1>12

-----------------------------------------------------------------------------
LEMMA InitInvariant == Init => IInv
<1> SUFFICES ASSUME Init PROVE IInv
  OBVIOUS
<1>1. old \in Tables /\ new \in Tables
  BY ImportMessagesAssumption DEF Init
<1>2. Len(Emptied) = 5
  BY DEF Emptied
<1>3. TypeOK
  <2>1. {} \subseteq IDs \X Row /\ {} \subseteq Stored(old)
    OBVIOUS
  <2>2. msgs = {} /\ seen = {} /\ steady = {} /\ others \subseteq OtherTables
    BY DEF Init
  <2>3. emptied \in BOOLEAN
    BY Zenon DEF Init
  <2>4. nextTable \in 1..Len(Emptied) /\ lastMessageID \in Nat
    BY <1>2 DEF Init
  <2> QED
    BY <1>1, <2>1, <2>2, <2>3, <2>4 DEF Init, TypeOK
<1>4. EmptiedSoFar /\ RestOfPage /\ CopiedSoFar /\ NoFarther /\ OnlyThisRun
  BY DEF Init, EmptiedSoFar, RestOfPage, CopiedSoFar, NoFarther, OnlyThisRun
<1> QED
  BY <1>3, <1>4 DEF IInv

-----------------------------------------------------------------------------
\* A message that the old bot writes is not steady any more, and the others are as
\* they were.
LEMMA OldBotStep ==
    ASSUME IInv, NEW id \in IDs, OldBotWrites(id)
    PROVE  IInv'
<1>0. TypeOK /\ EmptiedSoFar /\ RestOfPage /\ CopiedSoFar /\ NoFarther /\ OnlyThisRun
  BY DEF IInv
<1>1. /\ new' = new /\ others' = others /\ step' = step /\ nextTable' = nextTable
      /\ lastMessageID' = lastMessageID /\ msgs' = msgs /\ outcome' = outcome /\ emptied' = emptied
      /\ steady' = steady \ {id}
      /\ seen' = IF step = "idle" THEN seen ELSE seen \cup RowsOf(old')
  BY DEF OldBotWrites, target, run
<1>2. PICK entry \in OldRows \cup {NoRow} : old' = [old EXCEPT ![id] = entry]
  BY DEF OldBotWrites
<1>3. old' \in Tables /\ \A other \in IDs : other # id => old'[other] = old[other]
  BY <1>0, <1>2, ImportMessagesAssumption DEF TypeOK, Tables
<1>4. steady' \subseteq steady /\ \A s \in steady' : s \in IDs /\ old'[s] = old[s]
  BY <1>0, <1>1, <1>3 DEF TypeOK, Stored
<1>5. steady' \subseteq Stored(old')
  BY <1>0, <1>4 DEF TypeOK, Stored
<1>6. seen \subseteq seen' /\ seen' \subseteq IDs \X Row
  BY <1>0, <1>1, <1>3, RowsOfFacts DEF TypeOK
<1>7. TypeOK'
  BY <1>0, <1>1, <1>3, <1>5, <1>6 DEF TypeOK
<1>8. EmptiedSoFar' /\ NoFarther'
  BY <1>0, <1>1 DEF EmptiedSoFar, NoFarther, Stored
<1>9. RestOfPage'
  BY <1>0, <1>1, <1>4, <1>6 DEF RestOfPage
<1>10. \A s \in steady' : Copied(s) => Copied(s)'
  BY <1>1, <1>4 DEF Copied
<1>11. CopiedSoFar'
  BY <1>0, <1>1, <1>4, <1>10 DEF CopiedSoFar
<1>12. OnlyThisRun'
  BY <1>0, <1>1, <1>4, <1>6 DEF OnlyThisRun, Stored
<1> QED
  BY <1>7, <1>8, <1>9, <1>11, <1>12 DEF IInv

LEMMA BeginStep ==
    ASSUME IInv, Begin
    PROVE  IInv'
<1>0. TypeOK /\ RestOfPage
  BY DEF IInv
<1>1. /\ old' = old /\ new' = new /\ others' = others /\ lastMessageID' = lastMessageID /\ msgs' = msgs
      /\ step = "idle" /\ step' = "emptying" /\ nextTable' = 1 /\ emptied' = FALSE /\ outcome' = "none"
      /\ steady' = Stored(old) /\ seen' = RowsOf(old)
  BY DEF Begin, target
<1>2. msgs = {}
  BY <1>0, <1>1 DEF RestOfPage
<1>3. Len(Emptied) = 5
  BY DEF Emptied
<1>4. seen' \subseteq IDs \X Row
  BY <1>0, <1>1, RowsOfFacts DEF TypeOK
<1>5. TypeOK'
  <2>1. steady' \subseteq Stored(old') /\ emptied' \in BOOLEAN
    BY <1>1, Zenon
  <2>2. nextTable' \in 1..Len(Emptied) /\ lastMessageID' \in Nat
    BY <1>0, <1>1, <1>3 DEF TypeOK
  <2> QED
    BY <1>0, <1>1, <1>4, <2>1, <2>2 DEF TypeOK
<1>6. EmptiedSoFar' /\ NoFarther' /\ CopiedSoFar' /\ OnlyThisRun'
  BY <1>1 DEF EmptiedSoFar, NoFarther, CopiedSoFar, OnlyThisRun
<1>7. RestOfPage'
  BY <1>1, <1>2 DEF RestOfPage
<1> QED
  BY <1>5, <1>6, <1>7 DEF IInv

-----------------------------------------------------------------------------
\* The copy begins behind nothing; if all tables were emptied, none holds anything.
LEMMA CopyBegins ==
    ASSUME IInv, step = "emptying", NEW done \in BOOLEAN, StartCopy(done),
           UNCHANGED <<old, msgs, outcome, ghosts>>,
           new' \in Tables, others' \subseteq OtherTables,
           done => others' = {} /\ Stored(new') = {}
    PROVE  IInv'
<1>0. TypeOK /\ RestOfPage /\ CopiedSoFar
  BY DEF IInv
<1>1. /\ old' = old /\ msgs' = msgs /\ outcome' = outcome /\ steady' = steady /\ seen' = seen
      /\ step' = "reading" /\ nextTable' = 1 /\ lastMessageID' = 0 /\ emptied' = done
  BY DEF StartCopy, ghosts
<1>2. msgs = {} /\ outcome # "copied"
  BY <1>0 DEF RestOfPage, CopiedSoFar
<1>3. Len(Emptied) = 5
  BY DEF Emptied
<1>4. TypeOK'
  BY <1>0, <1>1, <1>3 DEF TypeOK
<1>5. EmptiedSoFar'
  BY <1>1 DEF EmptiedSoFar
<1>6. RestOfPage'
  BY <1>0, <1>1, <1>2 DEF RestOfPage
<1>7. CopiedSoFar'
  <2>1. \A id \in steady : id > 0
    BY <1>0, ImportMessagesAssumption DEF TypeOK, Stored
  <2> QED
    BY <1>1, <1>2, <2>1 DEF CopiedSoFar
<1>8. NoFarther' /\ OnlyThisRun'
  BY <1>1 DEF NoFarther, OnlyThisRun
<1> QED
  BY <1>4, <1>5, <1>6, <1>7, <1>8 DEF IInv

LEMMA EmptyTableStep ==
    ASSUME IInv, EmptyTable
    PROVE  IInv'
<1>0. TypeOK /\ EmptiedSoFar /\ RestOfPage /\ CopiedSoFar
  BY DEF IInv
<1> DEFINE table == Emptied[nextTable]
<1>1. /\ step = "emptying"
      /\ new' = IF table = "messages" THEN [id \in IDs |-> NoRow] ELSE new
      /\ others' = others \ {table}
      /\ old' = old /\ msgs' = msgs /\ outcome' = outcome /\ steady' = steady /\ seen' = seen
  BY DEF EmptyTable, ghosts
<1>2. Len(Emptied) = 5 /\ nextTable \in 1..5
  BY <1>0 DEF TypeOK, Emptied
<1>3. new' \in Tables /\ others' \subseteq OtherTables
  BY <1>0, <1>1 DEF TypeOK, Tables
<1>4. /\ Stored(new) = {} => Stored(new') = {}
      /\ table = "messages" => Stored(new') = {}
  BY <1>1 DEF Stored
<1>5. \A k \in 1..nextTable :
         IF Emptied[k] = "messages" THEN Stored(new') = {} ELSE Emptied[k] \notin others'
  <2> SUFFICES ASSUME NEW k \in 1..nextTable
               PROVE  IF Emptied[k] = "messages" THEN Stored(new') = {} ELSE Emptied[k] \notin others'
    OBVIOUS
  <2>1. CASE k = nextTable
    BY <1>1, <1>4, <2>1
  <2>2. CASE k # nextTable
    <3>1. k \in 1..(nextTable - 1)
      BY <1>2, <2>2
    <3> QED
      BY <1>0, <1>1, <1>4, <3>1 DEF EmptiedSoFar
  <2> QED
    BY <2>1, <2>2
<1>6. ~emptied /\ msgs = {}
  BY <1>0, <1>1 DEF EmptiedSoFar, RestOfPage
<1>7. CASE nextTable < 5
  <2>1. /\ nextTable' = nextTable + 1 /\ nextTable' \in 1..5 /\ nextTable' - 1 = nextTable
        /\ step' = step /\ lastMessageID' = lastMessageID /\ emptied' = emptied
    BY <1>2, <1>7 DEF EmptyTable
  <2>2. TypeOK'
    BY <1>0, <1>1, <1>2, <1>3, <2>1 DEF TypeOK
  <2>3. EmptiedSoFar'
    BY <1>1, <1>5, <1>6, <2>1 DEF EmptiedSoFar
  <2>4. RestOfPage' /\ NoFarther' /\ OnlyThisRun'
    BY <1>0, <1>1, <1>6, <2>1 DEF RestOfPage, NoFarther, OnlyThisRun
  <2>5. CopiedSoFar'
    BY <1>0, <1>1, <2>1 DEF CopiedSoFar
  <2> QED
    BY <2>2, <2>3, <2>4, <2>5 DEF IInv
<1>8. CASE ~(nextTable < 5)
  <2>1. StartCopy(TRUE) /\ nextTable = 5
    <3>1. nextTable = 5 /\ ~(nextTable < Len(Emptied))
      BY <1>2, <1>8
    <3> QED
      BY <3>1, Zenon DEF EmptyTable
  <2>2. Stored(new') = {}
    <3>1. 2 \in 1..nextTable /\ Emptied[2] = "messages"
      BY <2>1 DEF Emptied
    <3> QED
      BY <1>5, <3>1
  <2>3. others' = {}
    <3>1. \A t \in OtherTables : \E k \in 1..nextTable : t = Emptied[k] /\ t # "messages"
      BY <1>2, <2>1 DEF OtherTables, Range
    <3> QED
      BY <1>3, <1>5, <3>1
  <2>4. UNCHANGED <<old, msgs, outcome, ghosts>>
    BY <1>1 DEF ghosts
  <2> QED
    BY <1>1, <1>3, <2>1, <2>2, <2>3, <2>4, CopyBegins
<1> QED
  BY <1>7, <1>8

LEMMA EmptyTableFailsStep ==
    ASSUME IInv, EmptyTableFails
    PROVE  IInv'
<1>1. /\ step = "emptying" /\ StartCopy(FALSE) /\ new' = new /\ others' = others
      /\ UNCHANGED <<old, msgs, outcome, ghosts>>
  BY DEF EmptyTableFails, target
<1>2. new \in Tables /\ others \subseteq OtherTables
  BY DEF IInv, TypeOK
<1> QED
  BY <1>1, <1>2, CopyBegins

-----------------------------------------------------------------------------
\* A run that ends leaves the tables as they are.
LEMMA RunEnds ==
    ASSUME IInv, NEW how \in {"failed", "copied"}, Ends(how),
           UNCHANGED <<old, target, emptied, ghosts>>,
           nextTable' \in 1..Len(Emptied),
           how = "copied" => \A id \in steady : Copied(id)
    PROVE  IInv'
<1>0. TypeOK /\ RestOfPage /\ OnlyThisRun
  BY DEF IInv
<1>1. /\ old' = old /\ new' = new /\ others' = others /\ emptied' = emptied
      /\ steady' = steady /\ seen' = seen
      /\ step' = "idle" /\ outcome' = how /\ msgs' = {} /\ lastMessageID' = lastMessageID
  BY DEF target, ghosts, Ends
<1>2. TypeOK'
  <2>1. {} \subseteq IDs \X Row
    OBVIOUS
  <2> QED
    BY <1>0, <1>1, <2>1 DEF TypeOK
<1>3. EmptiedSoFar' /\ RestOfPage' /\ NoFarther'
  BY <1>1 DEF EmptiedSoFar, RestOfPage, NoFarther
<1>4. CopiedSoFar'
  BY <1>1 DEF CopiedSoFar, Copied
<1>5. OnlyThisRun'
  BY <1>0, <1>1 DEF OnlyThisRun, Stored
<1> QED
  BY <1>2, <1>3, <1>4, <1>5 DEF IInv

LEMMA ReadPageStep ==
    ASSUME IInv, ReadPage
    PROVE  IInv'
<1>0. TypeOK /\ RestOfPage /\ CopiedSoFar /\ NoFarther /\ OnlyThisRun
  BY DEF IInv
<1>1. step = "reading" /\ UNCHANGED <<old, target, nextTable, emptied, ghosts>>
  BY DEF ReadPage
<1>2. msgs = {}
  BY <1>0, <1>1 DEF RestOfPage
<1>3. /\ \A msg \in Page : msg \in RowsOf(old) /\ msg \in IDs \X Row
                           /\ msg[2] = old[msg[1]] /\ msg[1] > lastMessageID
      /\ \A msg, other \in Page : msg[1] = other[1] => msg = other
      /\ \A id \in Stored(old) :
            \/ id <= lastMessageID
            \/ <<id, old[id]>> \in Page
            \/ Page # {} /\ id > lastMessageID /\ \A msg \in Page : msg[1] < id
  BY <1>0, PageFacts
<1>4. \A id \in steady : id \in Stored(old) /\ id \in Nat /\ lastMessageID \in Nat
  BY <1>0, IDFacts DEF TypeOK, Stored
<1>5. \A id \in steady : Copied(id) \/ id > lastMessageID
  BY <1>0, <1>1, <1>2 DEF CopiedSoFar
<1>6. CASE Page = {}
  <2>1. Ends("copied")
    BY <1>6 DEF ReadPage
  <2>2. \A id \in steady : Copied(id)
    BY <1>3, <1>4, <1>5, <1>6
  <2>3. nextTable' \in 1..Len(Emptied)
    BY <1>0, <1>1 DEF TypeOK
  <2> QED
    BY <1>1, <2>1, <2>2, <2>3, RunEnds
<1>7. CASE Page # {}
  <2>1. /\ old' = old /\ new' = new /\ others' = others /\ nextTable' = nextTable /\ emptied' = emptied
        /\ steady' = steady /\ seen' = seen
        /\ step' = "inserting" /\ msgs' = Page /\ lastMessageID' = lastMessageID /\ outcome' = outcome
    BY <1>1, <1>7 DEF ReadPage, target, ghosts
  <2>2. TypeOK'
    <3>1. Page \subseteq IDs \X Row
      BY <1>3
    <3> QED
      BY <1>0, <2>1, <3>1 DEF TypeOK
  <2>3. EmptiedSoFar'
    BY <2>1 DEF EmptiedSoFar
  <2>4. RestOfPage'
    <3>1. RowsOf(old) \subseteq seen /\ Page \subseteq RowsOf(old)
      BY <1>0, <1>1, <1>3 DEF RestOfPage
    <3> HIDE DEF Page
    <3> QED
      BY <1>3, <1>7, <2>1, <3>1 DEF RestOfPage
  <2>5. CopiedSoFar'
    <3>1. \A id \in steady :
             \/ Copied(id)
             \/ <<id, old[id]>> \in Page
             \/ id > lastMessageID /\ \A msg \in Page : msg[1] < id
      BY <1>3, <1>4, <1>5
    <3>2. outcome # "copied"
      BY <1>0, <1>1 DEF CopiedSoFar
    <3>3. \A id \in steady : Copied(id)' <=> Copied(id)
      BY <2>1 DEF Copied
    <3> QED
      BY <2>1, <3>1, <3>2, <3>3 DEF CopiedSoFar
  <2>6. NoFarther'
    <3> SUFFICES ASSUME emptied, NEW later \in Stored(new), NEW msg \in Page
                 PROVE  later < msg[1]
      BY <2>1 DEF NoFarther, Stored
    <3>1. later <= lastMessageID /\ later \in Nat
      BY <1>0, <1>1, IDFacts DEF NoFarther, Stored
    <3>2. msg[1] \in Nat /\ msg[1] > lastMessageID /\ lastMessageID \in Nat
      BY <1>0, <1>3, PairFacts DEF TypeOK
    <3> QED
      BY <3>1, <3>2
  <2>7. OnlyThisRun'
    BY <1>0, <2>1 DEF OnlyThisRun, Stored
  <2> QED
    BY <2>2, <2>3, <2>4, <2>5, <2>6, <2>7 DEF IInv
<1> QED
  BY <1>6, <1>7

\* The least message of the page is inserted behind all that are there.
LEMMA InsertMessageStep ==
    ASSUME IInv, InsertMessage
    PROVE  IInv'
<1>0. TypeOK /\ RestOfPage /\ CopiedSoFar /\ NoFarther /\ OnlyThisRun
  BY DEF IInv
<1>1. /\ step = "inserting"
      /\ old' = old /\ others' = others /\ nextTable' = nextTable /\ outcome' = outcome
      /\ emptied' = emptied /\ steady' = steady /\ seen' = seen
  BY DEF InsertMessage, ghosts
<1>2. PICK msg \in msgs :
         /\ First(msg)
         /\ new' = Inserted(new, msg[1], msg[2])
         /\ msgs' = msgs \ {msg}
         /\ IF msgs' = {}
            THEN step' = "reading" /\ lastMessageID' = msg[1]
            ELSE UNCHANGED <<step, lastMessageID>>
  BY DEF InsertMessage
<1> DEFINE n == msg[1]
           row == msg[2]
<1>3. /\ n \in IDs /\ n \in Nat /\ row \in Row /\ msg = <<n, row>>
      /\ \A other \in msgs : other[1] \in Nat /\ n <= other[1]
  BY <1>0, <1>2, PairFacts DEF TypeOK, First
<1>4. /\ new' \in Tables
      /\ new'[n] # NoRow /\ new'[n].content = Converted(row.content)
      /\ new[n] = NoRow => new'[n] = [row EXCEPT !.content = Converted(row.content)]
      /\ \A other \in IDs : other # n => new'[other] = new[other]
      /\ Stored(new') = Stored(new) \cup {n}
  BY <1>0, <1>2, <1>3, InsertedFacts DEF TypeOK
<1>5. msgs' = {} => step' = "reading" /\ lastMessageID' = n
  BY <1>2
<1>6. msgs' # {} => step' = "inserting" /\ lastMessageID' = lastMessageID
  BY <1>1, <1>2
<1>7. /\ msgs' \subseteq msgs /\ msg \notin msgs'
      /\ \A other \in msgs : other = msg \/ other \in msgs'
      /\ n \in steady => row = old[n]
      /\ n > lastMessageID
      /\ msg \in seen
      /\ RowsOf(old) \subseteq seen /\ msgs \subseteq seen
      /\ outcome # "copied"
  BY <1>0, <1>1, <1>2 DEF RestOfPage, CopiedSoFar
<1>8. \A other \in msgs' : other \in msgs /\ other[1] \in Nat /\ n < other[1]
  <2> SUFFICES ASSUME NEW other \in msgs' PROVE other \in msgs /\ other[1] \in Nat /\ n < other[1]
    OBVIOUS
  <2>1. other \in msgs /\ other # msg
    BY <1>7
  <2>2. other[1] # n
    BY <1>0, <2>1 DEF RestOfPage
  <2> QED
    BY <1>3, <2>1, <2>2
<1>9. \A id \in steady : id \in IDs /\ id \in Nat
  BY <1>0, IDFacts DEF TypeOK, Stored
<1>10. \A id \in Stored(new) : id \in IDs /\ id \in Nat
  BY IDFacts DEF Stored
<1>11. lastMessageID \in Nat
  BY <1>0 DEF TypeOK
<1> HIDE DEF n, row
<1>12. TypeOK'
  BY <1>0, <1>1, <1>3, <1>4, <1>5, <1>6, <1>7 DEF TypeOK
<1>13. EmptiedSoFar'
  BY <1>5, <1>6 DEF EmptiedSoFar
<1>14. RestOfPage'
  BY <1>0, <1>1, <1>5, <1>6, <1>7 DEF RestOfPage
<1>15. \A id \in steady : Copied(id) => Copied(id)'
  BY <1>1, <1>3, <1>4, <1>7, <1>9 DEF Copied
<1>16. n \in steady => Copied(n)'
  BY <1>1, <1>4, <1>7 DEF Copied
<1>17. CopiedSoFar'
  <2> SUFFICES ASSUME NEW id \in steady, ~Copied(id)'
               PROVE  \/ <<id, old[id]>> \in msgs'
                      \/ id > lastMessageID' /\ \A other \in msgs' : other[1] < id
    BY <1>1, <1>5, <1>6, <1>7 DEF CopiedSoFar
  <2>1. id # n /\ ~Copied(id)
    BY <1>15, <1>16
  <2>2. CASE <<id, old[id]>> \in msgs
    BY <1>3, <1>7, <2>1, <2>2
  <2>3. CASE id > lastMessageID /\ \A other \in msgs : other[1] < id
    <3>1. n < id
      BY <1>2, <2>3 DEF n
    <3> QED
      BY <1>5, <1>6, <1>7, <1>9, <1>3, <2>3, <3>1
  <2> QED
    BY <1>0, <1>1, <2>1, <2>2, <2>3 DEF CopiedSoFar
<1>18. ASSUME emptied, NEW later \in Stored(new) PROVE later < n
  BY <1>0, <1>1, <1>2, <1>18 DEF NoFarther, n
<1>19. NoFarther'
  <2> SUFFICES ASSUME emptied, NEW later \in Stored(new')
               PROVE  IF step' = "reading" THEN later <= lastMessageID'
                                           ELSE \A other \in msgs' : later < other[1]
    BY <1>1 DEF NoFarther
  <2>1. later <= n /\ later \in Nat
    BY <1>3, <1>4, <1>10, <1>18
  <2> QED
    BY <1>3, <1>5, <1>6, <1>8, <2>1
<1>20. OnlyThisRun'
  <2> SUFFICES ASSUME emptied
               PROVE  /\ others = {}
                      /\ \A id \in Stored(new') :
                            \E entry \in seen :
                                /\ entry[1] = id
                                /\ new'[id] = [entry[2] EXCEPT !.content = Converted(entry[2].content)]
                      /\ \A id \in steady, later \in Stored(new') : id < later => new'[id] # NoRow
    BY <1>1 DEF OnlyThisRun
  <2>0. /\ others = {}
        /\ \A id \in Stored(new) :
              \E entry \in seen :
                  /\ entry[1] = id
                  /\ new[id] = [entry[2] EXCEPT !.content = Converted(entry[2].content)]
        /\ \A id \in steady, later \in Stored(new) : id < later => new[id] # NoRow
    BY <1>0 DEF OnlyThisRun
  <2>1. new[n] = NoRow /\ n \notin Stored(new)
    <3>1. n \notin Stored(new)
      BY <1>3, <1>18
    <3> QED
      BY <1>3, <3>1 DEF Stored
  <2>2. ASSUME NEW id \in Stored(new')
        PROVE  \E entry \in seen :
                   /\ entry[1] = id
                   /\ new'[id] = [entry[2] EXCEPT !.content = Converted(entry[2].content)]
    <3>1. CASE id = n
      <4>1. new'[n] = [msg[2] EXCEPT !.content = Converted(msg[2].content)] /\ msg[1] = n
        BY <1>4, <2>1 DEF n, row
      <4> QED
        BY <1>7, <3>1, <4>1
    <3>2. CASE id # n
      <4>1. id \in Stored(new) /\ new'[id] = new[id]
        BY <1>4, <1>10, <3>2
      <4> QED
        BY <2>0, <4>1
    <3> QED
      BY <3>1, <3>2
  <2>3. ASSUME NEW id \in steady, NEW later \in Stored(new'), id < later
        PROVE  new'[id] # NoRow
    <3>1. new[id] # NoRow => new'[id] # NoRow
      BY <1>4, <1>9
    <3>2. CASE later \in Stored(new)
      BY <2>0, <2>3, <3>1, <3>2
    <3>3. CASE later \notin Stored(new)
      <4>1. id < n
        BY <1>4, <2>3, <3>3
      <4>2. <<id, old[id]>> \notin msgs
        <5>1. <<id, old[id]>> \in msgs => n <= id
          BY <1>3, <<id, old[id]>>[1] = id
        <5> QED
          BY <1>3, <1>9, <4>1, <5>1
      <4>3. ~(\A other \in msgs : other[1] < id)
        BY <1>2, <1>3, <1>9, <4>1 DEF n
      <4>4. Copied(id)
        BY <1>0, <1>1, <4>2, <4>3 DEF CopiedSoFar
      <4> QED
        BY <3>1, <4>4 DEF Copied
    <3> QED
      BY <3>2, <3>3
  <2> QED
    BY <2>0, <2>2, <2>3
<1> QED
  BY <1>12, <1>13, <1>14, <1>17, <1>19, <1>20 DEF IInv

LEMMA FailureStep ==
    ASSUME IInv, ReadPageFails \/ InsertMessageFails \/ Kill
    PROVE  IInv'
<1>1. Ends("failed") /\ UNCHANGED <<old, target, emptied, ghosts>>
  BY DEF ReadPageFails, InsertMessageFails, Kill
<1>2. nextTable' \in 1..Len(Emptied)
  <2>1. nextTable' = nextTable \/ nextTable' = 1
    BY DEF ReadPageFails, InsertMessageFails, Kill
  <2>2. nextTable \in 1..Len(Emptied) /\ Len(Emptied) = 5
    BY DEF IInv, TypeOK, Emptied
  <2> QED
    BY <2>1, <2>2
<1> QED
  BY <1>1, <1>2, RunEnds

-----------------------------------------------------------------------------
LEMMA StepKeepsInvariant == IInv /\ [Next]_vars => IInv'
<1> SUFFICES ASSUME IInv, [Next]_vars PROVE IInv'
  OBVIOUS
<1>1. ASSUME NEW id \in IDs, OldBotWrites(id) PROVE IInv'
  BY <1>1, OldBotStep
<1>2. CASE Begin
  BY <1>2, BeginStep
<1>3. CASE EmptyTable
  BY <1>3, EmptyTableStep
<1>4. CASE EmptyTableFails
  BY <1>4, EmptyTableFailsStep
<1>5. CASE ReadPage
  BY <1>5, ReadPageStep
<1>6. CASE InsertMessage
  BY <1>6, InsertMessageStep
<1>7. CASE ReadPageFails \/ InsertMessageFails \/ Kill
  BY <1>7, FailureStep
<1>8. CASE UNCHANGED vars
  <2>1. /\ old' = old /\ new' = new /\ others' = others /\ step' = step /\ nextTable' = nextTable
        /\ lastMessageID' = lastMessageID /\ msgs' = msgs /\ outcome' = outcome /\ emptied' = emptied
        /\ steady' = steady /\ seen' = seen
    BY <1>8 DEF vars, target, run, ghosts
  <2> QED
    BY <2>1 DEF IInv, TypeOK, EmptiedSoFar, RestOfPage, CopiedSoFar, NoFarther, OnlyThisRun, Copied, Stored, RowsOf
<1> QED
  BY <1>1, <1>2, <1>3, <1>4, <1>5, <1>6, <1>7, <1>8 DEF Next, Import

\* IInv holds in every reachable state, for any databases and pages.
THEOREM Invariance == Spec => []IInv
<1>1. Init => IInv
  BY InitInvariant
<1>2. IInv /\ [Next]_vars => IInv'
  BY StepKeepsInvariant
<1> QED
  BY <1>1, <1>2, PTL DEF Spec

\* A copy that comes to its end (doMigrateMessages, the break at an empty page) has
\* every message that was in the old database all the time.
THEOREM EverythingCopied == Spec => []CopiedAll
<1>1. IInv => CopiedAll
  BY DEF IInv, CopiedSoFar, CopiedAll, Copied
<1> QED
  BY <1>1, Invariance, PTL

\* A run whose tables were emptied (cleanNewDatabase) leaves only rows that it
\* read, from the first ones on, at every moment and however it ends.
THEOREM NothingElse == Spec => []OnlyThisRun
<1>1. IInv => OnlyThisRun
  BY DEF IInv
<1> QED
  BY <1>1, Invariance, PTL
=============================================================================
