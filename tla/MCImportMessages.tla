-------------------------- MODULE MCImportMessages --------------------------
(***************************************************************************)
(* Up to four messages in pages of two, with one that cannot be decrypted  *)
(* in one of the tables.  The target is empty, or holds messages of other  *)
(* accounts under two of the IDs.                                          *)
(***************************************************************************)
EXTENDS ImportMessages

MCTable(f) == [id \in IDs |-> IF id \in DOMAIN f THEN f[id] ELSE NoRow]

MCOld(content) == [content |-> content, account |-> "old"]

MCOldRows == {MCOld(""), MCOld("text")}
MCOldTables ==
    {MCTable([id \in 1..4 |-> MCOld(IF id = 2 THEN "" ELSE "text")]),
     MCTable([id \in {1, 3} |-> MCOld("text")]),
     MCTable([id \in 1..3 |-> MCOld(IF id = 3 THEN "corrupt" ELSE "text")])}
MCNewTables ==
    {MCTable([id \in ids |-> [content |-> "None", account |-> "new"]]) : ids \in {{}, {2, 4}}}
=============================================================================
