----------------------------- MODULE EditFields -----------------------------
(***************************************************************************)
(* The embed of an edited message (messageUpdate): old and new content are *)
(* cut into fields, because Discord takes 1024 characters in a field and   *)
(* 6000 in an embed.  Contents are their lengths.  len and the slices      *)
(* count bytes, Discord counts characters: the lengths here are those of   *)
(* contents whose characters are single bytes, which fill fields the most. *)
(***************************************************************************)
EXTENDS Naturals, Sequences, SequencesExt

\* Discord's limits, and the longest tags (name#0000) and IDs.  A webhook, such
\* as the one that PluralKit posts by, sends shorter contents than a user may,
\* but can have a longer name.
FieldLimit   == 1024
EmbedLimit   == 6000
ContentLimit == [user |-> 4000, webhook |-> 2000]
NameLimit    == [user |-> 32, webhook |-> 80]
IDLength     == 19

\* A piece of a content, with the number of "..." characters around it.
Piece(from, to, marks) == [from |-> from, to |-> to, marks |-> marks]

Size(piece) == piece.to - piece.from + piece.marks

OldFields(n) ==
    IF n <= 1000 THEN <<Piece(0, n, 0)>>
    ELSE IF n <= 2000 THEN <<Piece(0, 1000, 1), Piece(1000, n, 1)>>
    ELSE <<Piece(0, 1000, 1), Piece(1000, 2000, 2)>> \o
         IF n <= 3000 THEN <<Piece(2000, n, 1)>>
         ELSE <<Piece(2000, 3000, 1),
                IF n <= 3500 THEN Piece(3000, n, 1) ELSE Piece(3000, 3500, 2)>>

\* Slip: a rest of 1024 characters is not cut.
NewFieldsLate(n) ==
    IF n <= 1000 THEN <<Piece(0, n, 0)>>
    ELSE <<Piece(0, 1000, 1),
           IF n <= 2024 THEN Piece(1000, n, 1) ELSE Piece(1000, 2015, 2)>>

NewFields(n) ==
    IF n <= 1000 THEN <<Piece(0, n, 0)>>
    ELSE <<Piece(0, 1000, 1),
           IF n < 2024 THEN Piece(1000, n, 1) ELSE Piece(1000, 2015, 2)>>

\* Both contents are attached as files.
Attached(old, new) == old >= 2000 \/ new >= 2000

Tag(sender) == NameLimit[sender] + 5
Mention     == 3 + IDLength
ID          == 4 + IDLength

\* Title, author, and the field that names the sender.  With PluralKit data in the
\* old row the field names the linked account, with its tag if GuildUser finds it,
\* and three more fields follow.
Heading(sender, linked) ==
    LET account(tag) == Mention + 1 + tag + 1 + ID
        proxied      == (19 + NameLimit[sender]) + 22 + (1 + 25) + (9 + 6) + (9 + 6)
    IN  CASE linked = "none"    -> 15 + Tag(sender) + 6 + account(Tag(sender))
          [] linked = "found"   -> proxied + Tag("user") + account(Tag("user"))
          [] linked = "unknown" -> proxied + Tag(sender) + Mention + 1 + ID

\* All of the embed but the pieces of the contents, at its longest: heading,
\* footer, the names of the fields of both contents, channel and link.
Rest(sender, linked) ==
    Heading(sender, linked) + ID + (11 + 3 * 19 + 2 + 11 + 19) + (7 + Mention + 1 + ID)
        + (4 + 29 + 3 * IDLength + 2)

EmbedSize(rest, fields) == FoldLeft(LAMBDA sum, piece : sum + Size(piece), rest, fields)

-----------------------------------------------------------------------------
\* The pieces follow each other from the start of the content.
Continuous(fields) ==
    /\ fields[1].from = 0
    /\ \A i \in 2..Len(fields) : fields[i].from = fields[i - 1].to

Complete(fields, n) == fields[Len(fields)].to = n

\* Discord takes the embed, and what the fields do not show is attached.
EditFits(sender, linked, old, new) ==
    LET fields == OldFields(old) \o NewFields(new) IN
    /\ \A i \in DOMAIN fields : Size(fields[i]) \in 1..FieldLimit
    /\ EmbedSize(Rest(sender, linked), fields) <= EmbedLimit
    /\ Continuous(OldFields(old)) /\ Continuous(NewFields(new))
    /\ Attached(old, new) \/ (Complete(OldFields(old), old) /\ Complete(NewFields(new), new))
=============================================================================
