----------------------------- MODULE Durations -----------------------------
(***************************************************************************)
(* How an age is shown (common/duration), as the number of each unit.  A   *)
(* month has 30 days and a year 365, so that a year is not a number of     *)
(* months.  Time is counted in half seconds: what the code does with less  *)
(* is rounding.                                                            *)
(***************************************************************************)
EXTENDS Integers, Sequences, SequencesExt

Second == 2
Minute == 60 * Second
Hour   == 60 * Minute
Day    == 24 * Hour
Month  == 30 * Day
Year   == 365 * Day

Units == {"year", "month", "day", "hour", "minute", "second"}
Length ==
    [year |-> Year, month |-> Month, day |-> Day, hour |-> Hour, minute |-> Minute, second |-> Second]

-----------------------------------------------------------------------------
\* Slip: the months are taken of the whole duration.
SplitMonthsOfAll(d, units) ==
    FoldLeft(LAMBDA sofar, u :
                [left  |-> sofar.left % Length[u],
                 shown |-> [sofar.shown EXCEPT
                                ![u] = (IF u = "month" THEN d ELSE sofar.left) \div Length[u]]],
             [left |-> d, shown |-> [u \in Units |-> 0]],
             units)

\* Years, Months, Days, Hours and Minutes, each of what the one before has left.
Split(d, units) ==
    FoldLeft(LAMBDA sofar, u :
                [left  |-> sofar.left % Length[u],
                 shown |-> [sofar.shown EXCEPT ![u] = sofar.left \div Length[u]]],
             [left |-> d, shown |-> [u \in Units |-> 0]],
             units)

\* The seconds are rounded, half a second up.
formatWithoutMonth(d) ==
    LET parts == Split(d, <<"day", "hour", "minute">>)
    IN  [parts.shown EXCEPT !["second"] = (parts.left + 1) \div Second]

formatWithoutYear(d) == Split(d, <<"month", "day", "hour", "minute">>).shown

Format(d) ==
    IF d < Month THEN formatWithoutMonth(d)
    ELSE IF d < Year THEN formatWithoutYear(d)
    ELSE Split(d, <<"year", "month", "day", "hour">>).shown

\* A time to come is shown as such.
FormatTime(age) ==
    [until |-> age < 0, shown |-> Format(IF age < 0 THEN -age ELSE age)]

-----------------------------------------------------------------------------
(* What a reader takes from it. *)

Value(shown) ==
    shown["year"] * Year + shown["month"] * Month + shown["day"] * Day
        + shown["hour"] * Hour + shown["minute"] * Minute + shown["second"] * Second

Read(time) == IF time.until THEN -Value(time.shown) ELSE Value(time.shown)

\* The last unit in which an age is shown, and how far the text may be off.
Precision(age) ==
    LET d == IF age < 0 THEN -age ELSE age
    IN  IF d < Month THEN 1 ELSE IF d < Year THEN Minute - 1 ELSE Hour - 1

ReadsBack(age) ==
    Read(FormatTime(age)) \in (age - Precision(age))..(age + Precision(age))

\* No unit holds as much as the next.  Two cases are as the code has them: 60
\* seconds after rounding, and 12 months in the last days of a year.
Carried(age) ==
    LET shown == FormatTime(age).shown
    IN  /\ shown["second"] <= 60 /\ shown["minute"] < 60 /\ shown["hour"] < 24
        /\ shown["day"] < 30 /\ shown["month"] <= 12
        /\ shown["second"] # 0 => shown["month"] = 0 /\ shown["year"] = 0
=============================================================================
