------------------------------ MODULE Metrics ------------------------------
(***************************************************************************)
(* The metrics client (bot/metrics/metrics.go).  Handlers count; once a    *)
(* minute a submission takes the counts, one mutex after the other, and    *)
(* writes three points.  The third waits for a minute's measurement of the *)
(* CPU, so that the next submission begins before this one ends: each is a *)
(* goroutine of its own.  A point is written to a buffer, which the        *)
(* InfluxDB client sends when it likes, and when it is flushed.            *)
(***************************************************************************)
EXTENDS Naturals, FiniteSetsExt

CONSTANTS
    Names,       \* names of gateway events
    Endpoints,   \* normalised requests
    Queries,     \* the counter of queries
    Commands,    \* the counter of commands
    Submissions, \* goroutines running submitInner; bounds how many overlap
    Wrap,        \* 2^32 in the code
    MaxCounts    \* bounds what is counted

Counters == Names \cup Endpoints \cup {Queries, Commands}

ASSUME MetricsAssumption ==
    /\ IsFiniteSet(Counters) /\ IsFiniteSet(Submissions)
    /\ Queries # Commands
    /\ Names \cap Endpoints = {}
    /\ {Queries, Commands} \cap (Names \cup Endpoints) = {}
    /\ Wrap \in Nat \ {0}
    /\ MaxCounts \in Nat

VARIABLES
    count,       \* c.queries, c.cmds, and the maps c.m and c.reqs
    step,        \* step[s]: what the submission s does next
    hand,        \* hand[s]: the counts s has taken and not written: the locals
                 \* queries and cmds, im and rm
    totalEvents, \* totalEvents[s]
    buffer,      \* what was written and not sent
    sent,        \* what was sent
    statistics,  \* the sum of the field events of the statistics written so far
    signals,     \* the signals that submit or the main goroutine has been told of
    ticking,     \* submit is in its loop
    exited,
    counted      \* how often each counter was incremented

submissions == <<step, hand, totalEvents>>
points == <<buffer, sent, statistics>>
process == <<signals, ticking, exited>>
metricsVars == <<count, submissions, points, process, counted>>

-----------------------------------------------------------------------------
Values == [Counters -> 0..(Wrap - 1)]
None == [c \in Counters |-> 0]

\* What is left of n in a counter.
Wrapped(n) == n % Wrap

Plus(f, g) == [c \in Counters |-> Wrapped(f[c] + g[c])]
Only(f, C) == [c \in Counters |-> IF c \in C THEN f[c] ELSE 0]

Total(f, S) == MapThenSumSet(LAMBDA x : f[x], S)

\* Slip: the total is wider than the counters.
WideTotal(f, C) == Total(f, C)

WrappedTotal(f, C) == Wrapped(Total(f, C))

MetricsTypeOK ==
    /\ count \in Values
    /\ step \in [Submissions -> {"idle", "queries", "commands", "events", "writing events",
                                 "requests", "writing requests", "measuring"}]
    /\ hand \in [Submissions -> Values]
    /\ totalEvents \in [Submissions -> 0..(Wrap - 1)]
    /\ buffer \in Values
    /\ sent \in Values
    /\ statistics \in 0..(Wrap - 1)
    /\ signals \subseteq {"SIGINT", "SIGTERM"}
    /\ ticking \in BOOLEAN /\ (signals = {} => ticking)
    /\ exited \in BOOLEAN
    /\ counted \in [Counters -> 0..MaxCounts]

MetricsInit ==
    /\ count = None
    /\ step = [s \in Submissions |-> "idle"]
    /\ hand = [s \in Submissions |-> None]
    /\ totalEvents = [s \in Submissions |-> 0]
    /\ buffer = None
    /\ sent = None
    /\ statistics = 0
    /\ signals = {}
    /\ ticking = TRUE
    /\ exited = FALSE
    /\ counted = None

-----------------------------------------------------------------------------
(* RegisterEvent, IncRequests, IncQuery and IncCommand. *)

Increment(c) ==
    /\ ~exited
    /\ Total(counted, Counters) < MaxCounts
    /\ count' = [count EXCEPT ![c] = Wrapped(@ + 1)]
    /\ counted' = [counted EXCEPT ![c] = @ + 1]
    /\ UNCHANGED <<submissions, points, process>>

-----------------------------------------------------------------------------
(* submitInner: a step for each mutex, and one for each point. *)

\* Slip: the events are read under the mutex, and reset when their point has
\* been written.
TakeKeepsEvents(s, C) ==
    /\ hand' = [hand EXCEPT ![s] = Plus(@, Only(count, C))]
    /\ count' = Only(count, (Counters \ C) \cup Names)

\* Slip: the requests are copied and not reset.
TakeKeepsRequests(s, C) ==
    /\ hand' = [hand EXCEPT ![s] = Plus(@, Only(count, C))]
    /\ count' = Only(count, (Counters \ C) \cup Endpoints)

\* The counters of C are taken and reset.
Take(s, C) ==
    /\ hand' = [hand EXCEPT ![s] = Plus(@, Only(count, C))]
    /\ count' = Only(count, Counters \ C)

Write(s, C) ==
    /\ buffer' = Plus(buffer, Only(hand[s], C))
    /\ hand' = [hand EXCEPT ![s] = Only(@, Counters \ C)]

GoesOn(s, from, to) ==
    /\ ~exited
    /\ step[s] = from
    /\ step' = [step EXCEPT ![s] = to]
    /\ UNCHANGED <<sent, process, counted>>

\* The ticker: submit starts a submission.
Tick(s) ==
    /\ ticking
    /\ GoesOn(s, "idle", "queries")
    /\ UNCHANGED <<count, hand, totalEvents, buffer, statistics>>

TakeQueries(s) ==
    /\ GoesOn(s, "queries", "commands")
    /\ Take(s, {Queries})
    /\ UNCHANGED <<totalEvents, buffer, statistics>>

TakeCommands(s) ==
    /\ GoesOn(s, "commands", "events")
    /\ Take(s, {Commands})
    /\ UNCHANGED <<totalEvents, buffer, statistics>>

TakeEvents(s) ==
    /\ GoesOn(s, "events", "writing events")
    /\ Take(s, Names)
    /\ totalEvents' = [totalEvents EXCEPT ![s] = WrappedTotal(count, Names)]
    /\ UNCHANGED <<buffer, statistics>>

WriteEvents(s) ==
    /\ GoesOn(s, "writing events", "requests")
    /\ Write(s, Names)
    /\ UNCHANGED <<count, totalEvents, statistics>>

TakeRequests(s) ==
    /\ GoesOn(s, "requests", "writing requests")
    /\ Take(s, Endpoints)
    /\ UNCHANGED <<totalEvents, buffer, statistics>>

WriteRequests(s) ==
    /\ GoesOn(s, "writing requests", "measuring")
    /\ Write(s, Endpoints)
    /\ UNCHANGED <<count, totalEvents, statistics>>

\* A minute later, when the CPU has been measured.
WriteStatistics(s) ==
    /\ GoesOn(s, "measuring", "idle")
    /\ Write(s, {Queries, Commands})
    /\ statistics' = Wrapped(statistics + totalEvents[s])
    /\ totalEvents' = [totalEvents EXCEPT ![s] = 0]
    /\ UNCHANGED count

-----------------------------------------------------------------------------
SendBuffer ==
    /\ sent' = Plus(sent, buffer)
    /\ buffer' = None

\* The InfluxDB client sends on its own.
Send ==
    /\ ~exited
    /\ buffer # None
    /\ SendBuffer
    /\ UNCHANGED <<count, submissions, statistics, process, counted>>

\* SIGINT reaches submit and the main goroutine (cmd/bot), SIGTERM only submit.
Interrupt ==
    /\ ~exited
    /\ "SIGINT" \notin signals
    /\ signals' = signals \cup {"SIGINT"}
    /\ UNCHANGED <<count, submissions, points, ticking, exited, counted>>

\* Once submit has returned, nobody is notified of a SIGTERM, which then ends the
\* process.
Terminate ==
    /\ ~exited
    /\ IF ticking
       THEN "SIGTERM" \notin signals /\ signals' = signals \cup {"SIGTERM"} /\ UNCHANGED exited
       ELSE exited' = TRUE /\ UNCHANGED signals
    /\ UNCHANGED <<count, submissions, points, ticking, counted>>

\* submit stops its ticker and flushes; submissions under way go on.
Flush ==
    /\ ~exited
    /\ ticking
    /\ signals # {}
    /\ ticking' = FALSE
    /\ SendBuffer
    /\ UNCHANGED <<count, submissions, statistics, signals, exited, counted>>

\* The main goroutine returns; it waits for nobody.
Exit ==
    /\ ~exited
    /\ "SIGINT" \in signals
    /\ exited' = TRUE
    /\ UNCHANGED <<count, submissions, points, signals, ticking, counted>>

Submit(s) ==
    \/ Tick(s) \/ TakeQueries(s) \/ TakeCommands(s) \/ TakeEvents(s) \/ WriteEvents(s)
    \/ TakeRequests(s) \/ WriteRequests(s) \/ WriteStatistics(s)

MetricsNext ==
    \/ \E c \in Counters : Increment(c)
    \/ \E s \in Submissions : Submit(s)
    \/ Send \/ Interrupt \/ Terminate \/ Flush \/ Exit

MetricsSpec ==
    /\ MetricsInit /\ [][MetricsNext]_metricsVars
    /\ \A s \in Submissions : WF_metricsVars(Submit(s)) /\ WF_metricsVars(Send)

-----------------------------------------------------------------------------
\* Whatever is counted is at one place and there once, up to the width of the
\* counters: with its counter, with one submission, in the buffer, or sent.
\* Nothing is lost or reported twice between the mutexes, whatever is counted
\* while submissions overlap (submitInner, lines 140-173).
CountedOnce ==
    \A c \in Counters :
        Wrapped(count[c] + Total([s \in Submissions |-> hand[s][c]], Submissions) + buffer[c] + sent[c])
            = Wrapped(counted[c])

\* The totals in the statistics are those of the events points: what submissions
\* have still to report accounts for any difference (totalEvents, lines 152-156
\* and 182).
TotalsAgree ==
    Wrapped(statistics + Total(totalEvents, Submissions))
        = Wrapped(WrappedTotal(buffer, Names) + WrappedTotal(sent, Names)
                    + Total([s \in Submissions |-> WrappedTotal(hand[s], Names)], Submissions))

\* Both at once, however submissions overlap and whatever signals come: each
\* count is reported once, and once in the statistics too.
AccountsBalance == CountedOnce /\ TotalsAgree

\* A submission has nothing to report before it has taken the events.
TotalsTaken ==
    \A s \in Submissions :
        step[s] \in {"idle", "queries", "commands", "events"} => totalEvents[s] = 0

\* The inductive invariant.
MetricsIInv ==
    /\ MetricsTypeOK
    /\ TotalsTaken
    /\ AccountsBalance

\* As long as no signal comes, everything counted is reported at last, and the
\* statistics agree with the events.  After a SIGTERM the bot runs on and counts,
\* and reports no more: that is excepted here.
EventuallyReported ==
    \/ <>(signals # {})
    \/ <>[](/\ \A c \in Counters : sent[c] = Wrapped(counted[c])
            /\ statistics = WrappedTotal(counted, Names))
=============================================================================
