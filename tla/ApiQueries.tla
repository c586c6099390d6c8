------------------------------ MODULE ApiQueries ------------------------------
(***************************************************************************)
(* The REST API (app/routes/api.py) and /about over the two tables.  A     *)
(* row's ts_utc is text, written by ble_central.py, and both /history and  *)
(* /oee leave the comparison to SQLite, which compares text byte by byte:  *)
(* /history with the parameters as the client wrote them, /oee with what   *)
(* datetime() returns.                                                     *)
(*                                                                         *)
(* A timestamp's text is modelled as the sequence of its parts in the      *)
(* order of the text, each a number that sorts like its characters do: the *)
(* date, the separator, the time of day in whole seconds, and what         *)
(* follows, if anything.  A day has DaySecs seconds of SecTicks ticks; the *)
(* clock may be set, so that ids and times are two orders of the rows.     *)
(*                                                                         *)
(* The queries change nothing: they are operators, which the properties    *)
(* apply to every state of the tables.  A row of events is [asset, t]; of  *)
(* a row of alarms only the asset matters, and its id says which it is.    *)
(***************************************************************************)
EXTENDS Integers, Sequences, FiniteSets

CONSTANTS
    DaySecs, SecTicks,   \* a day and a second of the model
    MaxTime,             \* bound on the clock
    MaxRows,             \* bound on the rows stored, events and alarms
    MaxSettings,         \* bound on how often the clock is set
    Assets,              \* the assets that clients ask for
    MaxAlarms,           \* the largest limit that /alarms takes
    Formats,             \* ISO 8601 notations that clients use
    Limit,               \* HISTORY_MAX_ROWS
    Spans                \* values of /oee's window, in seconds

ASSUME ApiAssumption ==
    /\ DaySecs \in Nat \ {0} /\ SecTicks \in Nat \ {0}
    /\ MaxTime \in Nat /\ MaxRows \in Nat /\ Limit \in Nat
    /\ MaxSettings \in Nat /\ MaxAlarms \in Nat
    /\ Formats \subseteq {"millis", "seconds"}
    /\ Spans \subseteq Nat \ {0}

VARIABLES
    now,       \* UTC by the gateway's clock, which is the server's
    settings,  \* how often the clock may still be set
    events,    \* the events table, by id: the asset and the time of a row
    alarms     \* the alarms table, by id: the asset of a row

apiVars == <<now, settings, events, alarms>>

-----------------------------------------------------------------------------
(* Text.                                                                   *)

\* The characters that follow a date or a time of day, in the order of their codes.
Space == 0
Dot == 1
Tee == 2
Zed == 3

Day(t) == t \div (DaySecs * SecTicks)
Second(t) == (t \div SecTicks) % DaySecs
Fraction(t) == t % SecTicks

\* _iso_now, and toISOString in a browser.
Millis(t) == <<Day(t), Tee, Second(t), Dot, Fraction(t), Zed>>

\* What a client may write for the time t, the second of them for whole seconds only.
Notation(t, format) ==
    IF format = "millis" THEN Millis(t) ELSE <<Day(t), Tee, Second(t), Zed>>

Params ==
    {[t |-> t, format |-> f] : t \in 0 .. MaxTime, f \in Formats}
        \ {[t |-> t, format |-> "seconds"] : t \in {u \in 0 .. MaxTime : Fraction(u) # 0}}

\* Definitions named Bug... are plausible mistakes in the definition that follows
\* them.  No action uses them: they are put in its place to see that the
\* properties notice.
BugCutoffRounded(t) == <<Day(t + SecTicks \div 2), Space, Second(t + SecTicks \div 2)>>

\* What SQLite's datetime() returns: a space, and no fraction.
Cutoff(t) == <<Day(t), Space, Second(t)>>

\* Text comparison: by the first difference, and a prefix comes first.
Less(a, b) ==
    \E i \in 1 .. Len(b) :
        /\ \A j \in 1 .. i - 1 : j <= Len(a) /\ a[j] = b[j]
        /\ i > Len(a) \/ a[i] < b[i]

BugAtMost(a, b) == Less(a, b)

AtMost(a, b) == ~Less(b, a)

-----------------------------------------------------------------------------
(* The tables.                                                             *)

Full == Len(events) + Len(alarms) >= MaxRows

InsertEvent ==
    /\ ~Full
    /\ \E a \in Assets : events' = Append(events, [asset |-> a, t |-> now])
    /\ UNCHANGED <<now, settings, alarms>>

InsertAlarm ==
    /\ ~Full
    /\ \E a \in Assets : alarms' = Append(alarms, a)
    /\ UNCHANGED <<now, settings, events>>

Tick ==
    /\ now < MaxTime
    /\ now' = now + 1
    /\ UNCHANGED <<settings, events, alarms>>

ClockIsSet ==
    /\ settings > 0 /\ settings' = settings - 1
    /\ now' \in 0 .. MaxTime
    /\ UNCHANGED <<events, alarms>>

ApiInit == now = 0 /\ settings = MaxSettings /\ events = <<>> /\ alarms = <<>>

ApiNext == InsertEvent \/ InsertAlarm \/ Tick \/ ClockIsSet

ApiSpec == ApiInit /\ [][ApiNext]_apiVars

-----------------------------------------------------------------------------
(* The queries.                                                            *)

\* The rows of an asset, and what a row's ts_utc says.
RowsOf(a) == {id \in 1 .. Len(events) : events[id].asset = a}
Text(id) == Millis(events[id].t)

\* ORDER BY id DESC, and ORDER BY ts_utc by way of the index, which has rows of one
\* text in the order of their ids: the pairs of ids of which the first comes first.
BugNewestFirst(ids) == {p \in ids \X ids : p[1] < p[2]}

NewestFirst(ids) == {p \in ids \X ids : p[1] > p[2]}

ByText(ids) ==
    {p \in ids \X ids : \/ Less(Text(p[1]), Text(p[2]))
                        \/ Text(p[1]) = Text(p[2]) /\ p[1] < p[2]}

Preceding(id, ids, order) == {other \in ids : <<other, id>> \in order}

\* LIMIT: of ids that an order arranges, the first.
First(limit, ids, order) ==
    [k \in 1 .. IF Cardinality(ids) <= limit THEN Cardinality(ids) ELSE limit |->
        CHOOSE id \in ids : Cardinality(Preceding(id, ids, order)) = k - 1]

\* WHERE ts_utc BETWEEN ... ORDER BY ts_utc LIMIT ..., or refused if to < from.
History(a, from, to) ==
    LET low == Notation(from.t, from.format)
        high == Notation(to.t, to.format)
        between == {id \in RowsOf(a) : AtMost(low, Text(id)) /\ AtMost(Text(id), high)}
    IN  IF Less(high, low) THEN [ok |-> FALSE]
        ELSE [ok |-> TRUE, found |-> First(Limit, between, ByText(between))]

\* The rows that /oee's availability is the fraction of HEALTHY of, null for none.  It
\* only counts them, in whatever order they come.
Oee(a, span) == {id \in RowsOf(a) : AtMost(Cutoff(now - span * SecTicks), Text(id))}

\* /state: ORDER BY id DESC LIMIT 1, NO_DATA for none.
State(a) ==
    LET newest == First(1, RowsOf(a), NewestFirst(RowsOf(a)))
    IN  IF newest = <<>> THEN [ok |-> FALSE] ELSE [ok |-> TRUE, t |-> events[newest[1]].t]

Null == -1

\* MAX(ts_utc) of rows, compared as text.
Latest(ids) ==
    IF ids = {} THEN Null
    ELSE CHOOSE t \in {events[id].t : id \in ids} : \A id \in ids : AtMost(Text(id), Millis(t))

\* COUNT(*) and MAX(ts_utc).
Summary(ids) == [events |-> Cardinality(ids), last |-> Latest(ids)]

\* /assets: GROUP BY asset_id, a row for each asset that has events.
AssetsList == [a \in {events[id].asset : id \in 1 .. Len(events)} |-> Summary(RowsOf(a))]

\* /about: the same of the whole table.
About == Summary(1 .. Len(events))

\* /alarms: ORDER BY id DESC LIMIT ?, the ids of the rows.
Alarms(a, limit) ==
    LET mine == {id \in 1 .. Len(alarms) : alarms[id] = a}
    IN  IF limit < 1 \/ limit > MaxAlarms THEN [ok |-> FALSE]
        ELSE [ok |-> TRUE, ids |-> First(limit, mine, NewestFirst(mine))]

-----------------------------------------------------------------------------
(* Properties.                                                             *)

\* Rows carry times of the model, and there are no more of them than MaxRows.
ApiTypeOK ==
    /\ now \in 0 .. MaxTime /\ settings \in 0 .. MaxSettings
    /\ events \in Seq([asset : Assets, t : 0 .. MaxTime]) /\ alarms \in Seq(Assets)
    /\ Len(events) + Len(alarms) <= MaxRows

\* What /history should return: each row in the range once, oldest first, and of more
\* than the limit the oldest.
IsHistory(found, a, from, to) ==
    LET inRange == {id \in RowsOf(a) : from <= events[id].t /\ events[id].t <= to}
    IN  /\ Len(found) <= Limit
        /\ \A i \in 1 .. Len(found) : found[i] \in inRange
        /\ \A i, j \in 1 .. Len(found) :
             i < j => found[i] # found[j] /\ events[found[i]].t <= events[found[j]].t
        /\ \A id \in inRange :
             \/ \E i \in 1 .. Len(found) : found[i] = id
             \/ /\ Len(found) = Limit
                /\ \A i \in 1 .. Len(found) : events[found[i]].t <= events[id].t

\* /history is exact for a client that writes its times as the rows are written, as
\* trend.html does, although the clock may have been set while rows were stored: it
\* refuses an inverted range and no other, and returns the rows in the range, oldest
\* first and no more than the limit (api.py:58-68).
HistoryExactInMillis ==
    Formats = {"millis"} =>
        \A a \in Assets, from, to \in Params :
            LET answer == History(a, from, to)
            IN  /\ answer.ok <=> from.t <= to.t
                /\ answer.ok => IsHistory(answer.found, a, from.t, to.t)

\* app/README.md:50 and api.py:18 ask for "ISO 8601": the rows in the range come back
\* in whatever notation the range is written.
HistoryInAnyNotation ==
    \A a \in Assets, from, to \in Params :
        History(a, from, to).ok => IsHistory(History(a, from, to).found, a, from.t, to.t)

\* The windows of /oee that begin within the model.
Windows == {span \in Spans : now - span * SecTicks >= 0}

\* /oee leaves out no row of its window, over midnight too, although the cutoff is
\* text of another format and has no fraction (api.py:85).
OeeMissesNothing ==
    \A a \in Assets, span \in Windows :
        \A id \in RowsOf(a) : events[id].t >= now - span * SecTicks => id \in Oee(a, span)

\* PROJECT_PLAN.md:618, "% time HEALTHY over a window": but for the second the window
\* begins in, /oee counts no row from before it.
OeeCountsTheWindow ==
    \A a \in Assets, span \in Windows :
        \A id \in Oee(a, span) : events[id].t > now - (span + 1) * SecTicks

\* Of an asset, /assets, /about and /history say what /state does: whether there is
\* data, and up to when.
NewestAgrees(a) ==
    LET found == History(a, [t |-> 0, format |-> "millis"], [t |-> MaxTime, format |-> "millis"]).found
        listed == AssetsList[a]
    IN  /\ State(a).ok <=> a \in DOMAIN AssetsList
        /\ State(a).ok =>
             /\ State(a).t <= listed.last /\ listed.last <= About.last
             /\ settings = MaxSettings => State(a).t = listed.last
             /\ Len(found) <= listed.events
             /\ Len(found) < Limit => events[found[Len(found)]].t = listed.last

\* /alarms begins with the newest alarm and passes over none.
AlarmsFromNewest(a, limit) ==
    LET ids == Alarms(a, limit).ids
    IN  /\ \A i, j \in 1 .. Len(ids) : i < j => ids[i] > ids[j]
        /\ \A id \in 1 .. Len(alarms) :
             (alarms[id] = a /\ \A i \in 1 .. Len(ids) : ids[i] # id)
                 => Len(ids) = limit /\ id < ids[limit]

\* As many rows as /assets says of each asset are, taken together, as many as /about's.
CountsAddUp ==
    Cardinality(UNION {{a} \X (1 .. AssetsList[a].events) : a \in DOMAIN AssetsList}) = About.events

\* The endpoints tell one story: /assets lists exactly the assets for which /state has
\* data, its counts add up to /about's, no history is longer than its count, the row
\* of /state is not newer than last_ts and is of that time unless the clock was set,
\* and /alarms begins with the newest and passes over none (api.py:35-46, 108-134,
\* about.py:14-24).
EndpointsAgree ==
    /\ \A a \in Assets : NewestAgrees(a) /\ \A limit \in 1 .. MaxAlarms : AlarmsFromNewest(a, limit)
    /\ CountsAddUp
=============================================================================
