------------------------------- MODULE TrendPage -------------------------------
(***************************************************************************)
(* The trend page (app/templates/trend.html) beside the operator's page: a *)
(* chart that is seeded with /history and goes on with what the socket     *)
(* brings.  What feeds the browser, the connection and its handler are     *)
(* those of OperatorPage.  A browser shows one page or the other, as view  *)
(* says, and may load it again.                                            *)
(*                                                                         *)
(* The page asks for the rows stamped within the five minutes before it    *)
(* was loaded: no message of the model is older.  The server reads them    *)
(* some time after that, and the answer arrives still later: only then     *)
(* does the page listen to the socket.  deaf, trimmed and again are        *)
(* history.  A point of the chart is the n of its message.                 *)
(***************************************************************************)
EXTENDS OperatorPage, FiniteSets

CONSTANT ChartMax   \* the 600 points that the chart keeps

ASSUME TrendAssumption == ChartMax \in Nat \ {0}

VARIABLES
    view,      \* "operator" or "trend"
    fetch,     \* "none", "asked", "answered", "done" or "failed"
    asOf,      \* the messages published when the page was loaded
    fetched,   \* the points of /history's answer
    chart,     \* the points on the chart, from left to right
    seeded,    \* how many of them came from /history
    deaf,      \* points that passed by while the page was not listening
    trimmed,   \* points that were shifted out
    again      \* points that the connect handler sent

seeding == <<fetch, asOf, fetched>>
drawing == <<chart, seeded, trimmed>>
trend == <<seeding, drawing, deaf, again>>
trendVars == <<vars, view, trend>>

IsPoint(m) == m.kind = "state" /\ m.asset = Mine

\* The points among the messages of a sequence.
Points(s) == {s[i].n : i \in {j \in 1 .. Len(s) : IsPoint(s[j])}}

Emitted == (Points(rows) \cup Points(toDb)) \ Points(toBridge)

OnChart == {chart[i] : i \in 1 .. Len(chart)}

-----------------------------------------------------------------------------
(* The page.                                                               *)

LoadTrend ==
    /\ connects < MaxConnects
    /\ connects' = connects + 1
    /\ page' = "offline" /\ wire' = <<>>
    /\ fetch' = "asked" /\ asOf' = published /\ fetched' = <<>>
    /\ chart' = <<>> /\ seeded' = 0 /\ trimmed' = {}
    /\ deaf' = Emitted /\ again' = {}
    /\ UNCHANGED <<now, feed, tile, emitted, gap>>

\* The points that /history finds.
InRange == {n \in Points(rows) : n <= asOf}

BugHistoryRows ==
    CHOOSE s \in [1 .. Cardinality(InRange) -> InRange] :
        \A i, j \in 1 .. Cardinality(InRange) : i < j => s[i] > s[j]

\* ORDER BY ts_utc ASC: messages are numbered in the order of their stamps.
HistoryRows ==
    CHOOSE s \in [1 .. Cardinality(InRange) -> InRange] :
        \A i, j \in 1 .. Cardinality(InRange) : i < j => s[i] < s[j]

\* The server answers: with the rows, or that it refuses.
FetchReads ==
    /\ fetch = "asked"
    /\ fetch' = "answered"
    /\ fetched' \in {HistoryRows, <<>>}
    /\ UNCHANGED <<vars, asOf, drawing, deaf, again>>

\* The answer arrives: the chart is made, and the page listens.
FetchArrives ==
    /\ fetch = "answered"
    /\ fetch' = "done"
    /\ chart' = fetched /\ seeded' = Len(fetched)
    /\ deaf' = deaf \ {fetched[i] : i \in 1 .. Len(fetched)}
    /\ UNCHANGED <<vars, asOf, fetched, trimmed, again>>

\* fetch() rejects: nothing follows, the page stays "loading".
FetchFails ==
    /\ fetch \in {"asked", "answered"}
    /\ fetch' = "failed"
    /\ UNCHANGED <<vars, asOf, fetched, drawing, deaf, again>>

BugListening == TRUE

\* onState is registered after the await.
Listening == fetch = "done"

Excess(s) == IF Len(s) > ChartMax THEN Len(s) - ChartMax ELSE 0

\* A point is pushed, and the chart is cut to its length from the left.
Push(n) ==
    LET longer == Append(chart, n)
        cut == Excess(longer)
    IN  /\ chart' = SubSeq(longer, cut + 1, Len(longer))
        /\ seeded' = IF seeded > cut THEN seeded - cut ELSE 0
        /\ trimmed' = trimmed \cup {longer[i] : i \in 1 .. cut}

TrendReceive ==
    /\ wire # <<>>
    /\ wire' = Tail(wire)
    /\ LET m == Head(wire) IN
        \/ /\ IsPoint(m) /\ Listening
           /\ Push(m.n)
           /\ UNCHANGED deaf
        \/ /\ IsPoint(m) /\ ~Listening
           /\ deaf' = deaf \cup {m.n}
           /\ UNCHANGED drawing
        \/ /\ ~IsPoint(m)
           /\ UNCHANGED <<deaf, drawing>>
    /\ UNCHANGED <<now, feed, tile, page, connects, emitted, gap, seeding, again>>

-----------------------------------------------------------------------------
(* The feed and the connection, as they concern the chart.                 *)

TrendEmit ==
    /\ Emit
    /\ deaf' = IF InRoom THEN deaf ELSE deaf \cup Points(<<Head(toBridge)>>)
    /\ UNCHANGED <<seeding, drawing, again>>

TrendSendState ==
    /\ SendState
    /\ again' = again \cup Points(<<Newest("state", Assets)>>)
    /\ UNCHANGED <<seeding, drawing, deaf>>

TrendDisconnect ==
    /\ Disconnect
    /\ deaf' = deaf \cup Points(wire)
    /\ UNCHANGED <<seeding, drawing, again>>

TrendInit ==
    /\ Init
    /\ view \in {"operator", "trend"}
    /\ fetch = "none" /\ asOf = 0 /\ fetched = <<>>
    /\ chart = <<>> /\ seeded = 0 /\ deaf = {} /\ trimmed = {} /\ again = {}

\* The trend page has no timer and does not listen to alarms: its clock may stand,
\* and alarms are left out.
TrendStep ==
    \/ LoadTrend \/ FetchReads \/ FetchArrives \/ FetchFails
    \/ TrendReceive \/ TrendEmit \/ TrendSendState \/ TrendDisconnect
    \/ /\ \/ \E a \in Assets : Publish("state", a)
          \/ Insert \/ Connect \/ SendAlarm \/ HandlerFails
       /\ UNCHANGED trend

TrendNext ==
    /\ UNCHANGED view
    /\ \/ view = "operator" /\ Next /\ UNCHANGED trend
       \/ view = "trend" /\ TrendStep

TrendSpec == TrendInit /\ [][TrendNext]_trendVars

-----------------------------------------------------------------------------
(* Properties.                                                             *)

\* The tile and the strip keep what OperatorPage says of them, in the views that have
\* them: only its connection leaves a page behind (hmi.html:76-93, sockets.py:20-40).
OperatorCurrent == view = "operator" => CurrentUnlessGap

\* The chart misses nothing that the page could have heard: once nothing is on its
\* way, each state of the asset is on the chart, or was shifted out, or is one that
\* neither the history's answer had nor the page was listening to when it was
\* emitted: not connected, or still waiting for the answer (trend.html:34, 58-73).
ChartHolesExplained ==
    (view = "trend" /\ Listening /\ page = "live" /\ Idle) =>
        Emitted \subseteq OnChart \cup trimmed \cup deaf

\* The chart runs in the order of time wherever the bridge alone drew it, and within
\* what /history gave: a point that stands right of a newer one, or twice, was read
\* from a table ahead of the bridge, or sent again, by the connect handler or by
\* /history (trend.html:34-36, 62-63, sockets.py:26-31).
ChartOrderExplained ==
    \A i, j \in 1 .. Len(chart) :
        i < j /\ chart[j] <= chart[i]
            => /\ j > seeded
               /\ \/ {chart[i], chart[j]} \cap again # {}
                  \/ \E k \in 1 .. Len(fetched) : fetched[k] = chart[i]

\* trend.html:55, "live updates active": a page whose connection never broke misses
\* nothing that was published after it was loaded.
NoHoleAfterHistory ==
    (view = "trend" /\ Listening /\ page = "live" /\ connects = 2 /\ Idle /\ toDb = <<>>) =>
        \A n \in Emitted : n > asOf => n \in OnChart \cup trimmed

\* trend.html:57, "trim anything older than 5 min", and nothing else.
TrimsOnlyTheOld == trimmed = {}
=============================================================================
