----------------------------- MODULE OperatorPage -----------------------------
(***************************************************************************)
(* The operator's page (app/templates/hmi.html, app/static/app.js) and     *)
(* what feeds it: the tables as the persister fills them, the bridge       *)
(* thread that emits what it hears from the broker, and the handler that   *)
(* sends the newest rows to a browser that connects (app/sockets.py).      *)
(*                                                                         *)
(* Persister and bridge are different processes: each gets every message,  *)
(* in order, and neither waits for the other.  A browser is in the room    *)
(* that the bridge emits to before its connect handler runs, and the two   *)
(* are different threads of the server.  What is emitted to a browser      *)
(* arrives in order, unless its connection ends first.                     *)
(*                                                                         *)
(* One browser.  Its timers fire on time: the page is in the foreground.   *)
(* n numbers the messages.  emitted, gap, applied and fresh are history.   *)
(***************************************************************************)
EXTENDS Integers, Sequences

CONSTANTS
    Assets,        \* the assets that publish
    Mine,          \* the asset of the page
    Stale,         \* the 30 s of the stale timer, in clock ticks
    MaxTime,       \* bound on the clock
    MaxMessages,   \* bound on the messages published
    MaxConnects,   \* bound on page loads and connections
    MayFail        \* whether the connect handler's reads may raise

ASSUME PageAssumption ==
    /\ Mine \in Assets
    /\ MayFail \in BOOLEAN
    /\ Stale \in Nat \ {0}
    /\ MaxTime \in Nat /\ MaxMessages \in Nat /\ MaxConnects \in Nat

VARIABLES
    now,           \* the browser's clock
    published,     \* messages published so far
    toDb,          \* messages the persister has not inserted
    toBridge,      \* messages the bridge has not emitted
    rows,          \* the tables events and alarms, oldest row first
    page,          \* "closed", "offline", "joined", "stateSent" or "live"
    wire,          \* what was emitted to the browser and has not reached it
    shown,         \* kind -> the message the tile or the alarm strip shows
    timers,        \* deadlines of the armed timers
    staleTimer,    \* deadline of the timer the page knows of, or Never
    banner,        \* the "No new data" banner is visible
    connects,      \* page loads and connections so far
    emitted,       \* kind -> n of the last message of Mine the bridge emitted
    gap,           \* kind -> the page is behind and nothing on the wire makes up
    applied,       \* when the tile last got a message
    fresh          \* when the tile last got a message newer than the one it had

feed == <<published, toDb, toBridge, rows>>
tile == <<shown, timers, staleTimer, banner, applied, fresh>>
link == <<page, wire, connects, emitted, gap>>
vars == <<now, feed, tile, link>>

Never == -1
Kinds == {"state", "alarm"}
Message == [kind : Kinds, asset : Assets, n : 1 .. MaxMessages]
Nothing == [kind |-> "none", asset |-> Mine, n |-> 0]

InRoom == page \in {"joined", "stateSent", "live"}

-----------------------------------------------------------------------------
(* What feeds the page.                                                    *)

Publish(k, a) ==
    /\ published < MaxMessages
    /\ published' = published + 1
    /\ LET m == [kind |-> k, asset |-> a, n |-> published + 1] IN
        /\ toDb' = Append(toDb, m)
        /\ toBridge' = Append(toBridge, m)
    /\ UNCHANGED <<now, rows, tile, link>>

Insert ==
    /\ toDb # <<>>
    /\ rows' = Append(rows, Head(toDb))
    /\ toDb' = Tail(toDb)
    /\ UNCHANGED <<now, published, toBridge, tile, link>>

\* Definitions named Bug... are plausible mistakes in the definition that follows
\* them.  No action uses them: they are put in its place to see that the
\* properties notice.
BugEmitToLiveOnly ==
    /\ toBridge # <<>>
    /\ toBridge' = Tail(toBridge)
    /\ LET m == Head(toBridge) IN
        /\ wire' = IF page = "live" THEN Append(wire, m) ELSE wire
        /\ emitted' = IF m.asset = Mine THEN [emitted EXCEPT ![m.kind] = m.n] ELSE emitted
        /\ gap' = IF InRoom /\ m.asset = Mine THEN [gap EXCEPT ![m.kind] = FALSE] ELSE gap
    /\ UNCHANGED <<now, published, toDb, rows, page, connects, tile>>

\* The bridge emits to whoever is in the room.
Emit ==
    /\ toBridge # <<>>
    /\ toBridge' = Tail(toBridge)
    /\ LET m == Head(toBridge) IN
        /\ wire' = IF InRoom THEN Append(wire, m) ELSE wire
        /\ emitted' = IF m.asset = Mine THEN [emitted EXCEPT ![m.kind] = m.n] ELSE emitted
        /\ gap' = IF InRoom /\ m.asset = Mine THEN [gap EXCEPT ![m.kind] = FALSE] ELSE gap
    /\ UNCHANGED <<now, published, toDb, rows, page, connects, tile>>

\* SELECT ... ORDER BY id DESC LIMIT 1, of one kind and of some of the assets.
Newest(k, as) ==
    LET hits == {i \in 1 .. Len(rows) : rows[i].kind = k /\ rows[i].asset \in as}
    IN  IF hits = {} THEN Nothing
        ELSE rows[CHOOSE i \in hits : \A j \in hits : j <= i]

-----------------------------------------------------------------------------
(* The page.                                                               *)

BugResetStaleKeepsTimer ==
    /\ banner' = FALSE
    /\ staleTimer' = now + Stale
    /\ timers' = timers \cup {now + Stale}

ResetStale ==
    /\ banner' = FALSE
    /\ staleTimer' = now + Stale
    /\ timers' = (timers \ {staleTimer}) \cup {now + Stale}

BugReceiveAnyAsset ==
    /\ wire # <<>>
    /\ wire' = Tail(wire)
    /\ LET m == Head(wire) IN
        /\ shown' = [shown EXCEPT ![m.kind] = m]
        /\ applied' = IF m.kind = "state" THEN now ELSE applied
        /\ fresh' = IF m.kind = "state" /\ m.n > shown["state"].n THEN now ELSE fresh
        /\ IF m.kind = "state" THEN ResetStale ELSE UNCHANGED <<timers, staleTimer, banner>>
    /\ UNCHANGED <<now, feed, page, connects, emitted, gap>>

\* applyState and applyAlarm.
Receive ==
    /\ wire # <<>>
    /\ wire' = Tail(wire)
    /\ LET m == Head(wire) IN
        \/ /\ m.asset # Mine
           /\ UNCHANGED tile
        \/ /\ m.asset = Mine /\ m.kind = "state"
           /\ shown' = [shown EXCEPT !["state"] = m]
           /\ ResetStale
           /\ applied' = now
           /\ fresh' = IF m.n > shown["state"].n THEN now ELSE fresh
        \/ /\ m.asset = Mine /\ m.kind = "alarm"
           /\ shown' = [shown EXCEPT !["alarm"] = m]
           /\ UNCHANGED <<timers, staleTimer, banner, applied, fresh>>
    /\ UNCHANGED <<now, feed, page, connects, emitted, gap>>

TimerFires ==
    \E d \in timers :
        /\ d <= now
        /\ timers' = timers \ {d}
        /\ banner' = TRUE
        /\ UNCHANGED <<now, feed, link, shown, staleTimer, applied, fresh>>

Tick ==
    /\ now < MaxTime
    /\ \A d \in timers : d > now
    /\ now' = now + 1
    /\ UNCHANGED <<feed, tile, link>>

\* The page is loaded, or loaded again: the server renders the newest rows of the
\* asset, and the script applies the state.
Load ==
    /\ connects < MaxConnects
    /\ connects' = connects + 1
    /\ page' = "offline" /\ wire' = <<>>
    /\ shown' = [k \in Kinds |-> Newest(k, {Mine})]
    /\ banner' = FALSE
    /\ LET rendered == Newest("state", {Mine}) # Nothing IN
        /\ timers' = IF rendered THEN {now + Stale} ELSE {}
        /\ staleTimer' = IF rendered THEN now + Stale ELSE Never
        /\ applied' = IF rendered THEN now ELSE Never
        /\ fresh' = IF shown'["state"].n > shown["state"].n THEN now ELSE fresh
    /\ UNCHANGED <<now, feed, emitted, gap>>

-----------------------------------------------------------------------------
(* The connection and its handler.                                         *)

Connect ==
    /\ page = "offline" /\ connects < MaxConnects
    /\ page' = "joined"
    /\ connects' = connects + 1
    /\ gap' = [k \in Kinds |-> shown[k].n < emitted[k]]
    /\ UNCHANGED <<now, feed, tile, wire, emitted>>

\* The handler sends the newest row of a table, whatever its asset.
SendNewest(k) ==
    LET row == Newest(k, Assets) IN
        /\ wire' = IF row = Nothing THEN wire ELSE Append(wire, row)
        /\ gap' = IF row # Nothing /\ row.asset = Mine
                  THEN [gap EXCEPT ![k] = row.n < emitted[k]]
                  ELSE gap

SendState ==
    /\ page = "joined"
    /\ SendNewest("state")
    /\ page' = "stateSent"
    /\ UNCHANGED <<now, feed, tile, connects, emitted>>

SendAlarm ==
    /\ page = "stateSent"
    /\ SendNewest("alarm")
    /\ page' = "live"
    /\ UNCHANGED <<now, feed, tile, connects, emitted>>

\* A read raises: the exception is logged and the connection stays.
HandlerFails ==
    /\ MayFail /\ page \in {"joined", "stateSent"}
    /\ page' = "live"
    /\ UNCHANGED <<now, feed, tile, wire, connects, emitted, gap>>

Disconnect ==
    /\ InRoom
    /\ page' = "offline" /\ wire' = <<>>
    /\ UNCHANGED <<now, feed, tile, connects, emitted, gap>>

-----------------------------------------------------------------------------

Init ==
    /\ now = 0 /\ published = 0
    /\ toDb = <<>> /\ toBridge = <<>> /\ rows = <<>>
    /\ page = "closed" /\ wire = <<>> /\ connects = 0
    /\ shown = [k \in Kinds |-> Nothing]
    /\ timers = {} /\ staleTimer = Never /\ banner = FALSE
    /\ emitted = [k \in Kinds |-> 0] /\ gap = [k \in Kinds |-> FALSE]
    /\ applied = Never /\ fresh = Never

Next ==
    \/ \E k \in Kinds, a \in Assets : Publish(k, a)
    \/ Insert \/ Emit
    \/ Load \/ Connect \/ SendState \/ SendAlarm \/ HandlerFails \/ Disconnect
    \/ Receive \/ TimerFires \/ Tick

Spec == Init /\ [][Next]_vars

-----------------------------------------------------------------------------
(* Properties.                                                             *)

\* Type invariant; in particular the tile and the strip show the page's own asset.
TypeOK ==
    /\ now \in 0 .. MaxTime /\ published \in 0 .. MaxMessages /\ connects \in 0 .. MaxConnects
    /\ \A q \in {toDb, toBridge, rows, wire} : q \in Seq(Message)
    /\ page \in {"closed", "offline", "joined", "stateSent", "live"}
    /\ DOMAIN shown = Kinds
    /\ \A k \in Kinds :
        \/ shown[k] = Nothing
        \/ shown[k] \in Message /\ shown[k].kind = k /\ shown[k].asset = Mine
    /\ timers \subseteq 0 .. MaxTime + Stale
    /\ staleTimer \in {Never} \cup 0 .. MaxTime + Stale
    /\ banner \in BOOLEAN
    /\ emitted \in [Kinds -> 0 .. MaxMessages] /\ gap \in [Kinds -> BOOLEAN]
    /\ {applied, fresh} \subseteq {Never} \cup 0 .. MaxTime

Idle == toBridge = <<>> /\ wire = <<>>

\* Only its connection can leave a page behind.  A page whose connect handler is
\* done, and for which nothing is on its way, shows the newest message of its asset,
\* unless it was behind when it connected and the row the handler read was older
\* than what the bridge had already emitted, or another asset's, or not read at all
\* (sockets.py:20-40, mqtt_bridge.py:60-68).  What the bridge emits while the handler
\* runs is not lost between the two.
CurrentUnlessGap ==
    page = "live" /\ Idle =>
        \A k \in Kinds : gap[k] \/ shown[k].n = emitted[k]

\* The banner is up exactly when the tile has shown the same message for the
\* stale time: a message on the way re-arms the timer, and no timer of an earlier
\* message survives it (hmi.html:63-68, 76-84).
BannerTellsSilence ==
    /\ banner => applied # Never /\ now - applied >= Stale
    /\ applied # Never /\ (\A d \in timers : d > now) /\ now - applied >= Stale => banner

\* app/README.md:115, "the operator tile never shows "-" if any event is on disk": a
\* blank page that connects is sent the latest state of its asset, if there is one.
TileNeverBlank ==
    [][(/\ page = "joined" /\ page' = "stateSent"
        /\ shown["state"] = Nothing /\ Newest("state", {Mine}) # Nothing)
          => \E i \in 1 .. Len(wire') : wire'[i].kind = "state" /\ wire'[i].asset = Mine]_vars

\* hmi.html:25, "last alarm": once everything has arrived everywhere, the strip of a
\* page that is connected shows the last alarm.
StripShowsLastAlarm ==
    (page = "live" /\ Idle /\ toDb = <<>>) => shown["alarm"] = Newest("alarm", {Mine})

\* hmi.html:21, "No new data in 30 s": the banner is up when the tile has had
\* nothing new for that long.
BannerWhenNothingNew ==
    (page # "closed" /\ fresh # Never /\ now - fresh >= Stale /\ \A d \in timers : d > now)
        => banner
=============================================================================
