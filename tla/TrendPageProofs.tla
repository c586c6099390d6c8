--------------------------- MODULE TrendPageProofs ---------------------------
(***************************************************************************)
(* Proofs about the two pages, for any number of assets, messages, page    *)
(* loads and connections: the operator's page is current unless its        *)
(* connection left it behind, its banner tells silence, and the chart of   *)
(* the trend page has no hole and no disorder that is not explained.       *)
(*                                                                         *)
(* The argument follows a message from its publication through the table   *)
(* and the bridge onto the wire: toBridge is in order and ahead of all     *)
(* that was emitted, and whatever the table, the wire or the tile has was  *)
(* emitted or is still coming.                                             *)
(***************************************************************************)
EXTENDS TrendPage, WellFoundedInduction, FiniteSetTheorems, SequenceTheorems, TLAPS

For(m, k) == m.kind = k /\ m.asset = Mine

In(m, s) == \E i \in 1 .. Len(s) : s[i] = m

-----------------------------------------------------------------------------
(* The invariant: the feed.                                                *)

\* What the bridge has not emitted is in order, and newer than what it has.
BridgeInOrder ==
    /\ \A i, j \in 1 .. Len(toBridge) : i < j => toBridge[i].n < toBridge[j].n
    /\ \A i \in 1 .. Len(toBridge) : \A k \in Kinds : emitted[k] < toBridge[i].n
    /\ \A i \in 1 .. Len(toBridge) : toBridge[i].n <= published
    /\ \A k \in Kinds : emitted[k] <= published

\* A message was published, and of this asset it was emitted or is still coming.
Accounted(m) ==
    /\ m.n <= published
    /\ m.asset = Mine => m.n <= emitted[m.kind] \/ In(m, toBridge)

AllAccounted ==
    /\ \A i \in 1 .. Len(toDb) : Accounted(toDb[i])
    /\ \A i \in 1 .. Len(rows) : Accounted(rows[i])
    /\ \A i \in 1 .. Len(wire) : Accounted(wire[i])
    /\ \A k \in Kinds : shown[k] # Nothing => Accounted(shown[k])

\* Nothing is on its way to a browser that is not connected.
WireNeedsRoom == ~InRoom => wire = <<>>

FeedInv == BridgeInOrder /\ AllAccounted /\ WireNeedsRoom

-----------------------------------------------------------------------------
(* The invariant: the operator's page.                                     *)

\* Once the wire is empty, the page will show message n of kind k.
WillShow(k, n) ==
    \/ \E i \in 1 .. Len(wire) :
        /\ For(wire[i], k) /\ wire[i].n = n
        /\ \A j \in i + 1 .. Len(wire) : ~For(wire[j], k)
    \/ /\ shown[k].n = n
       /\ \A i \in 1 .. Len(wire) : ~For(wire[i], k)

StillComing(k) == \E i \in 1 .. Len(toBridge) : For(toBridge[i], k)

\* A connected page is behind, or will be current, or something is still coming.
WillBeCurrent ==
    view = "operator" /\ InRoom =>
        \A k \in Kinds : gap[k] \/ WillShow(k, emitted[k]) \/ StillComing(k)

\* There is one timer at most, that of the state the tile got last; it has fired
\* when the banner is up.
OneTimer ==
    \/ /\ applied = Never /\ staleTimer = Never
       /\ timers = {} /\ ~banner
    \/ /\ applied # Never /\ applied <= now
       /\ staleTimer = applied + Stale
       /\ \/ timers = {applied + Stale} /\ ~banner
          \/ timers = {} /\ banner /\ applied + Stale <= now

-----------------------------------------------------------------------------
(* The invariant: the trend page.                                          *)

TrendTypeOK ==
    /\ view \in {"operator", "trend"}
    /\ fetch \in {"none", "asked", "answered", "done", "failed"}
    /\ fetched \in Seq(Nat) /\ chart \in Seq(Nat) /\ seeded \in 0 .. Len(chart)

\* The chart is made when the history's answer arrives.
NoChartYet ==
    /\ fetch # "done" => chart = <<>> /\ seeded = 0
    /\ view = "operator" => fetch = "none"

\* What was emitted is on its way, or accounted for.
NoHoleYet ==
    view = "trend" => Emitted \subseteq OnChart \cup trimmed \cup deaf \cup Points(wire)

\* What the history gave ascends, and is what the chart begins with.
SeedAscends ==
    /\ \A i, j \in 1 .. Len(fetched) : i < j => fetched[i] < fetched[j]
    /\ \A i \in 1 .. seeded : \E k \in 1 .. Len(fetched) : fetched[k] = chart[i]
    /\ \A i, j \in 1 .. seeded : i < j => chart[i] < chart[j]

\* A point on its way that the connect handler did not send; one that the socket
\* drew and the handler never sent.
Live(m) == IsPoint(m) /\ m.n \notin again
Drawn(i) == i > seeded /\ chart[i] \notin again

\* The bridge's points ascend from the chart over the wire to the bridge.
WireAscends ==
    /\ \A i, j \in 1 .. Len(wire) : i < j /\ Live(wire[i]) /\ Live(wire[j]) => wire[i].n < wire[j].n
    /\ \A i \in 1 .. Len(wire), j \in 1 .. Len(toBridge) : Live(wire[i]) => wire[i].n < toBridge[j].n

ChartAscends ==
    /\ \A i, j \in 1 .. Len(chart) :
        i < j /\ Drawn(i) /\ chart[j] \notin again => chart[i] < chart[j]
    /\ \A i \in 1 .. Len(chart) : Drawn(i) =>
        /\ \A j \in 1 .. Len(wire) : Live(wire[j]) => chart[i] < wire[j].n
        /\ \A j \in 1 .. Len(toBridge) : chart[i] < toBridge[j].n
        /\ chart[i] <= published

BridgeAscends == view = "trend" => WireAscends /\ ChartAscends

-----------------------------------------------------------------------------
(* Numbers and sequences.                                                  *)

\* A set of natural numbers has a smallest ...
LEMMA SmallestOf ==
    ASSUME NEW T, T \subseteq Nat, T # {}
    PROVE  \E x \in T : \A y \in T : x <= y
<1> DEFINE R == OpToRel(<, Nat)
<1>1. IsWellFoundedOn(R, Nat)
  BY NatLessThanWellFounded
<1>2. \A x, y \in Nat : x < y => <<x, y>> \in R
  BY DEF OpToRel
<1> HIDE DEF R
<1>3. PICK x \in T : \A y \in T : ~ (<<y, x>> \in R)
  BY <1>1, WFMin
<1>4. \A y \in T : x <= y
  <2> TAKE y \in T
  <2>1. x \in Nat /\ y \in Nat /\ <<y, x>> \notin R
    BY <1>3
  <2>2. ~(y < x)
    BY <1>2, <2>1
  <2> QED
    BY <2>1, <2>2
<1> QED
  BY <1>4

\* ... and, if it is bounded, a largest.
LEMMA LargestOf ==
    ASSUME NEW n \in Nat, NEW S, S \subseteq 0 .. n, S # {}
    PROVE  \E x \in S : \A y \in S : y <= x
<1> DEFINE T == {k \in Nat : \E x \in S : k = n - x}
<1>1. \A y \in S : y \in 0 .. n /\ n - y \in T
  <2> TAKE y \in S
  <2>1. y \in 0 .. n
    OBVIOUS
  <2>2. n - y \in Nat
    BY <2>1
  <2> QED
    BY <2>1, <2>2
<1>2. T \subseteq Nat /\ T # {}
  BY <1>1
<1>3. PICK t \in T : \A u \in T : t <= u
  BY <1>2, SmallestOf
<1>4. PICK x \in S : t = n - x
  OBVIOUS
<1>5. \A y \in S : y <= x
  <2> TAKE y \in S
  <2>1. t <= n - y
    BY <1>1, <1>3
  <2>2. x \in 0 .. n /\ y \in 0 .. n
    BY <1>1
  <2> QED
    BY <1>4, <2>1, <2>2
<1> QED
  BY <1>5

\* Append puts an element last.
LEMMA Appended ==
    ASSUME NEW S, NEW s \in Seq(S), NEW e \in S
    PROVE  /\ Append(s, e) \in Seq(S)
           /\ Len(s) \in Nat /\ Len(Append(s, e)) = Len(s) + 1
           /\ \A i \in 1 .. Len(s) : Append(s, e)[i] = s[i]
           /\ Append(s, e)[Len(s) + 1] = e
  BY AppendProperties, LenProperties

\* Tail takes the first away.
LEMMA Shortened ==
    ASSUME NEW S, NEW s \in Seq(S), s # <<>>
    PROVE  /\ Tail(s) \in Seq(S) /\ Head(s) \in S
           /\ Len(s) \in Nat /\ Len(s) >= 1 /\ Len(Tail(s)) = Len(s) - 1
           /\ Head(s) = s[1]
           /\ \A i \in 1 .. Len(Tail(s)) : i + 1 \in 1 .. Len(s) /\ Tail(s)[i] = s[i + 1]
<1>1. Len(s) \in Nat /\ Len(s) # 0 /\ Len(s) >= 1
  BY EmptySeq, LenProperties
<1>2. /\ Tail(s) \in Seq(S) /\ Head(s) \in S /\ Len(Tail(s)) = Len(s) - 1
      /\ \A i \in 1 .. Len(Tail(s)) : Tail(s)[i] = s[i + 1]
  BY HeadTailProperties
<1>3. Head(s) = s[1]
  OBVIOUS
<1> QED
  BY <1>1, <1>2, <1>3

LEMMA InAppended ==
    ASSUME NEW S, NEW s \in Seq(S), NEW e \in S
    PROVE  \A m : In(m, Append(s, e)) <=> In(m, s) \/ m = e
<1>1. /\ Len(s) \in Nat /\ Len(Append(s, e)) = Len(s) + 1
      /\ \A i \in 1 .. Len(s) : Append(s, e)[i] = s[i]
      /\ Append(s, e)[Len(s) + 1] = e
  BY Appended
<1> DEFINE t == Append(s, e)
<1> HIDE DEF t
<1> QED
  BY <1>1 DEF In, t

LEMMA InShortened ==
    ASSUME NEW S, NEW s \in Seq(S), s # <<>>
    PROVE  \A m : In(m, s) <=> In(m, Tail(s)) \/ m = Head(s)
<1>1. /\ Len(s) \in Nat /\ Len(s) >= 1 /\ Len(Tail(s)) = Len(s) - 1 /\ Head(s) = s[1]
      /\ \A i \in 1 .. Len(Tail(s)) : i + 1 \in 1 .. Len(s) /\ Tail(s)[i] = s[i + 1]
  BY Shortened
<1>2. \A i \in 1 .. Len(s) : i = 1 \/ (i - 1 \in 1 .. Len(Tail(s)) /\ Tail(s)[i - 1] = s[i])
  <2> TAKE i \in 1 .. Len(s)
  <2>1. i = 1 \/ (i - 1 \in 1 .. Len(Tail(s)) /\ (i - 1) + 1 = i)
    BY <1>1
  <2> QED
    BY <1>1, <2>1
<1> DEFINE t == Tail(s)
<1> HIDE DEF t
<1>3. ASSUME NEW m, In(m, s) PROVE In(m, t) \/ m = Head(s)
  BY <1>1, <1>2, <1>3 DEF In, t
<1>4. ASSUME NEW m, In(m, t) \/ m = Head(s) PROVE In(m, s)
  <2>1. 1 \in 1 .. Len(s)
    BY <1>1
  <2> QED
    BY <1>1, <1>4, <2>1 DEF In, t
<1> QED
  BY <1>3, <1>4 DEF t

-----------------------------------------------------------------------------
(* Types.                                                                  *)

\* What is known of a message, and of no message.
LEMMA MessageFields ==
    /\ \A m \in Message : /\ m.kind \in Kinds /\ m.asset \in Assets /\ m.n \in 1 .. MaxMessages
                          /\ m # Nothing
    /\ Nothing.n = 0 /\ Nothing.kind \notin Kinds
<1>1. \A m \in Message : m.kind \in Kinds /\ m.asset \in Assets /\ m.n \in 1 .. MaxMessages
  BY DEF Message
<1>2. Nothing.n = 0 /\ Nothing.kind \notin Kinds
  BY DEF Nothing, Kinds
<1>3. \A m \in Message : m # Nothing
  BY <1>1, <1>2
<1> QED
  BY <1>1, <1>2, <1>3

LEMMA Sequences ==
    ASSUME TypeOK
    PROVE  /\ toDb \in Seq(Message) /\ toBridge \in Seq(Message)
           /\ rows \in Seq(Message) /\ wire \in Seq(Message)
  BY DEF TypeOK

\* The newest row is one of the rows it is the newest of, if there are any.
LEMMA NewestRow ==
    ASSUME rows \in Seq(Message), NEW k \in Kinds, NEW as
    PROVE  \/ /\ Newest(k, as) = Nothing
              /\ ~\E i \in 1 .. Len(rows) : rows[i].kind = k /\ rows[i].asset \in as
           \/ /\ Newest(k, as) \in Message
              /\ Newest(k, as).kind = k /\ Newest(k, as).asset \in as
              /\ In(Newest(k, as), rows)
<1> DEFINE hits == {i \in 1 .. Len(rows) : rows[i].kind = k /\ rows[i].asset \in as}
           newest == CHOOSE i \in hits : \A j \in hits : j <= i
<1>1. CASE hits = {}
  BY <1>1 DEF Newest
<1>2. CASE hits # {}
  <2>1. Len(rows) \in Nat
    BY LenProperties
  <2>2. hits \subseteq 0 .. Len(rows)
    <3>1. \A i \in 1 .. Len(rows) : i \in 0 .. Len(rows)
      BY <2>1
    <3> QED
      BY <3>1
  <2>3. \E i \in hits : \A j \in hits : j <= i
    BY <1>2, <2>1, <2>2, LargestOf
  <2>4. newest \in hits
    BY <2>3
  <2>5. Newest(k, as) = rows[newest]
    BY <1>2 DEF Newest
  <2> HIDE DEF newest
  <2>6. newest \in 1 .. Len(rows) /\ rows[newest].kind = k /\ rows[newest].asset \in as
    BY <2>4
  <2>7. rows[newest] \in Message
    BY <2>6, ElementOfSeq
  <2> QED
    BY <2>5, <2>6, <2>7 DEF In
<1> QED
  BY <1>1, <1>2

\* Which steps there are, as far as the feed, the connection and the tile go.
LEMMA StepsOfBoth ==
    ASSUME [TrendNext]_trendVars
    PROVE  \/ \E k \in Kinds, a \in Assets : Publish(k, a)
           \/ Insert \/ Emit
           \/ Load \/ Connect \/ SendState \/ SendAlarm \/ HandlerFails \/ Disconnect
           \/ Receive \/ TimerFires \/ Tick
           \/ LoadTrend \/ TrendReceive
           \/ UNCHANGED vars
<1>1. CASE Next
  BY <1>1 DEF Next
<1>2. CASE TrendStep
  <2>1. "state" \in Kinds
    BY DEF Kinds
  <2> QED
    BY <1>2, <2>1 DEF TrendStep, FetchReads, FetchArrives, FetchFails, TrendEmit, TrendSendState,
                      TrendDisconnect
<1>3. CASE UNCHANGED trendVars
  BY <1>3 DEF trendVars
<1> QED
  BY <1>1, <1>2, <1>3 DEF TrendNext

\* The types one by one.
LEMMA TypesOf ==
    ASSUME TypeOK
    PROVE  /\ now \in Nat /\ now <= MaxTime /\ published \in Nat /\ published <= MaxMessages
           /\ Stale \in Nat /\ Stale >= 1 /\ MaxTime \in Nat /\ MaxMessages \in Nat
           /\ MaxConnects \in Nat
           /\ \A k \in Kinds : shown[k] = Nothing \/ (shown[k] \in Message /\ For(shown[k], k))
           /\ \A k \in Kinds : shown[k].n \in Nat /\ shown[k].n <= MaxMessages
<1>1. /\ Stale \in Nat /\ Stale >= 1 /\ MaxTime \in Nat /\ MaxMessages \in Nat
      /\ MaxConnects \in Nat
  BY PageAssumption
<1>2. now \in Nat /\ now <= MaxTime /\ published \in Nat /\ published <= MaxMessages
  BY <1>1 DEF TypeOK
<1>3. \A k \in Kinds : shown[k] = Nothing \/ (shown[k] \in Message /\ For(shown[k], k))
  BY DEF TypeOK, For
<1>4. \A k \in Kinds : shown[k].n \in Nat /\ shown[k].n <= MaxMessages
  <2> TAKE k \in Kinds
  <2>1. shown[k] \in Message => shown[k].n \in 1 .. MaxMessages
    BY MessageFields
  <2> QED
    BY <1>1, <1>3, <2>1, MessageFields
<1> QED
  BY <1>1, <1>2, <1>3, <1>4

\* A timer that is set now is in range.
LEMMA TimersTyped ==
    ASSUME TypeOK
    PROVE  /\ now + Stale \in 0 .. MaxTime + Stale
           /\ now \in {Never} \cup 0 .. MaxTime
  BY TypesOf DEF TypeOK

\* The types of the feed, of the connection and of the tile are kept apart.
FeedTypeOK ==
    /\ now \in 0 .. MaxTime /\ published \in 0 .. MaxMessages
    /\ toDb \in Seq(Message) /\ toBridge \in Seq(Message) /\ rows \in Seq(Message)

LinkTypeOK ==
    /\ connects \in 0 .. MaxConnects
    /\ wire \in Seq(Message)
    /\ page \in {"closed", "offline", "joined", "stateSent", "live"}
    /\ emitted \in [Kinds -> 0 .. MaxMessages] /\ gap \in [Kinds -> BOOLEAN]

TileTypeOK ==
    /\ DOMAIN shown = Kinds
    /\ \A k \in Kinds :
        \/ shown[k] = Nothing
        \/ shown[k] \in Message /\ shown[k].kind = k /\ shown[k].asset = Mine
    /\ timers \subseteq 0 .. MaxTime + Stale
    /\ staleTimer \in {Never} \cup 0 .. MaxTime + Stale
    /\ banner \in BOOLEAN
    /\ applied \in {Never} \cup 0 .. MaxTime /\ fresh \in {Never} \cup 0 .. MaxTime

LEMMA TypeParts == TypeOK <=> FeedTypeOK /\ LinkTypeOK /\ TileTypeOK
  BY DEF TypeOK, FeedTypeOK, LinkTypeOK, TileTypeOK

LEMMA FeedTyped ==
    ASSUME TypeOK, [TrendNext]_trendVars
    PROVE  FeedTypeOK'
<1>t. FeedTypeOK /\ toDb \in Seq(Message) /\ toBridge \in Seq(Message) /\ rows \in Seq(Message)
  BY TypeParts, Sequences
<1> USE DEF FeedTypeOK, feed, tile, link
<1>1. ASSUME NEW k \in Kinds, NEW a \in Assets, Publish(k, a) PROVE FeedTypeOK'
  <2> DEFINE m == [kind |-> k, asset |-> a, n |-> published + 1]
  <2>1. published' \in 0 .. MaxMessages /\ published + 1 \in 1 .. MaxMessages
    BY <1>t, <1>1, TypesOf DEF Publish
  <2>2. m \in Message
    BY <2>1 DEF Message
  <2>3. /\ toDb' = Append(toDb, m) /\ toBridge' = Append(toBridge, m)
        /\ now' = now /\ rows' = rows
    BY <1>1 DEF Publish
  <2> HIDE DEF m
  <2>4. toDb' \in Seq(Message) /\ toBridge' \in Seq(Message)
    BY <1>t, <2>2, <2>3, Appended
  <2> QED
    BY <1>t, <2>1, <2>3, <2>4
<1>2. CASE Insert
  <2>1. /\ toDb # <<>> /\ rows' = Append(rows, Head(toDb)) /\ toDb' = Tail(toDb)
        /\ UNCHANGED <<now, published, toBridge>>
    BY <1>2 DEF Insert
  <2>2. Head(toDb) \in Message /\ toDb' \in Seq(Message)
    BY <1>t, <2>1, Shortened
  <2>3. rows' \in Seq(Message)
    BY <1>t, <2>1, <2>2, Appended
  <2> QED
    BY <1>t, <2>1, <2>2, <2>3
<1>3. CASE Emit
  <2>1. toBridge # <<>> /\ toBridge' = Tail(toBridge) /\ UNCHANGED <<now, published, toDb, rows>>
    BY <1>3 DEF Emit
  <2>2. toBridge' \in Seq(Message)
    BY <1>t, <2>1, Shortened
  <2> QED
    BY <1>t, <2>1, <2>2
<1>4. CASE Tick
  <2>1. now' \in 0 .. MaxTime /\ UNCHANGED feed
    BY <1>t, <1>4, TypesOf DEF Tick
  <2> QED
    BY <1>t, <2>1
<1>5. CASE UNCHANGED <<now, feed>>
  BY <1>t, <1>5
<1>6. \/ \E k \in Kinds, a \in Assets : Publish(k, a)
      \/ Insert \/ Emit \/ Tick \/ UNCHANGED <<now, feed>>
  <2>1. CASE Load \/ Connect \/ SendState \/ SendAlarm \/ HandlerFails \/ Disconnect \/ Receive
             \/ TimerFires \/ LoadTrend \/ TrendReceive \/ UNCHANGED vars
    BY <2>1 DEF Load, Connect, SendState, SendAlarm, HandlerFails, Disconnect, Receive,
           TimerFires, LoadTrend, TrendReceive, vars
  <2> QED
    BY <2>1, StepsOfBoth
<1> QED
  BY <1>1, <1>2, <1>3, <1>4, <1>5, <1>6

\* What the connect handler sends of a table.
LEMMA Sent ==
    ASSUME TypeOK, NEW k \in Kinds, SendNewest(k)
    PROVE  \/ wire' = wire /\ gap' = gap
           \/ \E row \in Message :
                /\ row.kind = k /\ In(row, rows)
                /\ wire' = Append(wire, row)
                /\ \/ row.asset = Mine /\ gap' = [gap EXCEPT ![k] = row.n < emitted[k]]
                   \/ row.asset # Mine /\ gap' = gap
<1> DEFINE row == Newest(k, Assets)
<1>1. \/ row = Nothing
      \/ row \in Message /\ row.kind = k /\ In(row, rows)
  BY NewestRow, Sequences
<1>2. /\ wire' = (IF row = Nothing THEN wire ELSE Append(wire, row))
      /\ gap' = (IF row # Nothing /\ row.asset = Mine
                 THEN [gap EXCEPT ![k] = row.n < emitted[k]] ELSE gap)
  BY DEF SendNewest
<1> HIDE DEF row
<1>3. CASE row = Nothing
  BY <1>2, <1>3
<1>4. CASE row \in Message /\ row.kind = k /\ In(row, rows)
  <2>1. row # Nothing
    BY <1>4, MessageFields
  <2> QED
    BY <1>2, <1>4, <2>1
<1> QED
  BY <1>1, <1>3, <1>4

LEMMA SentTyped ==
    ASSUME TypeOK, NEW k \in Kinds, SendNewest(k)
    PROVE  wire' \in Seq(Message) /\ gap' \in [Kinds -> BOOLEAN]
<1>1. wire \in Seq(Message) /\ gap \in [Kinds -> BOOLEAN]
  BY DEF TypeOK
<1>2. CASE wire' = wire /\ gap' = gap
  BY <1>1, <1>2
<1>3. CASE \E row \in Message :
             /\ row.kind = k /\ In(row, rows)
             /\ wire' = Append(wire, row)
             /\ \/ row.asset = Mine /\ gap' = [gap EXCEPT ![k] = row.n < emitted[k]]
                \/ row.asset # Mine /\ gap' = gap
  <2> PICK row \in Message :
         /\ wire' = Append(wire, row)
         /\ gap' = [gap EXCEPT ![k] = row.n < emitted[k]] \/ gap' = gap
    BY <1>3
  <2>1. wire' \in Seq(Message)
    BY <1>1, Appended
  <2>2. (row.n < emitted[k]) \in BOOLEAN
    OBVIOUS
  <2>3. gap' \in [Kinds -> BOOLEAN]
    BY <1>1, <2>2
  <2> QED
    BY <2>1, <2>3
<1> QED
  BY <1>2, <1>3, Sent

LEMMA LinkTyped ==
    ASSUME TypeOK, [TrendNext]_trendVars
    PROVE  LinkTypeOK'
<1>t. LinkTypeOK
  BY TypeParts
<1>e. <<>> \in Seq(Message)
  OBVIOUS
<1> USE DEF LinkTypeOK, feed, tile, link
<1>1. CASE Emit
  <2> DEFINE m == Head(toBridge)
  <2>1. m \in Message
    BY <1>1, Sequences, Shortened DEF Emit
  <2>2. m.kind \in Kinds /\ m.n \in 0 .. MaxMessages
    <3>1. m.kind \in Kinds /\ m.n \in 1 .. MaxMessages
      BY <2>1, MessageFields
    <3> QED
      BY <3>1, TypesOf
  <2>3. /\ wire' = (IF InRoom THEN Append(wire, m) ELSE wire)
        /\ emitted' = (IF m.asset = Mine THEN [emitted EXCEPT ![m.kind] = m.n] ELSE emitted)
        /\ gap' = (IF InRoom /\ m.asset = Mine THEN [gap EXCEPT ![m.kind] = FALSE] ELSE gap)
        /\ UNCHANGED <<page, connects>>
    BY <1>1 DEF Emit
  <2> HIDE DEF m
  <2>4. wire' \in Seq(Message)
    BY <1>t, <2>1, <2>3, Appended
  <2>5. emitted' \in [Kinds -> 0 .. MaxMessages]
    BY <1>t, <2>2, <2>3
  <2>6. gap' \in [Kinds -> BOOLEAN]
    BY <1>t, <2>2, <2>3
  <2> QED
    BY <1>t, <2>3, <2>4, <2>5, <2>6
<1>2. CASE Load \/ LoadTrend
  <2>1. /\ connects < MaxConnects /\ connects' = connects + 1 /\ page' = "offline" /\ wire' = <<>>
        /\ UNCHANGED <<emitted, gap>>
    BY <1>2 DEF Load, LoadTrend
  <2>2. connects' \in 0 .. MaxConnects
    BY <1>t, <2>1, TypesOf
  <2> QED
    BY <1>t, <1>e, <2>1, <2>2
<1>3. CASE Connect
  <2>1. /\ connects < MaxConnects /\ connects' = connects + 1 /\ page' = "joined"
        /\ gap' = [k \in Kinds |-> shown[k].n < emitted[k]]
        /\ UNCHANGED <<wire, emitted>>
    BY <1>3 DEF Connect
  <2>2. connects' \in 0 .. MaxConnects
    BY <1>t, <2>1, TypesOf
  <2>3. gap' \in [Kinds -> BOOLEAN]
    BY <2>1
  <2> QED
    BY <1>t, <2>1, <2>2, <2>3
<1>4. CASE SendState \/ SendAlarm
  <2>1. "state" \in Kinds /\ "alarm" \in Kinds
    BY DEF Kinds
  <2>2. wire' \in Seq(Message) /\ gap' \in [Kinds -> BOOLEAN]
    BY <1>4, <2>1, SentTyped DEF SendState, SendAlarm
  <2>3. page' \in {"stateSent", "live"} /\ UNCHANGED <<connects, emitted>>
    BY <1>4 DEF SendState, SendAlarm
  <2> QED
    BY <1>t, <2>2, <2>3
<1>5. CASE HandlerFails
  BY <1>t, <1>5 DEF HandlerFails
<1>6. CASE Disconnect
  BY <1>t, <1>e, <1>6 DEF Disconnect
<1>7. CASE Receive \/ TrendReceive
  <2>1. wire # <<>> /\ wire' = Tail(wire) /\ UNCHANGED <<page, connects, emitted, gap>>
    BY <1>7 DEF Receive, TrendReceive
  <2>2. wire' \in Seq(Message)
    BY <1>t, <2>1, Shortened
  <2> QED
    BY <1>t, <2>1, <2>2
<1>8. CASE UNCHANGED link
  BY <1>t, <1>8
<1>9. CASE (\E k \in Kinds, a \in Assets : Publish(k, a)) \/ Insert \/ TimerFires \/ Tick
             \/ UNCHANGED vars
  <2>1. UNCHANGED link
    BY <1>9 DEF Publish, Insert, TimerFires, Tick, vars
  <2> QED
    BY <1>8, <2>1
<1> QED
  BY <1>1, <1>2, <1>3, <1>4, <1>5, <1>6, <1>7, <1>9, StepsOfBoth

LEMMA TileTyped ==
    ASSUME TypeOK, [TrendNext]_trendVars
    PROVE  TileTypeOK'
<1>t. TileTypeOK /\ now + Stale \in 0 .. MaxTime + Stale /\ now \in {Never} \cup 0 .. MaxTime
  BY TypeParts, TimersTyped
<1>k. "state" \in Kinds /\ "alarm" \in Kinds
  BY DEF Kinds
<1> USE DEF TileTypeOK, feed, tile, link
<1>1. CASE Load
  <2>1. shown' = [k \in Kinds |-> Newest(k, {Mine})] /\ banner' = FALSE
    BY <1>1 DEF Load
  <2>2. \A k \in Kinds :
          \/ Newest(k, {Mine}) = Nothing
          \/ /\ Newest(k, {Mine}) \in Message /\ Newest(k, {Mine}).kind = k
             /\ Newest(k, {Mine}).asset = Mine
    BY Sequences, NewestRow
  <2>3. /\ timers' = {now + Stale} \/ timers' = {}
        /\ staleTimer' = now + Stale \/ staleTimer' = Never
        /\ applied' = now \/ applied' = Never
        /\ fresh' = now \/ fresh' = fresh
    BY <1>1 DEF Load
  <2>4. timers' \subseteq 0 .. MaxTime + Stale /\ staleTimer' \in {Never} \cup 0 .. MaxTime + Stale
    BY <1>t, <2>3
  <2>5. applied' \in {Never} \cup 0 .. MaxTime /\ fresh' \in {Never} \cup 0 .. MaxTime
    BY <1>t, <2>3
  <2>6. DOMAIN shown' = Kinds /\ \A k \in Kinds : shown'[k] = Newest(k, {Mine})
    BY <2>1
  <2>7. \A k \in Kinds :
          \/ shown'[k] = Nothing
          \/ shown'[k] \in Message /\ shown'[k].kind = k /\ shown'[k].asset = Mine
    BY <2>2, <2>6
  <2> QED
    BY <2>1, <2>4, <2>5, <2>6, <2>7
<1>2. CASE Receive
  <2> DEFINE m == Head(wire)
  <2>1. m \in Message
    BY <1>2, Sequences, Shortened DEF Receive
  <2>2. CASE m.asset # Mine
    BY <1>t, <1>2, <2>2 DEF Receive
  <2>3. CASE m.asset = Mine /\ m.kind = "state"
    <3>1. /\ shown' = [shown EXCEPT !["state"] = m] /\ ResetStale
          /\ applied' = now /\ fresh' = (IF m.n > shown["state"].n THEN now ELSE fresh)
      BY <1>2, <2>3 DEF Receive
    <3>2. timers' = (timers \ {staleTimer}) \cup {now + Stale} /\ staleTimer' = now + Stale /\ banner' = FALSE
      BY <3>1 DEF ResetStale
    <3>3. timers' \subseteq 0 .. MaxTime + Stale /\ staleTimer' \in {Never} \cup 0 .. MaxTime + Stale
      BY <1>t, <3>2
    <3> HIDE DEF m
    <3>4. /\ DOMAIN shown' = Kinds
          /\ \A k \in Kinds :
               \/ shown'[k] = Nothing
               \/ shown'[k] \in Message /\ shown'[k].kind = k /\ shown'[k].asset = Mine
      BY <1>t, <1>k, <2>1, <2>3, <3>1
    <3>5. applied' \in {Never} \cup 0 .. MaxTime /\ fresh' \in {Never} \cup 0 .. MaxTime
      BY <1>t, <3>1
    <3> QED
      BY <3>2, <3>3, <3>4, <3>5
  <2>4. CASE m.asset = Mine /\ m.kind = "alarm"
    <3>1. /\ shown' = [shown EXCEPT !["alarm"] = m]
          /\ UNCHANGED <<timers, staleTimer, banner, applied, fresh>>
      BY <1>2, <2>4 DEF Receive
    <3> HIDE DEF m
    <3>2. /\ DOMAIN shown' = Kinds
          /\ \A k \in Kinds :
               \/ shown'[k] = Nothing
               \/ shown'[k] \in Message /\ shown'[k].kind = k /\ shown'[k].asset = Mine
      BY <1>t, <1>k, <2>1, <2>4, <3>1
    <3> QED
      BY <1>t, <3>1, <3>2
  <2>5. m.kind \in {"state", "alarm"}
    BY <2>1, MessageFields DEF Kinds
  <2> QED
    BY <2>2, <2>3, <2>4, <2>5
<1>3. CASE TimerFires
  <2>1. /\ timers' \subseteq timers /\ banner' = TRUE
        /\ UNCHANGED <<shown, staleTimer, applied, fresh>>
    BY <1>3 DEF TimerFires
  <2> QED
    BY <1>t, <2>1
<1>4. CASE UNCHANGED tile
  BY <1>t, <1>4
<1>5. CASE \/ \E k \in Kinds, a \in Assets : Publish(k, a)
           \/ Insert \/ Emit \/ Connect \/ SendState \/ SendAlarm \/ HandlerFails \/ Disconnect
           \/ Tick \/ LoadTrend \/ TrendReceive \/ UNCHANGED vars
  <2>1. UNCHANGED tile
    BY <1>5 DEF Publish, Insert, Emit, Connect, SendState, SendAlarm, HandlerFails, Disconnect,
                Tick, LoadTrend, TrendReceive, vars
  <2> QED
    BY <1>4, <2>1
<1> QED
  BY <1>1, <1>2, <1>3, <1>5, StepsOfBoth

\* Type correctness: the tile and the strip show the page's own asset only.
THEOREM TypeCorrect == TrendSpec => []TypeOK
<1>1. TrendInit => TypeOK
  <2> SUFFICES ASSUME TrendInit PROVE TypeOK
    OBVIOUS
  <2>1. Init
    BY DEF TrendInit
  <2>2. <<>> \in Seq(Message)
    OBVIOUS
  <2>3. FeedTypeOK
    BY <2>1, <2>2, PageAssumption DEF Init, FeedTypeOK
  <2>4. LinkTypeOK
    BY <2>1, <2>2, PageAssumption DEF Init, LinkTypeOK
  <2>5. TileTypeOK
    BY <2>1 DEF Init, TileTypeOK
  <2> QED
    BY <2>3, <2>4, <2>5, TypeParts
<1>2. TypeOK /\ [TrendNext]_trendVars => TypeOK'
  <2> SUFFICES ASSUME TypeOK, [TrendNext]_trendVars PROVE TypeOK'
    OBVIOUS
  <2>1. FeedTypeOK' /\ LinkTypeOK' /\ TileTypeOK'
    BY FeedTyped, LinkTyped, TileTyped
  <2> QED
    BY <2>1 DEF TypeOK, FeedTypeOK, LinkTypeOK, TileTypeOK
<1> QED
  BY <1>1, <1>2, PTL DEF TrendSpec

-----------------------------------------------------------------------------
(* The feed.                                                               *)

\* What is stored, on its way to a browser or shown.
Held(m) ==
    \/ In(m, toDb) \/ In(m, rows) \/ In(m, wire)
    \/ \E k \in Kinds : shown[k] # Nothing /\ shown[k] = m

LEMMA HeldAccounted == AllAccounted <=> \A m : Held(m) => Accounted(m)
  BY DEF AllAccounted, Held, In

LEMMA HeldTyped ==
    ASSUME TypeOK, NEW m, Held(m)
    PROVE  m \in Message
<1>1. CASE In(m, toDb) \/ In(m, rows) \/ In(m, wire)
  BY <1>1, Sequences, ElementOfSeq DEF In
<1>2. CASE \E k \in Kinds : shown[k] # Nothing /\ shown[k] = m
  BY <1>2, TypesOf
<1> QED
  BY <1>1, <1>2 DEF Held

\* The message that Publish publishes, and what becomes of the bridge's queue.
LEMMA Published ==
    ASSUME TypeOK, NEW k \in Kinds, NEW a \in Assets, Publish(k, a)
    PROVE  LET m == [kind |-> k, asset |-> a, n |-> published + 1] IN
           /\ m \in Message /\ m.n = published + 1 /\ m.kind = k /\ m.asset = a
           /\ published' = published + 1
           /\ toDb' = Append(toDb, m) /\ toBridge' = Append(toBridge, m)
           /\ UNCHANGED <<now, rows, tile, link>>
<1>1. published + 1 \in 1 .. MaxMessages
  BY TypesOf DEF Publish
<1> QED
  BY <1>1 DEF Publish, Message

\* The message that Emit takes from the queue, and what becomes of it.
LEMMA EmitTakes ==
    ASSUME TypeOK, Emit
    PROVE  LET m == Head(toBridge) IN
           /\ toBridge # <<>> /\ m \in Message /\ m = toBridge[1]
           /\ m.kind \in Kinds /\ m.n \in Nat
           /\ Len(toBridge) \in Nat /\ Len(toBridge) >= 1 /\ Len(toBridge') = Len(toBridge) - 1
           /\ \A i \in 1 .. Len(toBridge') :
                i + 1 \in 1 .. Len(toBridge) /\ toBridge'[i] = toBridge[i + 1]
           /\ \A x : In(x, toBridge) <=> In(x, toBridge') \/ x = m
           /\ wire' = (IF InRoom THEN Append(wire, m) ELSE wire)
           /\ \A k \in Kinds : emitted'[k] = IF For(m, k) THEN m.n ELSE emitted[k]
           /\ \A k \in Kinds : gap'[k] = IF InRoom /\ For(m, k) THEN FALSE ELSE gap[k]
           /\ UNCHANGED <<now, published, toDb, rows, page, connects, tile>>
<1> DEFINE m == Head(toBridge)
<1>1. toBridge # <<>> /\ toBridge' = Tail(toBridge) /\ toBridge \in Seq(Message)
  BY Sequences DEF Emit
<1>2. m \in Message /\ m.kind \in Kinds /\ m.n \in Nat
  <2>1. m \in Message
    BY <1>1, Shortened
  <2> HIDE DEF m
  <2>2. m.kind \in Kinds /\ m.n \in 1 .. MaxMessages
    BY <2>1, MessageFields
  <2> QED
    BY <2>1, <2>2, TypesOf
<1>3. /\ m = toBridge[1]
      /\ Len(toBridge) \in Nat /\ Len(toBridge) >= 1 /\ Len(toBridge') = Len(toBridge) - 1
      /\ \A i \in 1 .. Len(toBridge') :
           i + 1 \in 1 .. Len(toBridge) /\ toBridge'[i] = toBridge[i + 1]
  BY <1>1, Shortened
<1>4. \A x : In(x, toBridge) <=> In(x, toBridge') \/ x = m
  BY <1>1, InShortened
<1>5. /\ wire' = (IF InRoom THEN Append(wire, m) ELSE wire)
      /\ emitted' = (IF m.asset = Mine THEN [emitted EXCEPT ![m.kind] = m.n] ELSE emitted)
      /\ gap' = (IF InRoom /\ m.asset = Mine THEN [gap EXCEPT ![m.kind] = FALSE] ELSE gap)
      /\ UNCHANGED <<now, published, toDb, rows, page, connects, tile>>
  BY DEF Emit
<1>6. emitted \in [Kinds -> 0 .. MaxMessages] /\ gap \in [Kinds -> BOOLEAN]
  BY DEF TypeOK
<1> HIDE DEF m
<1>7. \A k \in Kinds : emitted'[k] = IF For(m, k) THEN m.n ELSE emitted[k]
  BY <1>2, <1>5, <1>6 DEF For
<1>8. \A k \in Kinds : gap'[k] = IF InRoom /\ For(m, k) THEN FALSE ELSE gap[k]
  BY <1>2, <1>5, <1>6 DEF For
<1> QED
  BY <1>1, <1>2, <1>3, <1>4, <1>5, <1>7, <1>8 DEF m

\* Steps that leave the feed's end alone.
LEMMA StepsOfBridge ==
    ASSUME [TrendNext]_trendVars
    PROVE  \/ \E k \in Kinds, a \in Assets : Publish(k, a)
           \/ Emit
           \/ UNCHANGED <<published, toBridge, emitted>>
<1>1. CASE \/ Insert \/ Load \/ Connect \/ SendState \/ SendAlarm \/ HandlerFails \/ Disconnect
           \/ Receive \/ TimerFires \/ Tick \/ LoadTrend \/ TrendReceive \/ UNCHANGED vars
  BY <1>1 DEF Insert, Load, Connect, SendState, SendAlarm, HandlerFails, Disconnect, Receive,
         TimerFires, Tick, LoadTrend, TrendReceive, vars, feed, link, tile
<1> QED
  BY <1>1, StepsOfBoth

LEMMA BridgeStaysInOrder ==
    ASSUME TypeOK, BridgeInOrder, [TrendNext]_trendVars
    PROVE  BridgeInOrder'
<1>t. /\ toBridge \in Seq(Message) /\ Len(toBridge) \in Nat /\ published \in Nat
      /\ \A k \in Kinds : emitted[k] \in Nat
  <2>1. toBridge \in Seq(Message) /\ Len(toBridge) \in Nat
    BY Sequences, LenProperties
  <2>2. emitted \in [Kinds -> 0 .. MaxMessages] /\ 0 .. MaxMessages \subseteq Nat
    BY TypesOf DEF TypeOK
  <2> QED
    BY <2>1, <2>2, TypesOf
<1>1. ASSUME NEW k \in Kinds, NEW a \in Assets, Publish(k, a) PROVE BridgeInOrder'
  <2> DEFINE m == [kind |-> k, asset |-> a, n |-> published + 1]
  <2>1. /\ m \in Message /\ m.n = published + 1 /\ published' = published + 1
        /\ toBridge' = Append(toBridge, m) /\ emitted' = emitted
    BY <1>1, Published DEF link
  <2> HIDE DEF m
  <2>2. /\ Len(toBridge') = Len(toBridge) + 1
        /\ \A i \in 1 .. Len(toBridge) : toBridge'[i] = toBridge[i]
        /\ toBridge'[Len(toBridge) + 1] = m
    BY <1>t, <2>1, Appended
  <2>3. \A i \in 1 .. Len(toBridge') : i \in 1 .. Len(toBridge) \/ i = Len(toBridge) + 1
    BY <1>t, <2>2
  <2>4. \A i \in 1 .. Len(toBridge) : toBridge[i].n \in Nat /\ toBridge[i].n <= published
    <3>1. \A i \in 1 .. Len(toBridge) : toBridge[i] \in Message
      BY <1>t, ElementOfSeq
    <3>2. \A i \in 1 .. Len(toBridge) : toBridge[i].n \in 1 .. MaxMessages
      BY <3>1, MessageFields
    <3> QED
      BY <3>2, TypesOf DEF BridgeInOrder
  <2>5. \A i, j \in 1 .. Len(toBridge') : i < j => toBridge'[i].n < toBridge'[j].n
    <3> SUFFICES ASSUME NEW i \in 1 .. Len(toBridge'), NEW j \in 1 .. Len(toBridge'), i < j
                 PROVE  toBridge'[i].n < toBridge'[j].n
      OBVIOUS
    <3>1. i \in 1 .. Len(toBridge)
      BY <1>t, <2>2, <2>3
    <3>2. CASE j \in 1 .. Len(toBridge)
      BY <2>2, <3>1, <3>2 DEF BridgeInOrder
    <3>3. CASE j = Len(toBridge) + 1
      BY <1>t, <2>1, <2>2, <2>4, <3>1, <3>3
    <3> QED
      BY <2>3, <3>2, <3>3
  <2>6. \A i \in 1 .. Len(toBridge') : \A l \in Kinds : emitted'[l] < toBridge'[i].n
    <3> SUFFICES ASSUME NEW i \in 1 .. Len(toBridge'), NEW l \in Kinds
                 PROVE  emitted[l] < toBridge'[i].n
      BY <2>1
    <3>1. CASE i \in 1 .. Len(toBridge)
      BY <2>2, <3>1 DEF BridgeInOrder
    <3>2. CASE i = Len(toBridge) + 1
      <4>1. emitted[l] \in Nat /\ emitted[l] <= published
        BY <1>t DEF BridgeInOrder
      <4> QED
        BY <1>t, <2>1, <2>2, <3>2, <4>1
    <3> QED
      BY <2>3, <3>1, <3>2
  <2>7. \A i \in 1 .. Len(toBridge') : toBridge'[i].n <= published'
    BY <1>t, <2>1, <2>2, <2>3, <2>4
  <2>8. \A l \in Kinds : emitted'[l] <= published'
    BY <1>t, <2>1 DEF BridgeInOrder
  <2> QED
    BY <2>5, <2>6, <2>7, <2>8 DEF BridgeInOrder
<1>2. CASE Emit
  <2> DEFINE m == Head(toBridge)
  <2>1. /\ m \in Message /\ m = toBridge[1] /\ Len(toBridge) >= 1
        /\ Len(toBridge') = Len(toBridge) - 1
        /\ \A i \in 1 .. Len(toBridge') :
             i + 1 \in 1 .. Len(toBridge) /\ toBridge'[i] = toBridge[i + 1]
        /\ \A k \in Kinds : emitted'[k] = IF For(m, k) THEN m.n ELSE emitted[k]
        /\ published' = published
    BY <1>2, EmitTakes
  <2> HIDE DEF m
  <2>2. 1 \in 1 .. Len(toBridge)
    BY <1>t, <2>1
  <2>3. \A i, j \in 1 .. Len(toBridge') : i < j => toBridge'[i].n < toBridge'[j].n
    <3> SUFFICES ASSUME NEW i \in 1 .. Len(toBridge'), NEW j \in 1 .. Len(toBridge'), i < j
                 PROVE  toBridge'[i].n < toBridge'[j].n
      OBVIOUS
    <3>1. i + 1 < j + 1
      BY <1>t, <2>1
    <3> QED
      BY <2>1, <3>1 DEF BridgeInOrder
  <2>4. \A i \in 1 .. Len(toBridge') : \A k \in Kinds : emitted'[k] < toBridge'[i].n
    <3> SUFFICES ASSUME NEW i \in 1 .. Len(toBridge'), NEW k \in Kinds
                 PROVE  emitted'[k] < toBridge'[i].n
      OBVIOUS
    <3>1. 1 < i + 1
      BY <1>t, <2>1
    <3>2. m.n < toBridge'[i].n /\ emitted[k] < toBridge'[i].n
      BY <2>1, <2>2, <3>1 DEF BridgeInOrder
    <3> QED
      BY <2>1, <3>2
  <2>5. \A i \in 1 .. Len(toBridge') : toBridge'[i].n <= published'
    BY <2>1 DEF BridgeInOrder
  <2>6. \A k \in Kinds : emitted'[k] <= published'
    BY <2>1, <2>2 DEF BridgeInOrder
  <2> QED
    BY <2>3, <2>4, <2>5, <2>6 DEF BridgeInOrder
<1>3. CASE UNCHANGED <<published, toBridge, emitted>>
  BY <1>3 DEF BridgeInOrder
<1> QED
  BY <1>1, <1>2, <1>3, StepsOfBridge

\* What was emitted or is coming stays so.
LEMMA AccountedKept ==
    ASSUME TypeOK, BridgeInOrder, [TrendNext]_trendVars, NEW m \in Message, Accounted(m)
    PROVE  Accounted(m)'
<1>t. /\ toBridge \in Seq(Message) /\ published \in Nat /\ m.n \in Nat /\ m.kind \in Kinds
      /\ emitted[m.kind] \in Nat
  <2>1. m.n \in 1 .. MaxMessages /\ m.kind \in Kinds
    BY MessageFields
  <2>2. emitted \in [Kinds -> 0 .. MaxMessages] /\ 0 .. MaxMessages \subseteq Nat
    BY TypesOf DEF TypeOK
  <2> QED
    BY <2>1, <2>2, TypesOf, Sequences
<1>1. ASSUME NEW k \in Kinds, NEW a \in Assets, Publish(k, a) PROVE Accounted(m)'
  <2> DEFINE new == [kind |-> k, asset |-> a, n |-> published + 1]
  <2>1. /\ new \in Message /\ published' = published + 1 /\ toBridge' = Append(toBridge, new)
        /\ emitted' = emitted
    BY <1>1, Published DEF link
  <2> HIDE DEF new
  <2>2. In(m, toBridge) => In(m, toBridge')
    BY <1>t, <2>1, InAppended
  <2>3. m.n <= published'
    BY <1>t, <2>1 DEF Accounted
  <2> QED
    BY <2>1, <2>2, <2>3 DEF Accounted
<1>2. CASE Emit
  <2> DEFINE h == Head(toBridge)
  <2>1. /\ h = toBridge[1] /\ h.n \in Nat /\ Len(toBridge) \in Nat /\ Len(toBridge) >= 1
        /\ \A x : In(x, toBridge) <=> In(x, toBridge') \/ x = h
        /\ \A k \in Kinds : emitted'[k] = IF For(h, k) THEN h.n ELSE emitted[k]
        /\ published' = published
    BY <1>2, EmitTakes
  <2> HIDE DEF h
  <2>2. emitted[m.kind] < h.n
    <3>1. 1 \in 1 .. Len(toBridge)
      BY <2>1
    <3> QED
      BY <1>t, <2>1, <3>1 DEF BridgeInOrder
  <2>3. CASE m.asset = Mine /\ m.n <= emitted[m.kind]
    BY <1>t, <2>1, <2>2, <2>3 DEF Accounted
  <2>4. CASE m.asset = Mine /\ In(m, toBridge)
    <3>1. CASE In(m, toBridge')
      BY <2>1, <3>1 DEF Accounted
    <3>2. CASE m = h
      <4>1. emitted'[m.kind] = m.n
        BY <1>t, <2>1, <2>4, <3>2 DEF For
      <4> QED
        BY <1>t, <2>1, <4>1 DEF Accounted
    <3> QED
      BY <2>1, <2>4, <3>1, <3>2
  <2>5. CASE m.asset # Mine
    BY <2>1, <2>5 DEF Accounted
  <2> QED
    BY <2>3, <2>4, <2>5 DEF Accounted
<1>3. CASE UNCHANGED <<published, toBridge, emitted>>
  BY <1>3 DEF Accounted
<1> QED
  BY <1>1, <1>2, <1>3, StepsOfBridge

\* What is held was held before, unless it was published or emitted just now.
LEMMA HeldSince ==
    ASSUME TypeOK, [TrendNext]_trendVars, NEW m, Held(m)'
    PROVE  \/ Held(m)
           \/ \E k \in Kinds, a \in Assets :
                Publish(k, a) /\ m = [kind |-> k, asset |-> a, n |-> published + 1]
           \/ Emit /\ m = Head(toBridge)
<1>t. toDb \in Seq(Message) /\ rows \in Seq(Message) /\ wire \in Seq(Message)
  BY Sequences
<1>e. \A x : ~In(x, <<>>)
  BY DEF In
<1> USE DEF feed, tile, link
<1>1. ASSUME NEW k \in Kinds, NEW a \in Assets, Publish(k, a)
      PROVE  Held(m) \/ m = [kind |-> k, asset |-> a, n |-> published + 1]
  <2> DEFINE new == [kind |-> k, asset |-> a, n |-> published + 1]
  <2>1. /\ new \in Message /\ toDb' = Append(toDb, new) /\ UNCHANGED <<rows, wire, shown>>
    BY <1>1, Published
  <2> HIDE DEF new
  <2>2. In(m, toDb') => In(m, toDb) \/ m = new
    BY <1>t, <2>1, InAppended
  <2>3. Held(m) \/ m = new
    BY <2>1, <2>2 DEF Held, In
  <2> QED
    BY <2>3 DEF new
<1>2. CASE Insert
  <2>1. /\ toDb # <<>> /\ toDb' = Tail(toDb) /\ rows' = Append(rows, Head(toDb))
        /\ UNCHANGED <<wire, shown>>
    BY <1>2 DEF Insert
  <2>2. In(Head(toDb), toDb) /\ (In(m, toDb') => In(m, toDb))
    BY <1>t, <2>1, InShortened
  <2>3. In(m, rows') => In(m, rows) \/ m = Head(toDb)
    BY <1>t, <2>1, Shortened, InAppended
  <2> QED
    BY <2>1, <2>2, <2>3 DEF Held, In
<1>3. CASE Emit
  <2> DEFINE h == Head(toBridge)
  <2>1. /\ h \in Message /\ wire' = (IF InRoom THEN Append(wire, h) ELSE wire)
        /\ UNCHANGED <<toDb, rows, shown>>
    BY <1>3, EmitTakes
  <2> HIDE DEF h
  <2>2. In(m, wire') => In(m, wire) \/ m = h
    BY <1>t, <2>1, InAppended
  <2>3. Held(m) \/ m = h
    BY <2>1, <2>2 DEF Held, In
  <2> QED
    BY <1>3, <2>3 DEF h
<1>4. CASE Load
  <2>1. /\ wire' = <<>> /\ shown' = [k \in Kinds |-> Newest(k, {Mine})]
        /\ UNCHANGED <<toDb, rows>>
    BY <1>4 DEF Load
  <2>2. \A k \in Kinds : shown'[k] = Nothing \/ In(shown'[k], rows)
    <3>1. \A k \in Kinds : Newest(k, {Mine}) = Nothing \/ In(Newest(k, {Mine}), rows)
      BY <1>t, NewestRow
    <3> QED
      BY <2>1, <3>1
  <2>3. ~In(m, wire')
    BY <1>e, <2>1
  <2> QED
    BY <2>1, <2>2, <2>3 DEF Held, In
<1>5. CASE SendState \/ SendAlarm
  <2>1. UNCHANGED <<toDb, rows, shown>>
    BY <1>5 DEF SendState, SendAlarm
  <2>2. "state" \in Kinds /\ "alarm" \in Kinds
    BY DEF Kinds
  <2>3. wire' = wire \/ \E row \in Message : In(row, rows) /\ wire' = Append(wire, row)
    BY <1>5, <2>2, Sent DEF SendState, SendAlarm
  <2>4. In(m, wire') => In(m, wire) \/ In(m, rows)
    <3>1. CASE wire' = wire
      BY <3>1 DEF In
    <3>2. ASSUME NEW row \in Message, In(row, rows), wire' = Append(wire, row)
          PROVE  In(m, wire') => In(m, wire) \/ In(m, rows)
      <4>1. In(m, wire') => In(m, wire) \/ m = row
        BY <1>t, <3>2, InAppended
      <4> QED
        BY <3>2, <4>1
    <3> QED
      BY <2>3, <3>1, <3>2
  <2> QED
    BY <2>1, <2>4 DEF Held, In
<1>6. CASE Disconnect \/ LoadTrend
  <2>1. wire' = <<>> /\ UNCHANGED <<toDb, rows, shown>>
    BY <1>6 DEF Disconnect, LoadTrend
  <2>2. ~In(m, wire')
    BY <1>e, <2>1
  <2> QED
    BY <2>1, <2>2 DEF Held, In
<1>7. CASE Receive \/ TrendReceive
  <2> DEFINE h == Head(wire)
  <2>1. wire # <<>> /\ wire' = Tail(wire) /\ UNCHANGED <<toDb, rows>>
    BY <1>7 DEF Receive, TrendReceive
  <2>2. In(h, wire) /\ (In(m, wire') => In(m, wire))
    BY <1>t, <2>1, InShortened
  <2>3. shown' = shown \/ shown' = [shown EXCEPT !["state"] = h] \/ shown' = [shown EXCEPT !["alarm"] = h]
    BY <1>7 DEF Receive, TrendReceive
  <2>4. DOMAIN shown = Kinds
    BY DEF TypeOK
  <2> HIDE DEF h
  <2>5. \A k \in Kinds : shown'[k] = shown[k] \/ shown'[k] = h
    BY <2>3, <2>4
  <2> QED
    BY <2>1, <2>2, <2>5 DEF Held, In
<1>8. CASE Connect \/ HandlerFails \/ TimerFires \/ Tick \/ UNCHANGED vars
  <2>1. UNCHANGED <<toDb, rows, wire, shown>>
    BY <1>8 DEF Connect, HandlerFails, TimerFires, Tick, vars
  <2> QED
    BY <2>1 DEF Held, In
<1> QED
  BY <1>1, <1>2, <1>3, <1>4, <1>5, <1>6, <1>7, <1>8, StepsOfBoth

LEMMA AccountedInductive ==
    ASSUME TypeOK, BridgeInOrder, AllAccounted, [TrendNext]_trendVars
    PROVE  AllAccounted'
<1> SUFFICES ASSUME NEW m, Held(m)' PROVE Accounted(m)'
  BY DEF AllAccounted, Held, In
<1>1. CASE Held(m)
  BY <1>1, HeldAccounted, HeldTyped, AccountedKept
<1>2. ASSUME NEW k \in Kinds, NEW a \in Assets, Publish(k, a),
             m = [kind |-> k, asset |-> a, n |-> published + 1]
      PROVE  Accounted(m)'
  <2>1. m \in Message /\ m.n = published + 1 /\ published' = published + 1 /\ toBridge' = Append(toBridge, m)
    BY <1>2, Published
  <2>2. In(m, toBridge')
    BY <2>1, Sequences, InAppended
  <2>3. m.n <= published'
    BY <2>1, TypesOf
  <2> QED
    BY <2>2, <2>3 DEF Accounted
<1>3. CASE Emit /\ m = Head(toBridge)
  <2>1. m \in Message /\ m = toBridge[1] /\ Len(toBridge) \in Nat /\ Len(toBridge) >= 1
    BY <1>3, EmitTakes
  <2>2. 1 \in 1 .. Len(toBridge)
    BY <2>1
  <2>3. Accounted(m)
    BY <2>1, <2>2 DEF BridgeInOrder, Accounted, In
  <2> QED
    BY <2>1, <2>3, AccountedKept
<1> QED
  BY <1>1, <1>2, <1>3, HeldSince

LEMMA RoomInductive ==
    ASSUME TypeOK, WireNeedsRoom, [TrendNext]_trendVars
    PROVE  WireNeedsRoom'
<1> USE DEF WireNeedsRoom, InRoom, feed, tile, link
<1>1. CASE Emit
  BY <1>1, EmitTakes
<1>2. CASE Load \/ LoadTrend \/ Disconnect
  BY <1>2 DEF Load, LoadTrend, Disconnect
<1>3. CASE Connect \/ SendState \/ SendAlarm \/ HandlerFails
  BY <1>3 DEF Connect, SendState, SendAlarm, HandlerFails
<1>4. CASE Receive \/ TrendReceive
  BY <1>4 DEF Receive, TrendReceive
<1>5. CASE (\E k \in Kinds, a \in Assets : Publish(k, a)) \/ Insert \/ TimerFires \/ Tick
             \/ UNCHANGED vars
  <2>1. UNCHANGED <<page, wire>>
    BY <1>5 DEF Publish, Insert, TimerFires, Tick, vars
  <2> QED
    BY <2>1
<1> QED
  BY <1>1, <1>2, <1>3, <1>4, <1>5, StepsOfBoth

\* The invariant of the feed.
LEMMA FeedInvariance == TrendSpec => []FeedInv
<1>1. TrendInit => FeedInv
  <2> SUFFICES ASSUME TrendInit PROVE FeedInv
    OBVIOUS
  <2>1. /\ toDb = <<>> /\ toBridge = <<>> /\ rows = <<>> /\ wire = <<>> /\ published = 0
        /\ shown = [k \in Kinds |-> Nothing] /\ emitted = [k \in Kinds |-> 0]
    BY DEF TrendInit, Init
  <2>2. BridgeInOrder
    BY <2>1 DEF BridgeInOrder
  <2>3. AllAccounted
    BY <2>1 DEF AllAccounted
  <2>4. WireNeedsRoom
    BY <2>1 DEF WireNeedsRoom
  <2> QED
    BY <2>2, <2>3, <2>4 DEF FeedInv
<1>2. TypeOK /\ FeedInv /\ [TrendNext]_trendVars => FeedInv'
  BY BridgeStaysInOrder, AccountedInductive, RoomInductive DEF FeedInv
<1> QED
  BY <1>1, <1>2, TypeCorrect, PTL DEF TrendSpec

-----------------------------------------------------------------------------
(* The operator's page.                                                    *)

\* The steps of the operator's page.
LEMMA StepsOfOperator ==
    ASSUME [TrendNext]_trendVars, view' = "operator"
    PROVE  view = "operator" /\ (Next \/ UNCHANGED vars)
  BY DEF TrendNext, trendVars

\* A message at the end of the wire is what the page will show of its kind, and
\* changes nothing for the other kind.
LEMMA AppendedShows ==
    ASSUME TypeOK, NEW m \in Message, wire' = Append(wire, m), shown' = shown,
           NEW k \in Kinds
    PROVE  /\ For(m, k) => WillShow(k, m.n)'
           /\ \A n : ~For(m, k) /\ WillShow(k, n) => WillShow(k, n)'
<1>1. /\ Len(wire) \in Nat /\ Len(wire') = Len(wire) + 1
      /\ \A i \in 1 .. Len(wire) : wire'[i] = wire[i]
      /\ wire'[Len(wire) + 1] = m
  BY Sequences, Appended
<1>2. \A i \in 1 .. Len(wire') : i \in 1 .. Len(wire) \/ i = Len(wire) + 1
  BY <1>1
<1>3. ASSUME For(m, k) PROVE WillShow(k, m.n)'
  <2>1. /\ Len(wire) + 1 \in 1 .. Len(wire')
        /\ \A j \in Len(wire) + 1 + 1 .. Len(wire') : FALSE
    BY <1>1
  <2> QED
    BY <1>1, <1>3, <2>1 DEF WillShow, For
<1>4. ASSUME NEW n, ~For(m, k), WillShow(k, n) PROVE WillShow(k, n)'
  <2>1. ASSUME NEW i \in 1 .. Len(wire), For(wire[i], k), wire[i].n = n,
               \A j \in i + 1 .. Len(wire) : ~For(wire[j], k)
        PROVE  WillShow(k, n)'
    <3>1. i \in 1 .. Len(wire') /\ wire'[i] = wire[i]
      BY <1>1
    <3>2. \A j \in i + 1 .. Len(wire') : ~For(wire'[j], k)
      <4> TAKE j \in i + 1 .. Len(wire')
      <4>1. j \in 1 .. Len(wire') /\ (j \in 1 .. Len(wire) => j \in i + 1 .. Len(wire))
        BY <1>1
      <4>2. CASE j \in 1 .. Len(wire)
        BY <1>1, <2>1, <4>1, <4>2
      <4>3. CASE j = Len(wire) + 1
        BY <1>1, <1>4, <4>3
      <4> QED
        BY <1>2, <4>1, <4>2, <4>3
    <3> QED
      BY <2>1, <3>1, <3>2 DEF WillShow, For
  <2>2. ASSUME shown[k].n = n, \A i \in 1 .. Len(wire) : ~For(wire[i], k)
        PROVE  WillShow(k, n)'
    <3>1. \A i \in 1 .. Len(wire') : ~For(wire'[i], k)
      BY <1>1, <1>2, <1>4, <2>2
    <3> QED
      BY <2>2, <3>1 DEF WillShow, For
  <2> QED
    BY <1>4, <2>1, <2>2 DEF WillShow
<1> QED
  BY <1>3, <1>4

\* What the page will show does not change when a message reaches it.
LEMMA ReceivedShows ==
    ASSUME TypeOK, Receive, NEW k \in Kinds, NEW n, WillShow(k, n)
    PROVE  WillShow(k, n)'
<1> DEFINE m == Head(wire)
<1>1. /\ wire # <<>> /\ wire' = Tail(wire) /\ wire \in Seq(Message)
      /\ \/ m.asset # Mine /\ UNCHANGED shown
         \/ m.asset = Mine /\ m.kind = "state" /\ shown' = [shown EXCEPT !["state"] = m]
         \/ m.asset = Mine /\ m.kind = "alarm" /\ shown' = [shown EXCEPT !["alarm"] = m]
  BY Sequences DEF Receive, tile
<1>2. /\ m \in Message /\ m = wire[1]
      /\ Len(wire) \in Nat /\ Len(wire) >= 1 /\ Len(wire') = Len(wire) - 1
      /\ \A i \in 1 .. Len(wire') : i + 1 \in 1 .. Len(wire) /\ wire'[i] = wire[i + 1]
  BY <1>1, Shortened
<1>3. DOMAIN shown = Kinds
  BY DEF TypeOK
<1> HIDE DEF m
<1>4. shown'[k] = IF For(m, k) THEN m ELSE shown[k]
  BY <1>1, <1>3 DEF For
<1>5. \A i \in 1 .. Len(wire) : i = 1 \/ (i - 1 \in 1 .. Len(wire') /\ wire'[i - 1] = wire[i])
  <2> TAKE i \in 1 .. Len(wire)
  <2>1. i = 1 \/ (i - 1 \in 1 .. Len(wire') /\ (i - 1) + 1 = i)
    BY <1>2
  <2> QED
    BY <1>2, <2>1
<1>6. ASSUME NEW i \in 1 .. Len(wire), For(wire[i], k), wire[i].n = n,
             \A j \in i + 1 .. Len(wire) : ~For(wire[j], k)
      PROVE  WillShow(k, n)'
  <2>1. CASE i = 1
    <3>1. shown'[k].n = n
      BY <1>2, <1>4, <1>6, <2>1
    <3>2. \A j \in 1 .. Len(wire') : ~For(wire'[j], k)
      <4> TAKE j \in 1 .. Len(wire')
      <4>1. j + 1 \in i + 1 .. Len(wire)
        BY <1>2, <2>1
      <4> QED
        BY <1>2, <1>6, <4>1
    <3> QED
      BY <3>1, <3>2 DEF WillShow, For
  <2>2. CASE i # 1
    <3>1. i - 1 \in 1 .. Len(wire') /\ wire'[i - 1] = wire[i]
      BY <1>5, <2>2
    <3>2. \A j \in (i - 1) + 1 .. Len(wire') : ~For(wire'[j], k)
      <4> TAKE j \in (i - 1) + 1 .. Len(wire')
      <4>1. j \in 1 .. Len(wire') /\ j + 1 \in i + 1 .. Len(wire)
        BY <1>2, <2>2
      <4> QED
        BY <1>2, <1>6, <4>1
    <3> QED
      BY <1>6, <3>1, <3>2 DEF WillShow, For
  <2> QED
    BY <2>1, <2>2
<1>7. ASSUME shown[k].n = n, \A i \in 1 .. Len(wire) : ~For(wire[i], k)
      PROVE  WillShow(k, n)'
  <2>1. 1 \in 1 .. Len(wire)
    BY <1>2
  <2>2. shown'[k].n = n
    BY <1>2, <1>4, <1>7, <2>1
  <2>3. \A i \in 1 .. Len(wire') : ~For(wire'[i], k)
    BY <1>2, <1>7
  <2> QED
    BY <2>2, <2>3 DEF WillShow, For
<1> QED
  BY <1>6, <1>7 DEF WillShow

\* A message that is accounted for and not older than what was emitted of its kind is
\* the last that was emitted, or is still coming.
LEMMA NotOlder ==
    ASSUME TypeOK, NEW m \in Message, Accounted(m), NEW k \in Kinds, For(m, k),
           ~(m.n < emitted[k])
    PROVE  m.n = emitted[k] \/ StillComing(k)
<1>1. m.n \in Nat /\ emitted[k] \in Nat
  <2>1. m.n \in 1 .. MaxMessages
    BY MessageFields
  <2>2. emitted[k] \in 0 .. MaxMessages
    BY DEF TypeOK
  <2> QED
    BY <2>1, <2>2, TypesOf
<1>2. m.n <= emitted[k] \/ In(m, toBridge)
  BY DEF Accounted, For
<1> QED
  BY <1>1, <1>2 DEF In, StillComing

\* The connect handler leaves the page behind only if it says so.
LEMMA SentCurrent ==
    ASSUME TypeOK, FeedInv, NEW s \in Kinds, SendNewest(s),
           UNCHANGED <<toBridge, emitted, shown>>, NEW k \in Kinds,
           gap[k] \/ WillShow(k, emitted[k]) \/ StillComing(k)
    PROVE  (gap[k] \/ WillShow(k, emitted[k]) \/ StillComing(k))'
<1>t. gap \in [Kinds -> BOOLEAN]
  BY DEF TypeOK
<1>c. StillComing(k)' <=> StillComing(k)
  BY DEF StillComing, For
<1>1. CASE wire' = wire /\ gap' = gap
  BY <1>1, <1>c DEF WillShow, For
<1>2. ASSUME NEW row \in Message, row.kind = s, In(row, rows), wire' = Append(wire, row),
             \/ row.asset = Mine /\ gap' = [gap EXCEPT ![s] = row.n < emitted[s]]
             \/ row.asset # Mine /\ gap' = gap
      PROVE  (gap[k] \/ WillShow(k, emitted[k]) \/ StillComing(k))'
  <2>1. CASE For(row, k)
    <3>1. gap'[k] = (row.n < emitted[k])
      BY <1>t, <1>2, <2>1 DEF For
    <3>2. Accounted(row)
      BY <1>2, HeldAccounted DEF FeedInv, Held
    <3>3. CASE row.n = emitted[k]
      BY <1>2, <2>1, <3>3, AppendedShows
    <3> QED
      BY <1>c, <2>1, <3>1, <3>2, <3>3, NotOlder
  <2>2. CASE ~For(row, k)
    <3>1. gap'[k] = gap[k]
      BY <1>t, <1>2, <2>2 DEF For
    <3>2. WillShow(k, emitted[k]) => WillShow(k, emitted[k])'
      BY <1>2, <2>2, AppendedShows
    <3> QED
      BY <1>c, <3>1, <3>2
  <2> QED
    BY <2>1, <2>2
<1> QED
  BY <1>1, <1>2, Sent

LEMMA CurrentInductive ==
    ASSUME TypeOK, FeedInv, WillBeCurrent, [TrendNext]_trendVars
    PROVE  WillBeCurrent'
<1> SUFFICES ASSUME view' = "operator", InRoom', NEW k \in Kinds
             PROVE  (gap[k] \/ WillShow(k, emitted[k]) \/ StillComing(k))'
  BY DEF WillBeCurrent
<1>s. view = "operator" /\ (Next \/ UNCHANGED vars)
  BY StepsOfOperator
<1>h. InRoom => gap[k] \/ WillShow(k, emitted[k]) \/ StillComing(k)
  BY <1>s DEF WillBeCurrent
<1>t. toBridge \in Seq(Message)
  BY Sequences
<1> USE DEF feed, tile, link
<1>1. ASSUME NEW l \in Kinds, NEW a \in Assets, Publish(l, a)
      PROVE  (gap[k] \/ WillShow(k, emitted[k]) \/ StillComing(k))'
  <2> DEFINE m == [kind |-> l, asset |-> a, n |-> published + 1]
  <2>1. /\ m \in Message /\ toBridge' = Append(toBridge, m)
        /\ UNCHANGED <<page, wire, emitted, gap, shown>>
    BY <1>1, Published
  <2> HIDE DEF m
  <2>2. /\ Len(toBridge') = Len(toBridge) + 1 /\ Len(toBridge) \in Nat
        /\ \A i \in 1 .. Len(toBridge) : toBridge'[i] = toBridge[i]
    BY <1>t, <2>1, Appended
  <2>3. \A i \in 1 .. Len(toBridge) : i \in 1 .. Len(toBridge')
    BY <2>2
  <2>4. StillComing(k) => StillComing(k)'
    BY <2>2, <2>3 DEF StillComing, For
  <2>5. InRoom
    BY <2>1 DEF InRoom
  <2> QED
    BY <1>h, <2>1, <2>4, <2>5 DEF WillShow, For
<1>2. CASE Emit
  <2> DEFINE m == Head(toBridge)
  <2>1. /\ m \in Message /\ m = toBridge[1] /\ Len(toBridge) \in Nat
        /\ \A x : In(x, toBridge) <=> In(x, toBridge') \/ x = m
        /\ wire' = (IF InRoom THEN Append(wire, m) ELSE wire)
        /\ emitted'[k] = IF For(m, k) THEN m.n ELSE emitted[k]
        /\ gap'[k] = IF InRoom /\ For(m, k) THEN FALSE ELSE gap[k]
        /\ UNCHANGED <<page, shown>>
    BY <1>2, EmitTakes
  <2> HIDE DEF m
  <2>2. InRoom /\ wire' = Append(wire, m)
    BY <2>1 DEF InRoom
  <2>3. CASE For(m, k)
    BY <2>1, <2>2, <2>3, AppendedShows
  <2>4. CASE ~For(m, k)
    <3>1. WillShow(k, emitted[k]) => WillShow(k, emitted[k])'
      BY <2>1, <2>2, <2>4, AppendedShows
    <3>2. StillComing(k) => StillComing(k)'
      <4>1. StillComing(k) => \E x : In(x, toBridge) /\ For(x, k)
        BY DEF StillComing, In
      <4>2. (\E x : In(x, toBridge') /\ For(x, k)) => StillComing(k)'
        BY DEF StillComing, In, For
      <4> QED
        BY <2>1, <2>4, <4>1, <4>2
    <3> QED
      BY <1>h, <2>1, <2>2, <2>4, <3>1, <3>2
  <2> QED
    BY <2>3, <2>4
<1>3. CASE Connect
  <2>1. /\ page = "offline" /\ gap'[k] = (shown[k].n < emitted[k])
        /\ UNCHANGED <<wire, shown, emitted, toBridge>>
    BY <1>3 DEF Connect
  <2>2. wire = <<>>
    BY <2>1 DEF FeedInv, WireNeedsRoom, InRoom
  <2>3. CASE shown[k].n = emitted[k]
    <3>1. \A i \in 1 .. Len(wire') : FALSE
      BY <2>1, <2>2
    <3> QED
      BY <2>1, <2>3, <3>1 DEF WillShow, For
  <2>4. CASE ~(shown[k].n < emitted[k]) /\ shown[k].n # emitted[k]
    <3>1. emitted[k] \in 0 .. MaxMessages
      BY DEF TypeOK
    <3>2. shown[k] # Nothing
      BY <2>4, <3>1, MessageFields, TypesOf
    <3>3. shown[k] \in Message /\ For(shown[k], k) /\ Accounted(shown[k])
      BY <3>2, TypesOf DEF FeedInv, AllAccounted
    <3>4. StillComing(k)
      BY <2>4, <3>3, NotOlder
    <3> QED
      BY <2>1, <3>4 DEF StillComing, For
  <2> QED
    BY <2>1, <2>3, <2>4
<1>4. CASE SendState \/ SendAlarm
  <2>1. "state" \in Kinds /\ "alarm" \in Kinds
    BY DEF Kinds
  <2>2. InRoom /\ UNCHANGED <<toBridge, emitted, shown>> /\ \E l \in Kinds : SendNewest(l)
    BY <1>4, <2>1 DEF SendState, SendAlarm, InRoom
  <2> QED
    BY <1>h, <2>2, SentCurrent
<1>5. CASE Receive
  <2>1. UNCHANGED <<page, emitted, gap, toBridge>>
    BY <1>5 DEF Receive
  <2>2. InRoom
    BY <2>1 DEF InRoom
  <2>3. WillShow(k, emitted[k]) => WillShow(k, emitted[k])'
    BY <1>5, <2>1, ReceivedShows
  <2> QED
    BY <1>h, <2>1, <2>2, <2>3 DEF StillComing, For
<1>6. CASE Load \/ Disconnect
  BY <1>6 DEF Load, Disconnect, InRoom
<1>7. CASE Insert \/ HandlerFails \/ TimerFires \/ Tick \/ UNCHANGED vars
  <2>1. UNCHANGED <<wire, shown, emitted, gap, toBridge>> /\ InRoom
    BY <1>7 DEF Insert, HandlerFails, TimerFires, Tick, vars, InRoom
  <2> QED
    BY <1>h, <2>1 DEF WillShow, StillComing, For
<1> QED
  BY <1>s, <1>1, <1>2, <1>3, <1>4, <1>5, <1>6, <1>7 DEF Next

LEMMA CurrentInvariance == TrendSpec => []WillBeCurrent
<1>1. TrendInit => WillBeCurrent
  BY DEF TrendInit, Init, WillBeCurrent, InRoom
<1>2. TypeOK /\ FeedInv /\ WillBeCurrent /\ [TrendNext]_trendVars => WillBeCurrent'
  BY CurrentInductive
<1> QED
  BY <1>1, <1>2, TypeCorrect, FeedInvariance, PTL DEF TrendSpec

\* Only its connection leaves the operator's page behind: whatever the handler and the
\* bridge do while it connects, the tile and the strip end at the last message of their
\* asset that was emitted, or gap says that the connection lost it
\* (app/static/app.js, sockets.py:20-40).
THEOREM PageIsCurrent == TrendSpec => []OperatorCurrent
<1>1. WillBeCurrent => OperatorCurrent
  <2> SUFFICES ASSUME WillBeCurrent, view = "operator", page = "live", toBridge = <<>>, wire = <<>>,
                      NEW k \in Kinds
               PROVE  gap[k] \/ shown[k].n = emitted[k]
    BY DEF OperatorCurrent, CurrentUnlessGap, Idle
  <2>1. gap[k] \/ WillShow(k, emitted[k]) \/ StillComing(k)
    BY DEF WillBeCurrent, InRoom
  <2>2. ~StillComing(k) /\ (WillShow(k, emitted[k]) => shown[k].n = emitted[k])
    BY DEF StillComing, WillShow
  <2> QED
    BY <2>1, <2>2
<1> QED
  BY <1>1, CurrentInvariance, PTL

-----------------------------------------------------------------------------
(* The banner.                                                             *)

LEMMA OneTimerInductive ==
    ASSUME TypeOK, OneTimer, [TrendNext]_trendVars
    PROVE  OneTimer'
<1>t. now \in Nat /\ Stale \in Nat /\ Stale >= 1
  BY TypesOf
<1>a. applied # Never => applied \in Nat
  <2>1. applied \in {Never} \cup 0 .. MaxTime
    BY DEF TypeOK
  <2> QED
    BY <2>1, TypesOf
<1>n. now # Never
  BY <1>t DEF Never
<1> USE DEF feed, tile, link
<1>1. CASE Load
  <2>1. CASE timers' = {now + Stale} /\ staleTimer' = now + Stale /\ applied' = now
    <3>1. now' = now /\ ~banner'
      BY <1>1 DEF Load
    <3>2. applied' <= now' /\ applied' # Never /\ staleTimer' = applied' + Stale
          /\ timers' = {applied' + Stale}
      BY <1>t, <1>n, <2>1, <3>1
    <3> QED
      BY <3>1, <3>2 DEF OneTimer
  <2>2. CASE /\ timers' = {} /\ staleTimer' = Never /\ applied' = Never
    BY <1>1, <2>2 DEF Load, OneTimer
  <2> QED
    BY <1>1, <2>1, <2>2 DEF Load
<1>2. CASE Receive
  <2>1. CASE UNCHANGED <<timers, staleTimer, banner, applied>>
    <3>1. now' = now
      BY <1>2 DEF Receive
    <3> QED
      BY <2>1, <3>1 DEF OneTimer
  <2>2. CASE ResetStale /\ applied' = now
    <3>1. now' = now /\ banner' = FALSE /\ staleTimer' = now + Stale
      BY <1>2, <2>2 DEF Receive, ResetStale
    <3>2. timers' = {now + Stale}
      <4>1. timers \ {staleTimer} = {}
        BY DEF OneTimer
      <4> QED
        BY <2>2, <4>1 DEF ResetStale
    <3> QED
      BY <1>t, <1>n, <2>2, <3>1, <3>2 DEF OneTimer
  <2> QED
    BY <1>2, <2>1, <2>2 DEF Receive
<1>3. CASE TimerFires
  <2>1. PICK d \in timers : d <= now /\ timers' = timers \ {d} /\ banner' = TRUE
                             /\ UNCHANGED <<now, staleTimer, applied>>
    BY <1>3 DEF TimerFires
  <2>2. applied # Never /\ timers = {applied + Stale} /\ d = applied + Stale
    BY <2>1 DEF OneTimer
  <2>3. timers' = {}
    BY <2>1, <2>2
  <2> QED
    BY <2>1, <2>2, <2>3 DEF OneTimer
<1>4. CASE Tick
  <2>1. now' = now + 1 /\ UNCHANGED <<timers, staleTimer, banner, applied>>
    BY <1>4 DEF Tick
  <2>2. \A d \in Nat : d <= now => d <= now'
    BY <1>t, <2>1
  <2>3. applied # Never => applied + Stale \in Nat
    BY <1>t, <1>a
  <2> QED
    BY <1>a, <2>1, <2>2, <2>3 DEF OneTimer
<1>5. CASE \/ \E k \in Kinds, a \in Assets : Publish(k, a)
           \/ Insert \/ Emit \/ Connect \/ SendState \/ SendAlarm \/ HandlerFails \/ Disconnect
           \/ LoadTrend \/ TrendReceive \/ UNCHANGED vars
  <2>1. UNCHANGED <<now, timers, staleTimer, banner, applied>>
    BY <1>5 DEF Publish, Insert, Emit, Connect, SendState, SendAlarm, HandlerFails, Disconnect,
                LoadTrend, TrendReceive, vars
  <2> QED
    BY <2>1 DEF OneTimer
<1> QED
  BY <1>1, <1>2, <1>3, <1>4, <1>5, StepsOfBoth

\* The banner is up exactly when the tile has had no message for the stale time: no
\* order of messages, loads and timers leaves a second timer behind, or none
\* (hmi.html:63-68, 76-84).
THEOREM BannerIsRight == TrendSpec => []BannerTellsSilence
<1>1. TrendInit => OneTimer
  BY DEF TrendInit, Init, OneTimer
<1>2. TypeOK /\ OneTimer /\ [TrendNext]_trendVars => OneTimer'
  BY OneTimerInductive
<1>3. TypeOK /\ OneTimer => BannerTellsSilence
  <2> SUFFICES ASSUME TypeOK, OneTimer PROVE BannerTellsSilence
    OBVIOUS
  <2>1. now \in Nat /\ Stale \in Nat /\ Stale >= 1
    BY TypesOf
  <2>2. applied # Never => applied \in Nat
    <3>1. applied \in {Never} \cup 0 .. MaxTime
      BY DEF TypeOK
    <3> QED
      BY <3>1, TypesOf
  <2>3. applied # Never => (applied + Stale <= now <=> now - applied >= Stale)
    BY <2>1, <2>2
  <2>4. applied # Never => (applied + Stale > now <=> ~(applied + Stale <= now))
    BY <2>1, <2>2
  <2> QED
    BY <2>3, <2>4 DEF OneTimer, BannerTellsSilence
<1> QED
  BY <1>1, <1>2, <1>3, TypeCorrect, PTL DEF TrendSpec

-----------------------------------------------------------------------------
(* The history's answer.                                                   *)

\* A set of numbers can be written in ascending order: each goes where its rank says.
LEMMA AscendingOrder ==
    ASSUME NEW n \in Nat, NEW S, S \subseteq 1 .. n
    PROVE  /\ Cardinality(S) \in Nat
           /\ \E s \in [1 .. Cardinality(S) -> S] :
                \A i, j \in 1 .. Cardinality(S) : i < j => s[i] < s[j]
<1> DEFINE c == Cardinality(S)
           UpTo(x) == {y \in S : y <= x}
           rank == [x \in S |-> Cardinality(UpTo(x))]
<1>1. IsFiniteSet(S) /\ c \in Nat
  <2>1. IsFiniteSet(1 .. n)
    BY FS_Interval
  <2>2. IsFiniteSet(S)
    BY <2>1, FS_Subset
  <2> QED
    BY <2>2, FS_CardinalityType
<1>2. \A x \in S : x \in Nat
  OBVIOUS
<1>3. \A x \in S : IsFiniteSet(UpTo(x)) /\ Cardinality(UpTo(x)) \in 1 .. c
  <2> TAKE x \in S
  <2>1. UpTo(x) \in SUBSET S /\ x \in UpTo(x)
    BY <1>2
  <2>2. IsFiniteSet(UpTo(x)) /\ Cardinality(UpTo(x)) <= c
    BY <1>1, <2>1, FS_Subset
  <2>3. Cardinality(UpTo(x)) \in Nat /\ Cardinality(UpTo(x)) # 0
    BY <2>1, <2>2, FS_CardinalityType, FS_EmptySet
  <2> HIDE DEF UpTo, c
  <2> QED
    BY <1>1, <2>2, <2>3
<1>4. \A x, y \in S : x < y => rank[x] < rank[y]
  <2> SUFFICES ASSUME NEW x \in S, NEW y \in S, x < y
               PROVE  Cardinality(UpTo(x)) < Cardinality(UpTo(y))
    OBVIOUS
  <2>1. x \in Nat /\ y \in Nat
    BY <1>2
  <2>2. UpTo(x) \in SUBSET UpTo(y)
    <3>1. \A z \in UpTo(x) : z \in S /\ z \in Nat /\ z <= x
      BY <1>2
    <3>2. \A z \in UpTo(x) : z <= y
      BY <2>1, <3>1
    <3> QED
      BY <3>1, <3>2
  <2>3. y \in UpTo(y) /\ y \notin UpTo(x)
    BY <2>1
  <2>4. Cardinality(UpTo(x)) <= Cardinality(UpTo(y)) /\ Cardinality(UpTo(x)) # Cardinality(UpTo(y))
    BY <1>3, <2>2, <2>3, FS_Subset
  <2>5. Cardinality(UpTo(x)) \in 1 .. c /\ Cardinality(UpTo(y)) \in 1 .. c
    BY <1>3
  <2> HIDE DEF UpTo, c
  <2> QED
    BY <1>1, <2>4, <2>5
<1>5. rank \in [S -> 1 .. c]
  BY <1>3
<1> HIDE DEF rank, UpTo
<1>6. \A x, y \in S : rank[x] = rank[y] => x = y
  <2> SUFFICES ASSUME NEW x \in S, NEW y \in S, rank[x] = rank[y]
               PROVE  x = y
    OBVIOUS
  <2>1. ~(x < y) /\ ~(y < x)
    BY <1>1, <1>4, <1>5
  <2> QED
    BY <1>2, <2>1
<1>7. rank \in Injection(S, 1 .. c)
  BY <1>5, <1>6 DEF Injection, IsInjective
<1>8. \A i \in 1 .. c : \E x \in S : rank[x] = i
  <2>1. IsFiniteSet(1 .. c) /\ Cardinality(1 .. c) = c
    BY <1>1, FS_Interval
  <2>2. rank \in Surjection(S, 1 .. c)
    BY <1>7, <2>1, FS_Injection
  <2> QED
    BY <2>2 DEF Surjection
<1> DEFINE s == [i \in 1 .. c |-> CHOOSE x \in S : rank[x] = i]
<1>9. \A i \in 1 .. c : s[i] \in S /\ rank[s[i]] = i
  BY <1>8
<1>10. s \in [1 .. c -> S]
  BY <1>9
<1> HIDE DEF s
<1>11. \A i, j \in 1 .. c : i < j => s[i] < s[j]
  <2> SUFFICES ASSUME NEW i \in 1 .. c, NEW j \in 1 .. c, i < j
               PROVE  s[i] < s[j]
    OBVIOUS
  <2>1. s[i] \in S /\ s[j] \in S /\ rank[s[i]] = i /\ rank[s[j]] = j
    BY <1>9
  <2>2. ~(s[j] < s[i]) /\ s[i] # s[j]
    <3>1. ~(j < i) /\ i # j
      BY <1>1
    <3> QED
      BY <1>4, <2>1, <3>1
  <2>3. s[i] \in Nat /\ s[j] \in Nat
    BY <1>2, <2>1
  <2> QED
    BY <2>2, <2>3
<1> QED
  BY <1>1, <1>10, <1>11

\* The points of a sequence are the numbers of the messages it has of that kind.
LEMMA PointsAre == \A s : \A n : n \in Points(s) <=> \E m : In(m, s) /\ IsPoint(m) /\ m.n = n
  BY DEF Points, In

LEMMA PointsTyped ==
    ASSUME NEW s \in Seq(Message)
    PROVE  Points(s) \subseteq 1 .. MaxMessages
<1> SUFFICES ASSUME NEW i \in 1 .. Len(s) PROVE s[i].n \in 1 .. MaxMessages
  BY DEF Points
<1>1. s[i] \in Message
  BY ElementOfSeq
<1> QED
  BY <1>1, MessageFields

LEMMA PointsOfOne == \A m : \A n : n \in Points(<<m>>) <=> IsPoint(m) /\ m.n = n
<1> SUFFICES ASSUME NEW m PROVE \A n : n \in Points(<<m>>) <=> IsPoint(m) /\ m.n = n
  OBVIOUS
<1>1. Len(<<m>>) = 1 /\ <<m>>[1] = m /\ \A i \in 1 .. 1 : i = 1
  OBVIOUS
<1> DEFINE s == <<m>>
<1>2. Len(s) = 1 /\ s[1] = m
  BY <1>1
<1> HIDE DEF s
<1>3. \A n : n \in Points(s) <=> IsPoint(m) /\ m.n = n
  BY <1>1, <1>2 DEF Points
<1> QED
  BY <1>3 DEF s

LEMMA PointsAppended ==
    ASSUME NEW s \in Seq(Message), NEW m \in Message
    PROVE  Points(Append(s, m)) = Points(s) \cup Points(<<m>>)
<1>1. \A x : In(x, Append(s, m)) <=> In(x, s) \/ x = m
  BY InAppended
<1>2. \A n : n \in Points(<<m>>) <=> IsPoint(m) /\ m.n = n
  BY PointsOfOne
<1>3. \A n : n \in Points(Append(s, m)) <=> \E x : In(x, Append(s, m)) /\ IsPoint(x) /\ x.n = n
  BY PointsAre
<1>4. \A n : n \in Points(s) <=> \E x : In(x, s) /\ IsPoint(x) /\ x.n = n
  BY PointsAre
<1>5. \A n : n \in Points(Append(s, m)) <=> n \in Points(s) \/ n \in Points(<<m>>)
  BY <1>1, <1>2, <1>3, <1>4, Zenon
<1> QED
  BY <1>5

LEMMA PointsShortened ==
    ASSUME NEW s \in Seq(Message), s # <<>>
    PROVE  Points(s) = Points(<<Head(s)>>) \cup Points(Tail(s))
<1>1. \A x : In(x, s) <=> In(x, Tail(s)) \/ x = Head(s)
  BY InShortened
<1>2. \A n : n \in Points(<<Head(s)>>) <=> IsPoint(Head(s)) /\ Head(s).n = n
  BY PointsOfOne
<1>3. \A n : n \in Points(Tail(s)) <=> \E x : In(x, Tail(s)) /\ IsPoint(x) /\ x.n = n
  BY PointsAre
<1>4. \A n : n \in Points(s) <=> \E x : In(x, s) /\ IsPoint(x) /\ x.n = n
  BY PointsAre
<1>5. \A n : n \in Points(s) <=> n \in Points(Tail(s)) \/ n \in Points(<<Head(s)>>)
  BY <1>1, <1>2, <1>3, <1>4, Zenon
<1> QED
  BY <1>5

\* /history answers with an ascending sequence of the points it finds.
LEMMA HistoryAscends ==
    ASSUME TypeOK
    PROVE  /\ HistoryRows \in Seq(Nat)
           /\ \A i, j \in 1 .. Len(HistoryRows) : i < j => HistoryRows[i] < HistoryRows[j]
<1> DEFINE c == Cardinality(InRange)
<1>1. InRange \subseteq 1 .. MaxMessages
  BY Sequences, PointsTyped DEF InRange
<1>2. /\ c \in Nat
      /\ \E s \in [1 .. c -> InRange] : \A i, j \in 1 .. c : i < j => s[i] < s[j]
  BY <1>1, TypesOf, AscendingOrder
<1>3. /\ HistoryRows \in [1 .. c -> InRange]
      /\ \A i, j \in 1 .. c : i < j => HistoryRows[i] < HistoryRows[j]
  BY <1>2 DEF HistoryRows
<1> HIDE DEF c
<1>4. InRange \subseteq Nat
  BY <1>1
<1>5. HistoryRows \in [1 .. c -> Nat]
  BY <1>3, <1>4
<1>6. HistoryRows \in Seq(Nat) /\ Len(HistoryRows) = c
  BY <1>2, <1>5, IsASeq, LenProperties
<1> QED
  BY <1>3, <1>6

-----------------------------------------------------------------------------
(* The chart: what a push does to it, and its types.                       *)

\* A push puts a point at the right end, and moves the chart left by what it cuts off.
LEMMA Pushed ==
    ASSUME TrendTypeOK, NEW n \in Nat, Push(n)
    PROVE  /\ Len(chart) \in Nat /\ seeded \in 0 .. Len(chart)
           /\ chart' \in Seq(Nat)
           /\ \E cut \in 0 .. Len(chart) :
                /\ Len(chart') = Len(chart) + 1 - cut
                /\ \A i \in 1 .. Len(chart') :
                     \/ i + cut \in 1 .. Len(chart) /\ chart'[i] = chart[i + cut]
                     \/ i = Len(chart') /\ i + cut = Len(chart) + 1 /\ chart'[i] = n
                /\ seeded' = (IF seeded > cut THEN seeded - cut ELSE 0)
                /\ \A i \in 1 .. cut : chart[i] \in trimmed'
                /\ trimmed \subseteq trimmed'
<1> DEFINE longer == Append(chart, n)
           cut == Excess(longer)
<1>1. /\ chart \in Seq(Nat) /\ Len(chart) \in Nat /\ seeded \in 0 .. Len(chart)
      /\ longer \in Seq(Nat) /\ Len(longer) = Len(chart) + 1
      /\ \A i \in 1 .. Len(chart) : longer[i] = chart[i]
      /\ longer[Len(chart) + 1] = n
  <2>1. chart \in Seq(Nat) /\ seeded \in 0 .. Len(chart)
    BY DEF TrendTypeOK
  <2> QED
    BY <2>1, Appended
<1>2. /\ chart' = SubSeq(longer, cut + 1, Len(longer))
      /\ seeded' = (IF seeded > cut THEN seeded - cut ELSE 0)
      /\ trimmed' = trimmed \cup {longer[i] : i \in 1 .. cut}
  BY DEF Push
<1>3. cut = IF Len(longer) > ChartMax THEN Len(longer) - ChartMax ELSE 0
  BY DEF Excess
<1> HIDE DEF longer, cut
<1>4. cut \in 0 .. Len(chart)
  BY <1>1, <1>3, TrendAssumption
<1>5. /\ chart' \in Seq(Nat) /\ Len(chart') = Len(chart) + 1 - cut
      /\ \A i \in 1 .. Len(chart') : chart'[i] = longer[cut + 1 + i - 1]
  <2>1. \A i \in cut + 1 .. Len(longer) : longer[i] \in Nat
    <3> TAKE i \in cut + 1 .. Len(longer)
    <3>1. i \in 1 .. Len(longer)
      BY <1>1, <1>4
    <3> QED
      BY <1>1, <3>1, ElementOfSeq
  <2>2. cut + 1 \in Int /\ Len(longer) \in Int /\ cut + 1 <= Len(longer)
    BY <1>1, <1>4
  <2>3. /\ chart' \in Seq(Nat)
        /\ Len(chart') = (IF cut + 1 <= Len(longer) THEN Len(longer) - (cut + 1) + 1 ELSE 0)
        /\ \A i \in 1 .. Len(longer) - (cut + 1) + 1 : chart'[i] = longer[cut + 1 + i - 1]
    BY <1>2, <2>1, <2>2, SubSeqProperties
  <2>4. /\ Len(chart') = Len(chart) + 1 - cut
        /\ Len(longer) - (cut + 1) + 1 = Len(chart) + 1 - cut
    BY <1>1, <1>4, <2>2, <2>3
  <2> QED
    BY <2>3, <2>4
<1>6. \A i \in 1 .. Len(chart') :
         \/ i + cut \in 1 .. Len(chart) /\ chart'[i] = chart[i + cut]
         \/ i = Len(chart') /\ i + cut = Len(chart) + 1 /\ chart'[i] = n
  <2> TAKE i \in 1 .. Len(chart')
  <2>1. cut + 1 + i - 1 = i + cut
    BY <1>1, <1>4
  <2>2. i + cut \in 1 .. Len(chart) \/ (i + cut = Len(chart) + 1 /\ i = Len(chart'))
    BY <1>1, <1>4, <1>5
  <2> QED
    BY <1>1, <1>5, <2>1, <2>2
<1>7. \A i \in 1 .. cut : chart[i] \in trimmed'
  <2> TAKE i \in 1 .. cut
  <2>1. i \in 1 .. Len(chart)
    BY <1>1, <1>4
  <2> QED
    BY <1>1, <1>2, <2>1
<1> QED
  BY <1>1, <1>2, <1>4, <1>5, <1>6, <1>7

\* A push loses nothing: what is shifted out is remembered as such.
LEMMA PushKeeps ==
    ASSUME TrendTypeOK, NEW n \in Nat, Push(n)
    PROVE  OnChart \cup trimmed \cup {n} \subseteq OnChart' \cup trimmed'
<1> PICK cut \in 0 .. Len(chart) :
      /\ Len(chart') = Len(chart) + 1 - cut
      /\ \A i \in 1 .. Len(chart') :
           \/ i + cut \in 1 .. Len(chart) /\ chart'[i] = chart[i + cut]
           \/ i = Len(chart') /\ i + cut = Len(chart) + 1 /\ chart'[i] = n
      /\ \A i \in 1 .. cut : chart[i] \in trimmed'
      /\ trimmed \subseteq trimmed'
  BY Pushed
<1>1. Len(chart) \in Nat
  BY Pushed
<1>2. n \in OnChart'
  <2>1. Len(chart') \in 1 .. Len(chart') /\ ~(Len(chart') + cut \in 1 .. Len(chart))
    BY <1>1
  <2> QED
    BY <2>1 DEF OnChart
<1>3. \A i \in 1 .. Len(chart) : chart[i] \in OnChart' \cup trimmed'
  <2> TAKE i \in 1 .. Len(chart)
  <2>1. CASE i <= cut
    <3>1. i \in 1 .. cut
      BY <1>1, <2>1
    <3> QED
      BY <3>1
  <2>2. CASE ~(i <= cut)
    <3>1. i - cut \in 1 .. Len(chart') /\ (i - cut) + cut = i /\ i # Len(chart) + 1
      BY <1>1, <2>2
    <3>2. chart'[i - cut] = chart[i]
      BY <3>1
    <3> QED
      BY <3>1, <3>2 DEF OnChart
  <2> QED
    BY <2>1, <2>2
<1> QED
  BY <1>2, <1>3 DEF OnChart

\* The steps that concern the chart.
LEMMA StepsOfChart ==
    ASSUME [TrendNext]_trendVars
    PROVE  /\ view' = view
           /\ \/ /\ view = "trend"
                 /\ LoadTrend \/ FetchReads \/ FetchArrives \/ TrendReceive
              \/ view = "trend" /\ fetch \in {"asked", "answered"} /\ fetch' = "failed"
                 /\ UNCHANGED <<fetched, chart, seeded>>
              \/ UNCHANGED <<fetch, fetched, chart, seeded>>
<1> USE DEF trend, seeding, drawing
<1>1. CASE TrendStep /\ view = "trend"
  BY <1>1 DEF TrendStep, TrendNext, trendVars, FetchFails, TrendEmit, TrendSendState, TrendDisconnect
<1> QED
  BY <1>1 DEF TrendNext, trendVars

\* A message that reaches the trend page: drawn, missed, or not a point.
LEMMA TrendReceives ==
    ASSUME TypeOK, TrendReceive
    PROVE  LET m == Head(wire) IN
           /\ wire # <<>> /\ wire' = Tail(wire) /\ m \in Message /\ m = wire[1] /\ m.n \in Nat
           /\ \/ IsPoint(m) /\ Listening /\ Push(m.n) /\ UNCHANGED deaf
              \/ IsPoint(m) /\ ~Listening /\ deaf' = deaf \cup {m.n} /\ UNCHANGED drawing
              \/ ~IsPoint(m) /\ UNCHANGED <<deaf, drawing>>
           /\ UNCHANGED <<feed, seeding, again>>
<1>1. wire # <<>> /\ wire \in Seq(Message)
  BY Sequences DEF TrendReceive
<1>2. Head(wire) \in Message /\ Head(wire) = wire[1]
  BY <1>1, Shortened
<1>3. Head(wire).n \in Nat
  <2>1. Head(wire).n \in 1 .. MaxMessages
    BY <1>2, MessageFields
  <2> QED
    BY <2>1
<1> QED
  BY <1>1, <1>2, <1>3 DEF TrendReceive

LEMMA TrendTyped ==
    ASSUME TypeOK, TrendTypeOK, [TrendNext]_trendVars
    PROVE  TrendTypeOK'
<1>v. view' \in {"operator", "trend"}
  BY StepsOfChart DEF TrendTypeOK
<1>e. <<>> \in Seq(Nat) /\ Len(<<>>) = 0
  OBVIOUS
<1>t. fetched \in Seq(Nat) /\ chart \in Seq(Nat) /\ Len(fetched) \in Nat
  BY LenProperties DEF TrendTypeOK
<1> USE DEF seeding, drawing
<1>1. CASE LoadTrend
  <2>1. fetched' = <<>> /\ chart' = <<>> /\ seeded' = 0 /\ fetch' = "asked"
    BY <1>1 DEF LoadTrend
  <2> QED
    BY <1>v, <1>e, <2>1 DEF TrendTypeOK
<1>2. CASE FetchReads
  <2>1. fetched' \in {HistoryRows, <<>>} /\ fetch' = "answered" /\ UNCHANGED <<chart, seeded>>
    BY <1>2 DEF FetchReads
  <2>2. fetched' \in Seq(Nat)
    BY <1>e, <2>1, HistoryAscends
  <2> QED
    BY <1>v, <2>1, <2>2 DEF TrendTypeOK
<1>3. CASE FetchArrives
  <2>1. chart' = fetched /\ seeded' = Len(fetched) /\ fetched' = fetched /\ fetch' = "done"
    BY <1>3 DEF FetchArrives
  <2>2. seeded' \in 0 .. Len(chart')
    BY <1>t, <2>1
  <2> QED
    BY <1>v, <1>t, <2>1, <2>2 DEF TrendTypeOK
<1>4. CASE TrendReceive
  <2>1. UNCHANGED <<fetch, fetched>> /\ (UNCHANGED <<chart, seeded>> \/ \E n \in Nat : Push(n))
    BY <1>4, TrendReceives
  <2>2. CASE UNCHANGED <<chart, seeded>>
    BY <1>v, <2>1, <2>2 DEF TrendTypeOK
  <2>3. ASSUME NEW n \in Nat, Push(n) PROVE TrendTypeOK'
    <3>1. chart' \in Seq(Nat) /\ Len(chart) \in Nat /\ seeded \in 0 .. Len(chart)
      BY <2>3, Pushed
    <3>2. PICK cut \in 0 .. Len(chart) : /\ Len(chart') = Len(chart) + 1 - cut
                                        /\ seeded' = (IF seeded > cut THEN seeded - cut ELSE 0)
      BY <2>3, Pushed
    <3>3. seeded' \in 0 .. Len(chart')
      BY <3>1, <3>2
    <3> QED
      BY <1>v, <2>1, <3>1, <3>3 DEF TrendTypeOK
  <2> QED
    BY <2>1, <2>2, <2>3
<1>5. CASE fetch' = "failed" /\ UNCHANGED <<fetched, chart, seeded>>
  BY <1>v, <1>5 DEF TrendTypeOK
<1>6. CASE UNCHANGED <<fetch, fetched, chart, seeded>>
  BY <1>v, <1>6 DEF TrendTypeOK
<1> QED
  BY <1>1, <1>2, <1>3, <1>4, <1>5, <1>6, StepsOfChart

LEMMA NoChartYetInductive ==
    ASSUME TypeOK, NoChartYet, [TrendNext]_trendVars
    PROVE  NoChartYet'
<1> USE DEF seeding, drawing, NoChartYet
<1>1. CASE view = "trend" /\ (LoadTrend \/ FetchReads \/ FetchArrives)
  BY <1>1, StepsOfChart DEF LoadTrend, FetchReads, FetchArrives
<1>2. CASE view = "trend" /\ TrendReceive
  <2>1. UNCHANGED fetch /\ (UNCHANGED <<chart, seeded>> \/ fetch = "done")
    BY <1>2, TrendReceives DEF Listening
  <2> QED
    BY <1>2, <2>1, StepsOfChart
<1>3. CASE view = "trend" /\ fetch' = "failed" /\ fetch \in {"asked", "answered"}
             /\ UNCHANGED <<fetched, chart, seeded>>
  BY <1>3, StepsOfChart
<1>4. CASE UNCHANGED <<fetch, fetched, chart, seeded>>
  BY <1>4, StepsOfChart
<1> QED
  BY <1>1, <1>2, <1>3, <1>4, StepsOfChart

ChartInv == TrendTypeOK /\ NoChartYet

LEMMA ChartInvariance == TrendSpec => []ChartInv
<1>1. TrendInit => ChartInv
  <2> SUFFICES ASSUME TrendInit PROVE ChartInv
    OBVIOUS
  <2>1. /\ view \in {"operator", "trend"} /\ fetch = "none" /\ fetched = <<>>
        /\ chart = <<>> /\ seeded = 0
    BY DEF TrendInit
  <2>2. <<>> \in Seq(Nat) /\ Len(<<>>) = 0
    OBVIOUS
  <2> QED
    BY <2>1, <2>2 DEF ChartInv, TrendTypeOK, NoChartYet
<1>2. TypeOK /\ ChartInv /\ [TrendNext]_trendVars => ChartInv'
  BY TrendTyped, NoChartYetInductive DEF ChartInv
<1> QED
  BY <1>1, <1>2, TypeCorrect, PTL DEF TrendSpec

-----------------------------------------------------------------------------
(* The chart has no hole that is not explained.                            *)

\* What was emitted grows by what Emit emits only.
LEMMA EmittedGrows ==
    ASSUME TypeOK, [TrendNext]_trendVars
    PROVE  Emitted' \subseteq Emitted \cup (IF Emit THEN Points(<<Head(toBridge)>>) ELSE {})
<1>t. toDb \in Seq(Message) /\ toBridge \in Seq(Message) /\ rows \in Seq(Message)
  BY Sequences
<1> USE DEF feed, tile, link
<1>1. ASSUME NEW k \in Kinds, NEW a \in Assets, Publish(k, a) PROVE Emitted' \subseteq Emitted
  <2> DEFINE m == [kind |-> k, asset |-> a, n |-> published + 1]
  <2>1. m \in Message /\ toDb' = Append(toDb, m) /\ toBridge' = Append(toBridge, m) /\ rows' = rows
    BY <1>1, Published
  <2> HIDE DEF m
  <2>2. /\ Points(toDb') = Points(toDb) \cup Points(<<m>>)
        /\ Points(toBridge') = Points(toBridge) \cup Points(<<m>>)
    BY <1>t, <2>1, PointsAppended
  <2>3. Emitted' = (Points(rows) \cup Points(toDb')) \ Points(toBridge')
    BY <2>1 DEF Emitted
  <2> QED
    BY <2>2, <2>3 DEF Emitted
<1>2. CASE Insert
  <2>1. toDb # <<>> /\ toDb' = Tail(toDb) /\ rows' = Append(rows, Head(toDb)) /\ toBridge' = toBridge
    BY <1>2 DEF Insert
  <2>2. Head(toDb) \in Message
    BY <1>t, <2>1, Shortened
  <2>3. /\ Points(toDb) = Points(<<Head(toDb)>>) \cup Points(toDb')
        /\ Points(rows') = Points(rows) \cup Points(<<Head(toDb)>>)
    BY <1>t, <2>1, <2>2, PointsAppended, PointsShortened
  <2>4. Emitted' = (Points(rows') \cup Points(toDb')) \ Points(toBridge)
    BY <2>1 DEF Emitted
  <2> QED
    BY <2>3, <2>4 DEF Emitted
<1>3. CASE Emit
  <2>1. toBridge # <<>> /\ toBridge' = Tail(toBridge) /\ UNCHANGED <<toDb, rows>>
    BY <1>3 DEF Emit
  <2>2. Points(toBridge) = Points(<<Head(toBridge)>>) \cup Points(toBridge')
    BY <1>t, <2>1, PointsShortened
  <2>3. Emitted' = (Points(rows) \cup Points(toDb)) \ Points(toBridge')
    BY <2>1 DEF Emitted
  <2> QED
    BY <1>3, <2>2, <2>3 DEF Emitted
<1>4. CASE \/ Load \/ Connect \/ SendState \/ SendAlarm \/ HandlerFails \/ Disconnect
           \/ Receive \/ TimerFires \/ Tick \/ LoadTrend \/ TrendReceive \/ UNCHANGED vars
  <2>1. UNCHANGED <<toDb, toBridge, rows>>
    BY <1>4 DEF Load, Connect, SendState, SendAlarm, HandlerFails, Disconnect, Receive,
           TimerFires, Tick, LoadTrend, TrendReceive, vars
  <2> QED
    BY <2>1 DEF Emitted
<1> QED
  BY <1>1, <1>2, <1>3, <1>4, StepsOfBoth

\* The connect handler takes nothing off the wire.
LEMMA SentPoints ==
    ASSUME TypeOK, NEW k \in Kinds, SendNewest(k)
    PROVE  Points(wire) \subseteq Points(wire')
<1>1. wire \in Seq(Message)
  BY Sequences
<1>2. CASE wire' = wire
  BY <1>2
<1>3. ASSUME NEW row \in Message, wire' = Append(wire, row)
      PROVE  Points(wire) \subseteq Points(wire')
  BY <1>1, <1>3, PointsAppended
<1> QED
  BY <1>2, <1>3, Sent

LEMMA NoHoleInductive ==
    ASSUME TypeOK, ChartInv, NoHoleYet, [TrendNext]_trendVars
    PROVE  NoHoleYet'
<1> SUFFICES ASSUME view' = "trend"
             PROVE  Emitted' \subseteq (OnChart \cup trimmed \cup deaf \cup Points(wire))'
  BY DEF NoHoleYet
<1>v. view = "trend"
  BY StepsOfChart
<1>h. Emitted \subseteq OnChart \cup trimmed \cup deaf \cup Points(wire)
  BY <1>v DEF NoHoleYet
<1>e. ~Emit => Emitted' \subseteq Emitted
  BY EmittedGrows
<1>w. wire \in Seq(Message)
  BY Sequences
<1>p. Points(<<>>) = {}
  BY DEF Points
<1> USE DEF feed, seeding, drawing
<1>1. CASE LoadTrend
  <2>1. deaf' = Emitted /\ UNCHANGED <<toDb, toBridge, rows>>
    BY <1>1 DEF LoadTrend
  <2> QED
    BY <2>1 DEF Emitted
<1>2. CASE FetchReads \/ FetchFails
  <2>1. UNCHANGED <<vars, chart, trimmed, deaf>>
    BY <1>2 DEF FetchReads, FetchFails
  <2>2. UNCHANGED <<toDb, toBridge, rows, wire, chart, trimmed, deaf>>
    BY <2>1 DEF vars, link
  <2> QED
    BY <1>h, <2>2 DEF Emitted, OnChart
<1>3. CASE FetchArrives
  <2>1. /\ fetch = "answered" /\ chart' = fetched /\ UNCHANGED <<vars, trimmed>>
        /\ deaf' = deaf \ {fetched[i] : i \in 1 .. Len(fetched)}
    BY <1>3 DEF FetchArrives
  <2>2. UNCHANGED <<toDb, toBridge, rows, wire>>
    BY <2>1 DEF vars, link
  <2>3. OnChart = {}
    BY <2>1 DEF ChartInv, NoChartYet, OnChart
  <2>4. OnChart' = {fetched[i] : i \in 1 .. Len(fetched)}
    BY <2>1 DEF OnChart
  <2>5. Emitted' = Emitted /\ Points(wire)' = Points(wire)
    BY <2>2 DEF Emitted
  <2> QED
    BY <1>h, <2>1, <2>3, <2>4, <2>5
<1>4. CASE TrendReceive
  <2> DEFINE m == Head(wire)
  <2>1. /\ wire # <<>> /\ wire' = Tail(wire) /\ m \in Message /\ m.n \in Nat
        /\ \/ IsPoint(m) /\ Listening /\ Push(m.n) /\ UNCHANGED deaf
           \/ IsPoint(m) /\ ~Listening /\ deaf' = deaf \cup {m.n} /\ UNCHANGED drawing
           \/ ~IsPoint(m) /\ UNCHANGED <<deaf, drawing>>
        /\ UNCHANGED feed
    BY <1>4, TrendReceives
  <2>2. Points(wire) = Points(<<m>>) \cup Points(wire')
    BY <1>w, <2>1, PointsShortened
  <2>3. Emitted' = Emitted
    BY <2>1 DEF Emitted
  <2> HIDE DEF m
  <2>4. Points(<<m>>) \subseteq {m.n} /\ (~IsPoint(m) => Points(<<m>>) = {})
    BY PointsOfOne
  <2>5. CASE Push(m.n) /\ UNCHANGED deaf
    <3>1. OnChart \cup trimmed \cup {m.n} \subseteq OnChart' \cup trimmed'
      BY <2>1, <2>5, PushKeeps DEF ChartInv
    <3> QED
      BY <1>h, <2>2, <2>3, <2>4, <2>5, <3>1
  <2>6. CASE /\ UNCHANGED drawing
             /\ deaf' = deaf \cup {m.n} \/ (~IsPoint(m) /\ deaf' = deaf)
    <3>1. OnChart' = OnChart /\ trimmed' = trimmed
      BY <2>6 DEF OnChart
    <3> QED
      BY <1>h, <2>1, <2>2, <2>3, <2>4, <2>6, <3>1
  <2> QED
    BY <2>1, <2>5, <2>6
<1>5. CASE TrendEmit
  <2> DEFINE m == Head(toBridge)
  <2>1. /\ Emit /\ deaf' = (IF InRoom THEN deaf ELSE deaf \cup Points(<<m>>))
        /\ UNCHANGED drawing
    BY <1>5 DEF TrendEmit
  <2>2. m \in Message /\ wire' = (IF InRoom THEN Append(wire, m) ELSE wire)
    BY <2>1, EmitTakes
  <2>3. Emitted' \subseteq Emitted \cup Points(<<m>>)
    BY <2>1, EmittedGrows
  <2> HIDE DEF m
  <2>4. Points(<<m>>) \cup Points(wire) \cup deaf \subseteq Points(wire') \cup deaf'
    BY <1>w, <2>1, <2>2, PointsAppended
  <2>5. OnChart' = OnChart /\ trimmed' = trimmed
    BY <2>1 DEF OnChart
  <2> QED
    BY <1>h, <2>3, <2>4, <2>5
<1>6. CASE TrendSendState \/ (SendAlarm /\ UNCHANGED trend)
  <2>1. "state" \in Kinds /\ "alarm" \in Kinds
    BY DEF Kinds
  <2>2. Points(wire) \subseteq Points(wire')
    BY <1>6, <2>1, SentPoints DEF TrendSendState, SendState, SendAlarm
  <2>3. UNCHANGED <<toDb, toBridge, rows, chart, trimmed, deaf>>
    BY <1>6 DEF TrendSendState, SendState, SendAlarm, trend
  <2> QED
    BY <1>h, <2>2, <2>3 DEF Emitted, OnChart
<1>7. CASE TrendDisconnect
  <2>1. /\ deaf' = deaf \cup Points(wire)
        /\ UNCHANGED <<toDb, toBridge, rows, chart, trimmed>>
    BY <1>7 DEF TrendDisconnect, Disconnect
  <2> QED
    BY <1>h, <2>1 DEF Emitted, OnChart
<1>8. CASE /\ (\E a \in Assets : Publish("state", a)) \/ Insert \/ Connect \/ HandlerFails
           /\ UNCHANGED trend
  <2>1. UNCHANGED <<wire, chart, trimmed, deaf>>
    BY <1>8 DEF Publish, Insert, Connect, HandlerFails, trend, link
  <2>2. ~Emit
    <3>1. CASE (\E a \in Assets : Publish("state", a))
      <4>1. published' = published + 1 /\ published \in Nat
        BY <3>1, TypesOf DEF Publish
      <4>2. Emit => published' = published
        BY EmitTakes
      <4> QED
        BY <4>1, <4>2
    <3>2. CASE Insert \/ Connect \/ HandlerFails
      <4>1. toBridge' = toBridge
        BY <3>2 DEF Insert, Connect, HandlerFails
      <4>2. Emit => Len(toBridge) \in Nat /\ Len(toBridge') = Len(toBridge) - 1
        BY EmitTakes
      <4> QED
        BY <4>1, <4>2
    <3> QED
      BY <1>8, <3>1, <3>2
  <2> QED
    BY <1>e, <1>h, <2>1, <2>2 DEF OnChart
<1>9. CASE UNCHANGED trendVars
  <2>1. UNCHANGED <<toDb, toBridge, rows, wire, chart, trimmed, deaf>>
    BY <1>9 DEF trendVars, vars, link, trend
  <2> QED
    BY <1>h, <2>1 DEF Emitted, OnChart
<1>10. TrendStep \/ UNCHANGED trendVars
  BY <1>v DEF TrendNext
<1> QED
  BY <1>1, <1>2, <1>3, <1>4, <1>5, <1>6, <1>7, <1>8, <1>9, <1>10 DEF TrendStep

\* The chart misses nothing that the page could have heard: whatever the order of the
\* history's answer, the bridge, the handler and a broken connection, a state that was
\* emitted is on the chart, was shifted out, or passed by while the page did not listen
\* (trend.html:34, 58-73).
THEOREM HolesAreExplained == TrendSpec => []ChartHolesExplained
<1>1. TrendInit => NoHoleYet
  <2> SUFFICES ASSUME TrendInit PROVE Emitted = {}
    BY DEF NoHoleYet
  <2>1. toDb = <<>> /\ rows = <<>>
    BY DEF TrendInit, Init
  <2> QED
    BY <2>1 DEF Emitted, Points
<1>2. TypeOK /\ ChartInv /\ NoHoleYet /\ [TrendNext]_trendVars => NoHoleYet'
  BY NoHoleInductive
<1>3. NoHoleYet => ChartHolesExplained
  <2>1. wire = <<>> => Points(wire) = {}
    BY DEF Points
  <2> QED
    BY <2>1 DEF NoHoleYet, ChartHolesExplained, Idle
<1> QED
  BY <1>1, <1>2, <1>3, TypeCorrect, ChartInvariance, PTL DEF TrendSpec

-----------------------------------------------------------------------------
(* The chart is in order, or its disorder is explained.                    *)

LEMMA SeedInductive ==
    ASSUME TypeOK, ChartInv, SeedAscends, [TrendNext]_trendVars
    PROVE  SeedAscends'
<1>t. TrendTypeOK /\ Len(chart) \in Nat /\ seeded \in 0 .. Len(chart)
  BY LenProperties DEF ChartInv, TrendTypeOK
<1> USE DEF seeding, drawing
<1>1. CASE LoadTrend
  <2>1. fetched' = <<>> /\ seeded' = 0
    BY <1>1 DEF LoadTrend
  <2> QED
    BY <2>1 DEF SeedAscends
<1>2. CASE FetchReads
  <2>1. /\ fetch = "asked" /\ fetched' \in {HistoryRows, <<>>} /\ UNCHANGED <<chart, seeded>>
    BY <1>2 DEF FetchReads
  <2>2. seeded = 0
    BY <2>1 DEF ChartInv, NoChartYet
  <2>3. \A i, j \in 1 .. Len(fetched') : i < j => fetched'[i] < fetched'[j]
    BY <2>1, HistoryAscends
  <2> QED
    BY <2>1, <2>2, <2>3 DEF SeedAscends
<1>3. CASE FetchArrives
  <2>1. chart' = fetched /\ seeded' = Len(fetched) /\ fetched' = fetched
    BY <1>3 DEF FetchArrives
  <2> QED
    BY <2>1 DEF SeedAscends
<1>4. CASE TrendReceive
  <2>1. UNCHANGED fetched /\ (UNCHANGED <<chart, seeded>> \/ \E n \in Nat : Push(n))
    BY <1>4, TrendReceives
  <2>2. ASSUME NEW n \in Nat, Push(n) PROVE SeedAscends'
    <3> PICK cut \in 0 .. Len(chart) :
          /\ Len(chart') = Len(chart) + 1 - cut
          /\ \A i \in 1 .. Len(chart') :
               \/ i + cut \in 1 .. Len(chart) /\ chart'[i] = chart[i + cut]
               \/ i = Len(chart') /\ i + cut = Len(chart) + 1 /\ chart'[i] = n
          /\ seeded' = (IF seeded > cut THEN seeded - cut ELSE 0)
      BY <1>t, <2>2, Pushed
    <3>1. \A i \in 1 .. seeded' : i + cut \in 1 .. seeded /\ chart'[i] = chart[i + cut]
      <4> TAKE i \in 1 .. seeded'
      <4>1. i + cut \in 1 .. seeded /\ i \in 1 .. Len(chart') /\ i + cut # Len(chart) + 1
        BY <1>t
      <4> QED
        BY <4>1
    <3>2. \A i, j \in 1 .. seeded' : i < j => i + cut < j + cut
      BY <1>t
    <3> QED
      BY <2>1, <3>1, <3>2 DEF SeedAscends
  <2> QED
    BY <2>1, <2>2 DEF SeedAscends
<1>5. CASE UNCHANGED <<fetched, chart, seeded>>
  BY <1>5 DEF SeedAscends
<1> QED
  BY <1>1, <1>2, <1>3, <1>4, <1>5, StepsOfChart

\* Steps that leave the chart and the bridge alone, and add to the wire at most what
\* the handler sends, or take everything off it.
LEMMA OrderKept ==
    ASSUME WireAscends, ChartAscends, UNCHANGED <<chart, seeded, toBridge, published>>,
           again \subseteq again',
           \A i \in 1 .. Len(wire') :
              \/ i \in 1 .. Len(wire) /\ wire'[i] = wire[i]
              \/ ~IsPoint(wire'[i])
              \/ wire'[i].n \in again'
    PROVE  WireAscends' /\ ChartAscends'
<1>1. \A i \in 1 .. Len(wire') : Live(wire[i])' =>
          i \in 1 .. Len(wire) /\ wire'[i] = wire[i] /\ Live(wire[i])
  BY DEF Live, IsPoint
<1>2. WireAscends'
  BY <1>1 DEF WireAscends
<1>3. \A i \in 1 .. Len(chart') : Drawn(i)' => i \in 1 .. Len(chart) /\ Drawn(i)
  BY DEF Drawn
<1>4. ChartAscends'
  BY <1>1, <1>3 DEF ChartAscends
<1> QED
  BY <1>2, <1>4

LEMMA OrderPublished ==
    ASSUME TypeOK, FeedInv, WireAscends, ChartAscends,
           NEW k \in Kinds, NEW a \in Assets, Publish(k, a),
           TrendTypeOK, UNCHANGED <<chart, seeded, again>>
    PROVE  WireAscends' /\ ChartAscends'
<1> DEFINE m == [kind |-> k, asset |-> a, n |-> published + 1]
<1>1. /\ m \in Message /\ m.n = published + 1 /\ published' = published + 1
      /\ toBridge' = Append(toBridge, m) /\ wire' = wire
  BY Published DEF link
<1> HIDE DEF m
<1>2. /\ Len(toBridge') = Len(toBridge) + 1 /\ Len(toBridge) \in Nat
      /\ \A i \in 1 .. Len(toBridge) : toBridge'[i] = toBridge[i]
      /\ toBridge'[Len(toBridge) + 1] = m
  BY <1>1, Sequences, Appended
<1>3. \A i \in 1 .. Len(toBridge') : i \in 1 .. Len(toBridge) \/ i = Len(toBridge) + 1
  BY <1>2
<1>4. \A i \in 1 .. Len(wire) : wire[i].n < published + 1
  <2> TAKE i \in 1 .. Len(wire)
  <2>1. Accounted(wire[i]) /\ wire[i] \in Message
    BY Sequences, ElementOfSeq DEF FeedInv, AllAccounted
  <2>2. wire[i].n \in 1 .. MaxMessages /\ wire[i].n <= published
    BY <2>1, MessageFields DEF Accounted
  <2> QED
    BY <2>2, TypesOf
<1>5. \A i \in 1 .. Len(chart) : Drawn(i) => chart[i] < published + 1 /\ chart[i] <= published + 1
  <2> SUFFICES ASSUME NEW i \in 1 .. Len(chart), Drawn(i)
               PROVE  chart[i] < published + 1 /\ chart[i] <= published + 1
    OBVIOUS
  <2>1. chart[i] \in Nat
    BY ElementOfSeq DEF TrendTypeOK
  <2>2. chart[i] <= published
    BY DEF ChartAscends
  <2> QED
    BY <2>1, <2>2, TypesOf
<1>6. WireAscends'
  BY <1>1, <1>2, <1>3, <1>4 DEF WireAscends, Live
<1>7. \A i \in 1 .. Len(chart) : Drawn(i)' <=> Drawn(i)
  BY DEF Drawn
<1>8. ChartAscends'
  BY <1>1, <1>2, <1>3, <1>5, <1>7 DEF ChartAscends, Live
<1> QED
  BY <1>6, <1>8

LEMMA OrderEmitted ==
    ASSUME TypeOK, FeedInv, WireAscends, ChartAscends, Emit, UNCHANGED <<chart, seeded, again>>
    PROVE  WireAscends' /\ ChartAscends'
<1> DEFINE m == Head(toBridge)
<1>1. /\ m \in Message /\ m = toBridge[1] /\ Len(toBridge) \in Nat /\ Len(toBridge) >= 1
      /\ Len(toBridge') = Len(toBridge) - 1
      /\ \A i \in 1 .. Len(toBridge') :
           i + 1 \in 1 .. Len(toBridge) /\ toBridge'[i] = toBridge[i + 1]
      /\ wire' = (IF InRoom THEN Append(wire, m) ELSE wire)
      /\ published' = published
  BY EmitTakes
<1> HIDE DEF m
<1>2. 1 \in 1 .. Len(toBridge) /\ \A i \in 1 .. Len(toBridge') : 1 < i + 1
  BY <1>1
<1>3. \A i \in 1 .. Len(toBridge') : m.n < toBridge'[i].n
  BY <1>1, <1>2 DEF FeedInv, BridgeInOrder
<1>w. Len(wire) \in Nat
  BY Sequences, LenProperties
<1>4. /\ \A i \in 1 .. Len(wire') :
           \/ i \in 1 .. Len(wire) /\ wire'[i] = wire[i]
           \/ i = Len(wire) + 1 /\ Len(wire') = i /\ wire'[i] = m
  <2>1. CASE wire' = wire
    BY <2>1
  <2>2. CASE wire' = Append(wire, m)
    <3>1. /\ Len(wire') = Len(wire) + 1
          /\ \A i \in 1 .. Len(wire) : wire'[i] = wire[i]
          /\ wire'[Len(wire) + 1] = m
      BY <1>1, <2>2, Sequences, Appended
    <3> QED
      BY <1>w, <3>1
  <2> QED
    BY <1>1, <2>1, <2>2
<1>5. \A i \in 1 .. Len(wire) : Live(wire[i]) =>
          /\ wire[i].n < m.n
          /\ \A j \in 1 .. Len(toBridge') : wire[i].n < toBridge'[j].n
  BY <1>1, <1>2 DEF WireAscends
<1>6. \A i, j \in 1 .. Len(wire') : i < j => i \in 1 .. Len(wire) /\ wire'[i] = wire[i]
  <2> SUFFICES ASSUME NEW i \in 1 .. Len(wire'), NEW j \in 1 .. Len(wire'), i < j,
                      i = Len(wire) + 1, Len(wire') = i
               PROVE  FALSE
    BY <1>4
  <2> QED
    BY <1>w
<1>7. WireAscends'
  <2>1. \A i, j \in 1 .. Len(wire') : i < j /\ Live(wire'[i]) /\ Live(wire'[j])
                                       => wire'[i].n < wire'[j].n
    BY <1>4, <1>5, <1>6 DEF WireAscends
  <2>2. \A i \in 1 .. Len(wire'), j \in 1 .. Len(toBridge') :
           Live(wire'[i]) => wire'[i].n < toBridge'[j].n
    BY <1>3, <1>4, <1>5
  <2> QED
    BY <2>1, <2>2 DEF WireAscends, Live
<1>8. \A i \in 1 .. Len(chart) : Drawn(i)' <=> Drawn(i)
  BY DEF Drawn
<1>9. \A i \in 1 .. Len(chart) : Drawn(i) =>
        /\ \A j \in 1 .. Len(wire') : Live(wire'[j]) => chart[i] < wire'[j].n
        /\ \A j \in 1 .. Len(toBridge') : chart[i] < toBridge'[j].n
  BY <1>1, <1>2, <1>4 DEF ChartAscends
<1>10. ChartAscends'
  BY <1>1, <1>8, <1>9 DEF ChartAscends, Live
<1> QED
  BY <1>7, <1>10

LEMMA OrderReceived ==
    ASSUME TypeOK, FeedInv, ChartInv, WireAscends, ChartAscends, TrendReceive
    PROVE  WireAscends' /\ ChartAscends'
<1> DEFINE m == Head(wire)
<1>1. /\ wire # <<>> /\ wire' = Tail(wire) /\ m \in Message /\ m = wire[1] /\ m.n \in Nat
      /\ \/ IsPoint(m) /\ Push(m.n)
         \/ UNCHANGED drawing
      /\ UNCHANGED <<feed, again>>
  BY TrendReceives
<1> HIDE DEF m
<1>2. /\ Len(wire) \in Nat /\ Len(wire) >= 1
      /\ \A i \in 1 .. Len(wire') : i + 1 \in 1 .. Len(wire) /\ wire'[i] = wire[i + 1]
      /\ Len(wire') = Len(wire) - 1
  BY <1>1, Sequences, Shortened
<1>3. /\ 1 \in 1 .. Len(wire)
      /\ \A i \in 1 .. Len(wire') : 1 < i + 1
      /\ \A i, j \in 1 .. Len(wire') : i < j => i + 1 < j + 1
  BY <1>2
<1>4. toBridge' = toBridge /\ published' = published /\ again' = again
  BY <1>1 DEF feed
<1>5. WireAscends'
  BY <1>2, <1>3, <1>4 DEF WireAscends, Live
<1>6. CASE UNCHANGED drawing
  <2>1. chart' = chart /\ seeded' = seeded
    BY <1>6 DEF drawing
  <2> QED
    BY <1>2, <1>4, <1>5, <2>1 DEF ChartAscends, Drawn, Live
<1>7. CASE IsPoint(m) /\ Push(m.n)
  <2>t. TrendTypeOK /\ Len(chart) \in Nat /\ seeded \in 0 .. Len(chart)
    BY LenProperties DEF ChartInv, TrendTypeOK
  <2> PICK cut \in 0 .. Len(chart) :
        /\ Len(chart') = Len(chart) + 1 - cut
        /\ \A i \in 1 .. Len(chart') :
             \/ i + cut \in 1 .. Len(chart) /\ chart'[i] = chart[i + cut]
             \/ i = Len(chart') /\ i + cut = Len(chart) + 1 /\ chart'[i] = m.n
        /\ seeded' = (IF seeded > cut THEN seeded - cut ELSE 0)
    BY <1>1, <1>7, <2>t, Pushed
  <2>1. \A i \in 1 .. Len(chart') : i > seeded' => i + cut > seeded
    BY <2>t
  <2>2. \A i \in 1 .. Len(chart') : i + cut \in 1 .. Len(chart) /\ Drawn(i)' => Drawn(i + cut)
    <3> SUFFICES ASSUME NEW i \in 1 .. Len(chart'), i + cut \in 1 .. Len(chart), Drawn(i)'
                 PROVE  Drawn(i + cut)
      OBVIOUS
    <3>1. i > seeded' /\ chart'[i] \notin again'
      BY DEF Drawn
    <3>2. i + cut # Len(chart) + 1
      BY <2>t
    <3> QED
      BY <1>4, <2>1, <3>1, <3>2 DEF Drawn
  <2>3. m.n \notin again => Live(wire[1])
    BY <1>1, <1>7 DEF Live
  \* What holds of the new point holds of the head of the wire.
  <2>4. m.n \notin again =>
          /\ \A j \in 1 .. Len(wire') : Live(wire'[j]) => m.n < wire'[j].n
          /\ \A j \in 1 .. Len(toBridge) : m.n < toBridge[j].n
    BY <1>1, <1>2, <1>3, <2>3 DEF WireAscends
  <2>5. m.n <= published
    BY <1>1, <1>3 DEF FeedInv, AllAccounted, Accounted
  <2>6. \A i, j \in 1 .. Len(chart') :
          i < j /\ Drawn(i)' /\ chart'[j] \notin again => chart'[i] < chart'[j]
    <3> SUFFICES ASSUME NEW i \in 1 .. Len(chart'), NEW j \in 1 .. Len(chart'), i < j,
                        Drawn(i)', chart'[j] \notin again
                 PROVE  chart'[i] < chart'[j]
      OBVIOUS
    <3>1. i + cut \in 1 .. Len(chart) /\ chart'[i] = chart[i + cut] /\ i + cut < j + cut
      BY <2>t
    <3>2. Drawn(i + cut)
      BY <2>2, <3>1
    <3>3. CASE j + cut \in 1 .. Len(chart) /\ chart'[j] = chart[j + cut]
      BY <3>1, <3>2, <3>3 DEF ChartAscends
    <3>4. CASE chart'[j] = m.n
      <4>1. chart[i + cut] < wire[1].n
        BY <1>3, <2>3, <3>1, <3>2, <3>4 DEF ChartAscends
      <4> QED
        BY <1>1, <3>1, <3>4, <4>1
    <3> QED
      BY <3>3, <3>4
  <2>7. \A i \in 1 .. Len(chart') : Drawn(i)' =>
          /\ \A j \in 1 .. Len(wire') : Live(wire'[j]) => chart'[i] < wire'[j].n
          /\ \A j \in 1 .. Len(toBridge) : chart'[i] < toBridge[j].n
          /\ chart'[i] <= published
    <3> SUFFICES ASSUME NEW i \in 1 .. Len(chart'), Drawn(i)'
                 PROVE  /\ \A j \in 1 .. Len(wire') : Live(wire'[j]) => chart'[i] < wire'[j].n
                        /\ \A j \in 1 .. Len(toBridge) : chart'[i] < toBridge[j].n
                        /\ chart'[i] <= published
      OBVIOUS
    <3>1. CASE i + cut \in 1 .. Len(chart) /\ chart'[i] = chart[i + cut]
      <4>1. Drawn(i + cut)
        BY <2>2, <3>1
      <4> QED
        BY <1>2, <3>1, <4>1 DEF ChartAscends
    <3>2. CASE chart'[i] = m.n
      <4>1. m.n \notin again
        BY <1>4, <3>2 DEF Drawn
      <4> QED
        BY <2>4, <2>5, <3>2, <4>1
    <3> QED
      BY <3>1, <3>2
  <2>8. ChartAscends'
    BY <1>4, <2>6, <2>7 DEF ChartAscends, Live
  <2> QED
    BY <1>5, <2>8
<1> QED
  BY <1>1, <1>6, <1>7

\* The handler puts its row at the end of the wire.
LEMMA SentLast ==
    ASSUME TypeOK, NEW k \in Kinds, SendNewest(k)
    PROVE  \A i \in 1 .. Len(wire') :
             \/ i \in 1 .. Len(wire) /\ wire'[i] = wire[i]
             \/ wire'[i] = Newest(k, Assets) /\ Newest(k, Assets).kind = k
<1> DEFINE row == Newest(k, Assets)
<1>1. row = Nothing \/ (row \in Message /\ row.kind = k)
  BY NewestRow, Sequences
<1>2. wire' = (IF row = Nothing THEN wire ELSE Append(wire, row)) /\ wire \in Seq(Message)
  BY Sequences DEF SendNewest
<1> HIDE DEF row
<1>3. CASE row = Nothing
  BY <1>2, <1>3
<1>4. CASE row \in Message /\ row.kind = k /\ wire' = Append(wire, row)
  <2>1. /\ Len(wire) \in Nat /\ Len(wire') = Len(wire) + 1
        /\ \A i \in 1 .. Len(wire) : wire'[i] = wire[i]
        /\ wire'[Len(wire) + 1] = row
    BY <1>2, <1>4, Appended
  <2>2. \A i \in 1 .. Len(wire') : i \in 1 .. Len(wire) \/ i = Len(wire) + 1
    BY <2>1
  <2> QED
    BY <1>4, <2>1, <2>2 DEF row
<1> QED
  BY <1>1, <1>2, <1>3, <1>4

LEMMA OrderInductive ==
    ASSUME TypeOK, FeedInv, ChartInv, BridgeAscends, [TrendNext]_trendVars
    PROVE  BridgeAscends'
<1> SUFFICES ASSUME view' = "trend" PROVE WireAscends' /\ ChartAscends'
  BY DEF BridgeAscends
<1>v. view = "trend"
  BY StepsOfChart
<1>h. WireAscends /\ ChartAscends
  BY <1>v DEF BridgeAscends
<1> USE DEF feed, link, seeding, drawing, trend
<1>1. CASE LoadTrend
  <2>1. wire' = <<>> /\ chart' = <<>>
    BY <1>1 DEF LoadTrend
  <2> QED
    BY <2>1 DEF WireAscends, ChartAscends
<1>2. CASE FetchReads \/ FetchFails
  <2>1. UNCHANGED <<vars, chart, seeded, again>>
    BY <1>2 DEF FetchReads, FetchFails
  <2>2. UNCHANGED <<chart, seeded, toBridge, published, wire, again>>
    BY <2>1 DEF vars
  <2> QED
    BY <1>h, <2>2, OrderKept
<1>3. CASE FetchArrives
  <2>1. chart' = fetched /\ seeded' = Len(fetched) /\ UNCHANGED <<vars, again>>
    BY <1>3 DEF FetchArrives
  <2>2. UNCHANGED <<toBridge, published, wire>>
    BY <2>1 DEF vars
  <2>3. Len(fetched) \in Nat
    BY LenProperties DEF ChartInv, TrendTypeOK
  <2>4. \A i \in 1 .. Len(chart') : ~(i > seeded')
    BY <2>1, <2>3
  <2>5. WireAscends'
    BY <1>h, <2>1, <2>2 DEF WireAscends, Live
  <2>6. ChartAscends'
    BY <2>4 DEF ChartAscends, Drawn
  <2> QED
    BY <2>5, <2>6
<1>4. CASE TrendReceive
  BY <1>h, <1>4, OrderReceived
<1>5. CASE TrendEmit
  <2>1. Emit /\ UNCHANGED <<chart, seeded, again>>
    BY <1>5 DEF TrendEmit
  <2> QED
    BY <1>h, <2>1, OrderEmitted
<1>6. CASE TrendSendState
  <2> DEFINE row == Newest("state", Assets)
  <2>1. "state" \in Kinds
    BY DEF Kinds
  <2>2. /\ SendNewest("state") /\ UNCHANGED <<chart, seeded, toBridge, published>>
        /\ again' = again \cup Points(<<row>>)
    BY <1>6 DEF TrendSendState, SendState
  <2>3. IsPoint(row) => row.n \in again'
    BY <2>2, PointsOfOne
  <2>4. \A i \in 1 .. Len(wire') : (i \in 1 .. Len(wire) /\ wire'[i] = wire[i]) \/ wire'[i] = row
    BY <2>1, <2>2, SentLast
  <2> HIDE DEF row
  <2>5. \A i \in 1 .. Len(wire') :
           \/ i \in 1 .. Len(wire) /\ wire'[i] = wire[i]
           \/ ~IsPoint(wire'[i])
           \/ wire'[i].n \in again'
    BY <2>3, <2>4
  <2>6. again \subseteq again'
    BY <2>2
  <2> QED
    BY <1>h, <2>2, <2>5, <2>6, OrderKept
<1>7. CASE SendAlarm /\ UNCHANGED trend
  <2>1. "alarm" \in Kinds
    BY DEF Kinds
  <2>2. SendNewest("alarm") /\ UNCHANGED <<chart, seeded, again, toBridge, published>>
    BY <1>7 DEF SendAlarm
  <2>3. \A i \in 1 .. Len(wire') :
           \/ i \in 1 .. Len(wire) /\ wire'[i] = wire[i]
           \/ ~IsPoint(wire'[i])
    BY <2>1, <2>2, SentLast DEF IsPoint
  <2> QED
    BY <1>h, <2>2, <2>3, OrderKept
<1>8. CASE TrendDisconnect
  <2>1. wire' = <<>> /\ UNCHANGED <<chart, seeded, again, toBridge, published>>
    BY <1>8 DEF TrendDisconnect, Disconnect
  <2> QED
    BY <1>h, <2>1, OrderKept
<1>9. ASSUME NEW a \in Assets, Publish("state", a), UNCHANGED trend
      PROVE  WireAscends' /\ ChartAscends'
  <2>1. "state" \in Kinds /\ UNCHANGED <<chart, seeded, again>> /\ TrendTypeOK
    BY <1>9 DEF Kinds, ChartInv
  <2> QED
    BY <1>h, <1>9, <2>1, OrderPublished
<1>10. CASE (Insert \/ Connect \/ HandlerFails) /\ UNCHANGED trend
  <2>1. UNCHANGED <<chart, seeded, toBridge, published, wire, again>>
    BY <1>10 DEF Insert, Connect, HandlerFails
  <2> QED
    BY <1>h, <2>1, OrderKept
<1>11. CASE UNCHANGED trendVars
  <2>1. UNCHANGED <<chart, seeded, toBridge, published, wire, again>>
    BY <1>11 DEF trendVars, vars
  <2> QED
    BY <1>h, <2>1, OrderKept
<1>12. TrendStep \/ UNCHANGED trendVars
  BY <1>v DEF TrendNext
<1> QED
  BY <1>1, <1>2, <1>3, <1>4, <1>5, <1>6, <1>7, <1>8, <1>9, <1>10, <1>11, <1>12 DEF TrendStep

\* The chart runs in the order of time wherever the bridge alone drew it, and within
\* the history: no order of the answer, the bridge and the handler puts a point right
\* of a newer one unless one of the two was read from the table
\* (trend.html:34-36, 62-63, sockets.py:26-31).
THEOREM OrderIsExplained == TrendSpec => []ChartOrderExplained
<1>1. TrendInit => SeedAscends /\ BridgeAscends
  <2> SUFFICES ASSUME TrendInit PROVE SeedAscends /\ BridgeAscends
    OBVIOUS
  <2>1. fetched = <<>> /\ seeded = 0 /\ chart = <<>> /\ wire = <<>>
    BY DEF TrendInit, Init
  <2> QED
    BY <2>1 DEF SeedAscends, BridgeAscends, WireAscends, ChartAscends
<1>2. /\ TypeOK /\ FeedInv /\ ChartInv /\ SeedAscends /\ BridgeAscends
      /\ [TrendNext]_trendVars
      => SeedAscends' /\ BridgeAscends'
  BY SeedInductive, OrderInductive
<1>3. ChartInv /\ SeedAscends /\ BridgeAscends => ChartOrderExplained
  <2> SUFFICES ASSUME ChartInv, SeedAscends, BridgeAscends,
                      NEW i \in 1 .. Len(chart), NEW j \in 1 .. Len(chart),
                      i < j, chart[j] <= chart[i]
               PROVE  /\ j > seeded
                      /\ \/ {chart[i], chart[j]} \cap again # {}
                         \/ \E k \in 1 .. Len(fetched) : fetched[k] = chart[i]
    BY DEF ChartOrderExplained
  <2>1. /\ Len(chart) \in Nat /\ seeded \in 0 .. Len(chart)
        /\ chart[i] \in Nat /\ chart[j] \in Nat
    BY LenProperties, ElementOfSeq DEF ChartInv, TrendTypeOK
  <2>2. ~(chart[i] < chart[j])
    BY <2>1
  <2>3. ChartAscends
    <3>1. chart # <<>>
      BY <2>1
    <3> QED
      BY <3>1 DEF BridgeAscends, ChartInv, NoChartYet, TrendTypeOK
  <2>4. j > seeded
    <3>1. CASE j <= seeded
      <4>1. i \in 1 .. seeded /\ j \in 1 .. seeded
        BY <2>1, <3>1
      <4> QED
        BY <2>2, <4>1 DEF SeedAscends
    <3> QED
      BY <2>1, <3>1
  <2>5. CASE i > seeded
    BY <2>2, <2>3, <2>4, <2>5 DEF ChartAscends, Drawn
  <2>6. CASE i <= seeded
    <3>1. i \in 1 .. seeded
      BY <2>1, <2>6
    <3> QED
      BY <2>4, <3>1 DEF SeedAscends
  <2> QED
    BY <2>1, <2>4, <2>5, <2>6
<1> QED
  BY <1>1, <1>2, <1>3, TypeCorrect, FeedInvariance, ChartInvariance, PTL DEF TrendSpec

=============================================================================
