---------------------------- MODULE GatewayProofs ----------------------------
(***************************************************************************)
(* What the gateway counts, and the text that it dates the rows with.      *)
(*                                                                         *)
(* First StateLink: SeqStats is right for every number of windows, reboots *)
(* and losses.  The argument compares two positions of the device, each a  *)
(* pair of a sequence number and a production index: from an earlier to a  *)
(* later one either both advance alike (one boot), or the later sequence   *)
(* number is at most the advance of the index (the counter restarted in    *)
(* between).                                                               *)
(*                                                                         *)
(* Then ApiQueries: the text that _iso_now writes sorts in the order of    *)
(* time, whatever the lengths of a day and of a second; /oee, whose cutoff *)
(* is text of another format, leaves no row of its window out; /history is *)
(* exact; and the endpoints agree.  What LIMIT returns is found by places: *)
(* in an order of n rows each has one, a number below n, and each of those *)
(* numbers is the place of a row.                                          *)
(***************************************************************************)
EXTENDS StateLink, ApiQueries, SequenceTheorems, FiniteSetTheorems, TLAPS

\* Position (t, b) of the device may follow position (s, a).
Follows(s, a, t, b) == t - s = b - a \/ t <= b - a

\* Message m was sent when the device, now at window s of boot b and at production
\* index p, was earlier on its way.
Behind(m, s, p, b) ==
    /\ m.at <= p
    /\ m.boot <= b
    /\ Follows(m.seq, m.at, s, p)
    /\ m.boot = b => s - m.seq = p - m.at

\* Message m was sent before message n.
Before(m, n) ==
    /\ m.at < n.at
    /\ m.boot <= n.boot
    /\ Follows(m.seq, m.at, n.seq, n.at)

\* Message m was sent after the notification that was counted last: number s, index
\* a, and the first counted came from boot b.
After(m, s, a, b) ==
    /\ a < m.at
    /\ b <= m.boot
    /\ Follows(s, a, m.seq, m.at)

Messages == [seq : 1 .. MaxWindows, at : 1 .. MaxWindows, boot : 0 .. MaxBoots]

\* The notifications in flight are behind the device and in the order they were sent.
LinkFollows ==
    /\ seq <= produced
    /\ \A k \in 1 .. Len(link) : Behind(link[k], seq, produced, boot)
    /\ \A k, l \in 1 .. Len(link) : k < l => Before(link[k], link[l])

\* What was counted last is behind the device ...
CountedFollows ==
    stats.received > 0 =>
        /\ stats.expected_next > 1
        /\ 1 <= first /\ first <= last
        /\ Follows(stats.expected_next - 1, last, seq, produced)
        /\ firstBoot = boot => seq - (stats.expected_next - 1) = produced - last

\* ... and before what is in flight.
LinkAfterCounted ==
    stats.received > 0 =>
        \A k \in 1 .. Len(link) : After(link[k], stats.expected_next - 1, last, firstBoot)

\* Nothing has been counted since the process started.
FreshIsFresh ==
    /\ stats.received = 0 <=> first = 0
    /\ stats.received = 0 => stats.expected_next = None /\ stats.missed = 0

Counting == CountedFollows /\ FreshIsFresh /\ MissedNeverInvented /\ MissedExactWithinBoot

SIInv == TypeOK /\ LinkFollows /\ LinkAfterCounted /\ Counting

-----------------------------------------------------------------------------
(* The numbers.                                                            *)

\* A typed state's numbers are numbers.
LEMMA Numbers ==
    ASSUME TypeOK
    PROVE  /\ seq \in Nat /\ produced \in Nat /\ boot \in Nat /\ firstBoot \in Nat
           /\ first \in Nat /\ last \in Nat /\ last <= produced /\ firstBoot <= boot
           /\ stats.expected_next \in Nat /\ stats.received \in Nat /\ stats.missed \in Nat
           /\ link \in Seq(Messages) /\ Len(link) \in Nat
           /\ \A k \in 1 .. Len(link) : link[k] \in Messages
<1>1. link \in Seq(Messages)
  BY DEF TypeOK, Messages
<1>2. /\ stats.expected_next \in Nat /\ stats.received \in Nat /\ stats.missed \in Nat
  BY DEF TypeOK
<1>3. /\ seq \in Nat /\ produced \in Nat /\ boot \in Nat /\ firstBoot \in Nat
      /\ first \in Nat /\ last \in Nat /\ last <= produced /\ firstBoot <= boot
  BY StateLinkAssumption DEF TypeOK
<1>4. Len(link) \in Nat /\ \A k \in 1 .. Len(link) : link[k] \in Messages
  BY <1>1
<1>5. QED
  BY <1>1, <1>2, <1>3, <1>4

\* A message's fields are numbers.
LEMMA MessageNumbers ==
    ASSUME NEW m \in Messages
    PROVE  m.seq \in Nat \ {0} /\ m.at \in Nat /\ m.boot \in Nat
BY DEF Messages

\* Following a position survives a window.
LEMMA FollowsAfterWindow ==
    ASSUME NEW s \in Int, NEW a \in Int, NEW t \in Int, NEW b \in Int,
           Follows(s, a, t, b)
    PROVE  Follows(s, a, t + 1, b + 1)
BY DEF Follows

\* When the device computes a window, what was behind it stays behind it.
LEMMA BehindAfterWindow ==
    ASSUME NEW m \in Messages, NEW s \in Nat, NEW p \in Nat, NEW b \in Nat,
           Behind(m, s, p, b)
    PROVE  Behind(m, s + 1, p + 1, b)
BY MessageNumbers DEF Behind, Follows

\* When it reboots too.
LEMMA BehindAfterReboot ==
    ASSUME NEW m \in Messages, NEW s \in Nat, NEW p \in Nat, NEW b \in Nat,
           Behind(m, s, p, b)
    PROVE  Behind(m, 0, p, b + 1)
BY MessageNumbers DEF Behind, Follows

\* The notification of a window is sent after every one that is behind the device.
LEMMA BehindThenBefore ==
    ASSUME NEW m \in Messages, NEW s \in Nat, NEW p \in Nat, NEW b \in Nat,
           Behind(m, s, p, b)
    PROVE  Before(m, [seq |-> s + 1, at |-> p + 1, boot |-> b])
BY MessageNumbers DEF Behind, Before, Follows

-----------------------------------------------------------------------------
(* The link.                                                               *)

\* What survives of the link when the connection is lost is a prefix of it.
LEMMA PrefixOfLink ==
    ASSUME TypeOK, NEW kept \in 0 .. Len(link), LoseConnection(kept)
    PROVE  \A k \in 1 .. Len(link') : k \in 1 .. Len(link) /\ link'[k] = link[k]
<1>1. link \in Seq(Messages) /\ Len(link) \in Nat
  BY Numbers
<1>2. link' = SubSeq(link, 1, kept)
  BY DEF LoseConnection
<1>3. QED
  BY <1>1, <1>2

\* A step that leaves the accounting alone, or only shortens the link, keeps it right.
LEMMA ShorterLinkPreserves ==
    ASSUME SIInv, TypeOK',
           seq' = seq, boot' = boot, stats' = stats, produced' = produced,
           first' = first, last' = last, firstBoot' = firstBoot,
           \A k \in 1 .. Len(link') : k \in 1 .. Len(link) /\ link'[k] = link[k]
    PROVE  SIInv'
<1>1. LinkFollows'
  BY DEF SIInv, LinkFollows
<1>2. LinkAfterCounted'
  BY DEF SIInv, LinkAfterCounted
<1>3. Counting'
  BY DEF SIInv, Counting, CountedFollows, FreshIsFresh, MissedNeverInvented,
         MissedExactWithinBoot
<1>4. QED
  BY <1>1, <1>2, <1>3 DEF SIInv

\* A window moves the device one step ahead; its notification joins the link last.
LEMMA WindowPreserves ==
    ASSUME SIInv, TypeOK',
           seq' = seq + 1, produced' = produced + 1, boot' = boot, stats' = stats,
           first' = first, last' = last, firstBoot' = firstBoot,
           link' \in {link, Append(link, [seq |-> seq + 1, at |-> produced + 1,
                                         boot |-> boot])}
    PROVE  SIInv'
<1> DEFINE n == [seq |-> seq + 1, at |-> produced + 1, boot |-> boot]
<1>1. /\ seq \in Nat /\ produced \in Nat /\ boot \in Nat /\ firstBoot \in Nat
      /\ first \in Nat /\ last \in Nat /\ last <= produced /\ firstBoot <= boot
      /\ stats.expected_next \in Nat
      /\ link \in Seq(Messages) /\ Len(link) \in Nat
      /\ \A k \in 1 .. Len(link) : link[k] \in Messages
  BY Numbers DEF SIInv
<1>2. \A k \in 1 .. Len(link') :
        \/ k \in 1 .. Len(link) /\ link'[k] = link[k]
        \/ k = Len(link) + 1 /\ link'[k] = n
  <2>1. CASE link' = link
    BY <2>1
  <2>2. CASE link' = Append(link, n)
    BY <1>1, <2>2
  <2>3. QED
    BY <2>1, <2>2
<1>3. LinkFollows'
  <2>1. seq' <= produced'
    BY <1>1 DEF SIInv, LinkFollows
  <2>2. ASSUME NEW k \in 1 .. Len(link')
        PROVE  Behind(link'[k], seq', produced', boot')
    <3>1. CASE k \in 1 .. Len(link) /\ link'[k] = link[k]
      <4>1. Behind(link[k], seq, produced, boot)
        BY <3>1 DEF SIInv, LinkFollows
      <4>2. Behind(link[k], seq + 1, produced + 1, boot)
        BY <1>1, <3>1, <4>1, BehindAfterWindow
      <4>3. QED
        BY <3>1, <4>2
    <3>2. CASE link'[k] = n
      <4>1. Behind(n, seq + 1, produced + 1, boot)
        BY <1>1 DEF Behind, Follows
      <4>2. QED
        BY <3>2, <4>1
    <3>3. QED
      BY <1>2, <3>1, <3>2
  <2>3. ASSUME NEW k \in 1 .. Len(link'), NEW l \in 1 .. Len(link'), k < l
        PROVE  Before(link'[k], link'[l])
    <3>1. k \in 1 .. Len(link) /\ link'[k] = link[k]
      <4>1. CASE k = Len(link) + 1
        BY <1>1, <1>2, <2>3, <4>1
      <4>2. QED
        BY <1>2, <4>1
    <3>2. CASE l \in 1 .. Len(link) /\ link'[l] = link[l]
      BY <2>3, <3>1, <3>2 DEF SIInv, LinkFollows
    <3>3. CASE link'[l] = n
      <4>1. Behind(link[k], seq, produced, boot)
        BY <3>1 DEF SIInv, LinkFollows
      <4>2. Before(link[k], n)
        BY <1>1, <3>1, <4>1, BehindThenBefore
      <4>3. QED
        BY <3>1, <3>3, <4>2
    <3>4. QED
      BY <1>2, <3>2, <3>3
  <2>4. QED
    BY <2>1, <2>2, <2>3 DEF LinkFollows
<1>4. CountedFollows'
  BY <1>1 DEF SIInv, Counting, CountedFollows, Follows
<1>5. LinkAfterCounted'
  <2> SUFFICES ASSUME stats.received > 0, NEW k \in 1 .. Len(link')
               PROVE  After(link'[k], stats.expected_next - 1, last, firstBoot)
    BY DEF LinkAfterCounted
  <2>1. CASE k \in 1 .. Len(link) /\ link'[k] = link[k]
    BY <2>1 DEF SIInv, LinkAfterCounted
  <2>2. CASE link'[k] = n
    <3>1. Follows(stats.expected_next - 1, last, seq, produced)
      BY DEF SIInv, Counting, CountedFollows
    <3>2. Follows(stats.expected_next - 1, last, seq + 1, produced + 1)
      BY <1>1, <3>1, FollowsAfterWindow
    <3>3. After(n, stats.expected_next - 1, last, firstBoot)
      BY <1>1, <3>2 DEF After
    <3>4. QED
      BY <2>2, <3>3
  <2>3. QED
    BY <1>2, <2>1, <2>2
<1>6. FreshIsFresh' /\ MissedNeverInvented' /\ MissedExactWithinBoot'
  BY DEF SIInv, Counting, FreshIsFresh, MissedNeverInvented, MissedExactWithinBoot
<1>7. QED
  BY <1>3, <1>4, <1>5, <1>6 DEF SIInv, Counting

\* A reboot restarts the counter but not the index.
LEMMA RebootPreserves ==
    ASSUME SIInv, TypeOK', Reboot
    PROVE  SIInv'
<1>1. /\ seq' = 0 /\ boot' = boot + 1 /\ stats' = stats /\ produced' = produced
      /\ first' = first /\ last' = last /\ firstBoot' = firstBoot
  BY DEF Reboot
<1>2. PICK kept \in 0 .. Len(link) : LoseConnection(kept)
  BY DEF Reboot
<1>3. \A k \in 1 .. Len(link') : k \in 1 .. Len(link) /\ link'[k] = link[k]
  BY <1>2, PrefixOfLink DEF SIInv
<1>4. /\ seq \in Nat /\ produced \in Nat /\ boot \in Nat /\ firstBoot \in Nat
      /\ first \in Nat /\ last \in Nat /\ last <= produced /\ firstBoot <= boot
      /\ stats.expected_next \in Nat
      /\ \A k \in 1 .. Len(link) : link[k] \in Messages
  BY Numbers DEF SIInv
<1>5. LinkFollows'
  <2>1. ASSUME NEW k \in 1 .. Len(link')
        PROVE  Behind(link'[k], seq', produced', boot')
    <3>1. Behind(link[k], seq, produced, boot)
      BY <1>3 DEF SIInv, LinkFollows
    <3>2. Behind(link[k], 0, produced, boot + 1)
      BY <1>3, <1>4, <3>1, BehindAfterReboot
    <3>3. QED
      BY <1>1, <1>3, <3>2
  <2>2. \A k, l \in 1 .. Len(link') : k < l => Before(link'[k], link'[l])
    BY <1>3 DEF SIInv, LinkFollows
  <2>3. seq' <= produced'
    BY <1>1, <1>4
  <2>4. QED
    BY <2>1, <2>2, <2>3 DEF LinkFollows
<1>6. CountedFollows'
  BY <1>1, <1>4 DEF SIInv, Counting, CountedFollows, Follows
<1>7. LinkAfterCounted'
  BY <1>1, <1>3 DEF SIInv, LinkAfterCounted
<1>8. FreshIsFresh' /\ MissedNeverInvented' /\ MissedExactWithinBoot'
  BY <1>1, <1>4 DEF SIInv, Counting, FreshIsFresh, MissedNeverInvented,
                    MissedExactWithinBoot
<1>9. QED
  BY <1>5, <1>6, <1>7, <1>8 DEF SIInv, Counting

\* SeqStats.observe on a notification: the gap is at most the windows between the
\* last one counted and this one, and exactly those within one boot.
LEMMA GapBounds ==
    ASSUME NEW n \in Messages, stats.expected_next \in Nat, stats.expected_next > 1,
           last \in Nat, last < n.at,
           Follows(stats.expected_next - 1, last, n.seq, n.at)
    PROVE  /\ Gap(n.seq) \in Nat
           /\ Gap(n.seq) <= n.at - last - 1
           /\ n.seq - (stats.expected_next - 1) = n.at - last
                  => Gap(n.seq) = n.at - last - 1
BY MessageNumbers DEF Gap, None, Follows

\* One more received and g more missed: the total still fits between the first
\* notification and the last, and fits exactly when it did and g is exact.
LEMMA TotalsFit ==
    ASSUME NEW r \in Int, NEW m \in Int, NEW g \in Int,
           NEW f \in Int, NEW l \in Int, NEW a \in Int
    PROVE  /\ r + m <= l - f + 1 /\ g <= a - l - 1 => (r + 1) + (m + g) <= a - f + 1
           /\ r + m = l - f + 1 /\ g = a - l - 1 => (r + 1) + (m + g) = a - f + 1
OBVIOUS

\* Two positions that differ alike from a third differ alike from each other.
LEMMA AlikeFromThird ==
    ASSUME NEW s \in Int, NEW p \in Int, NEW t \in Int, NEW a \in Int,
           NEW e \in Int, NEW l \in Int,
           s - t = p - a, s - e = p - l
    PROVE  t - e = a - l
OBVIOUS

\* A notification received keeps the accounting right.
LEMMA OnNotifyPreserves ==
    ASSUME SIInv, TypeOK', OnNotify
    PROVE  SIInv'
<1>0. PICK n : n = Head(link)
  OBVIOUS
<1>1. /\ seq' = seq /\ boot' = boot /\ produced' = produced
      /\ stats' = Observe(n.seq)
      /\ first' = IF first = 0 THEN n.at ELSE first
      /\ firstBoot' = IF first = 0 THEN n.boot ELSE firstBoot
      /\ last' = n.at
      /\ link # <<>> /\ link' = Tail(link)
  BY <1>0 DEF OnNotify, device
<1>2. /\ seq \in Nat /\ produced \in Nat /\ boot \in Nat /\ firstBoot \in Nat
      /\ first \in Nat /\ last \in Nat /\ last <= produced /\ firstBoot <= boot
      /\ stats.expected_next \in Nat /\ stats.received \in Nat /\ stats.missed \in Nat
      /\ link \in Seq(Messages) /\ Len(link) \in Nat
      /\ \A k \in 1 .. Len(link) : link[k] \in Messages
  BY Numbers DEF SIInv
<1>3. 1 \in 1 .. Len(link) /\ n = link[1] /\ n \in Messages
  BY <1>0, <1>1, <1>2
<1>4. \A k \in 1 .. Len(link') : k + 1 \in 2 .. Len(link) /\ link'[k] = link[k + 1]
  BY <1>1, <1>2
<1>5. /\ n.seq \in Nat \ {0} /\ n.at \in Nat \ {0} /\ n.boot \in Nat
  BY <1>3 DEF Messages
<1>6. Behind(n, seq, produced, boot)
  BY <1>3 DEF SIInv, LinkFollows
<1>7. /\ stats'.expected_next = n.seq + 1
      /\ stats'.received = stats.received + 1
      /\ stats'.missed = stats.missed + Gap(n.seq)
  BY <1>1 DEF Observe
<1>8. LinkFollows'
  <2>1. \A k \in 1 .. Len(link') : Behind(link'[k], seq, produced, boot)
    BY <1>2, <1>4 DEF SIInv, LinkFollows
  <2>2. ASSUME NEW k \in 1 .. Len(link'), NEW l \in 1 .. Len(link'), k < l
        PROVE  Before(link'[k], link'[l])
    <3>1. k + 1 \in 1 .. Len(link) /\ l + 1 \in 1 .. Len(link) /\ k + 1 < l + 1
      BY <1>2, <1>4, <2>2
    <3>2. Before(link[k + 1], link[l + 1])
      BY <3>1 DEF SIInv, LinkFollows
    <3>3. QED
      BY <1>4, <3>2
  <2>3. QED
    BY <1>1, <2>1, <2>2 DEF SIInv, LinkFollows
<1>9. LinkAfterCounted'
  <2>1. ASSUME NEW k \in 1 .. Len(link')
        PROVE  After(link'[k], n.seq, n.at, firstBoot')
    <3>1. Before(link[1], link[k + 1])
      BY <1>2, <1>3, <1>4 DEF SIInv, LinkFollows
    <3>2. link'[k] = link[k + 1] /\ link[k + 1] \in Messages
      BY <1>2, <1>4
    <3>3. firstBoot' <= n.boot
      <4>1. CASE first = 0
        BY <1>1, <1>5, <4>1
      <4>2. CASE first # 0
        <5>1. stats.received > 0
          BY <1>2, <4>2 DEF SIInv, Counting, FreshIsFresh
        <5>2. After(link[1], stats.expected_next - 1, last, firstBoot)
          BY <1>3, <5>1 DEF SIInv, LinkAfterCounted
        <5>3. QED
          BY <1>1, <1>3, <4>2, <5>2 DEF After
      <4>3. QED
        BY <4>1, <4>2
    <3>4. firstBoot' \in Nat
      BY <1>1, <1>2, <1>5
    <3>5. link[k + 1].boot \in Nat
      BY <3>2, MessageNumbers
    <3>6. QED
      BY <1>3, <1>5, <3>1, <3>2, <3>3, <3>4, <3>5 DEF Before, After
  <2>2. n.seq = stats'.expected_next - 1
    BY <1>5, <1>7
  <2>3. QED
    BY <1>1, <2>1, <2>2 DEF LinkAfterCounted
<1>10. CASE stats.received = 0
  <2>1. first = 0 /\ stats.expected_next = None /\ stats.missed = 0
    BY <1>10 DEF SIInv, Counting, FreshIsFresh
  <2>2. /\ stats'.expected_next = n.seq + 1 /\ stats'.received = 1 /\ stats'.missed = 0
        /\ first' = n.at /\ last' = n.at /\ firstBoot' = n.boot
    BY <1>1, <1>7, <1>10, <2>1 DEF Gap
  <2>3. /\ Follows(n.seq, n.at, seq, produced)
        /\ n.boot = boot => seq - n.seq = produced - n.at
    BY <1>6 DEF Behind
  <2>4. CountedFollows'
    <3>1. stats'.expected_next - 1 = n.seq
      BY <1>5, <2>2
    <3>2. QED
      BY <1>1, <1>5, <2>2, <2>3, <3>1 DEF CountedFollows
  <2>5. FreshIsFresh' /\ MissedNeverInvented' /\ MissedExactWithinBoot'
    BY <1>5, <2>2 DEF FreshIsFresh, MissedNeverInvented, MissedExactWithinBoot
  <2>6. QED
    BY <1>8, <1>9, <2>4, <2>5 DEF SIInv, Counting
<1>11. CASE stats.received > 0
  <2>1. /\ stats.expected_next > 1 /\ 1 <= first /\ first <= last
        /\ firstBoot = boot => seq - (stats.expected_next - 1) = produced - last
    BY <1>11 DEF SIInv, Counting, CountedFollows
  <2>2. /\ last < n.at /\ firstBoot <= n.boot
        /\ Follows(stats.expected_next - 1, last, n.seq, n.at)
    <3>1. After(link[1], stats.expected_next - 1, last, firstBoot)
      BY <1>3, <1>11 DEF SIInv, LinkAfterCounted
    <3>2. QED
      BY <1>3, <3>1 DEF After
  <2>3. first' = first /\ firstBoot' = firstBoot /\ last' = n.at
    BY <1>1, <1>2, <2>1
  <2>4. /\ Follows(n.seq, n.at, seq, produced)
        /\ n.at <= produced /\ n.boot <= boot
        /\ n.boot = boot => seq - n.seq = produced - n.at
    BY <1>6 DEF Behind
  <2>5. firstBoot = boot => n.boot = boot
    BY <1>2, <1>5, <2>2, <2>4
  <2>6. /\ Gap(n.seq) \in Nat
        /\ Gap(n.seq) <= n.at - last - 1
        /\ n.seq - (stats.expected_next - 1) = n.at - last
               => Gap(n.seq) = n.at - last - 1
    BY <1>2, <1>3, <2>1, <2>2, GapBounds
  <2>0. /\ stats.received \in Int /\ stats.missed \in Int /\ Gap(n.seq) \in Int
        /\ first \in Int /\ last \in Int /\ n.at \in Int
    BY <1>2, <1>5, <2>6
  <2>7. CountedFollows'
    <3>1. stats'.expected_next - 1 = n.seq /\ stats'.expected_next > 1
      BY <1>5, <1>7
    <3>2. 1 <= first' /\ first' <= last'
      BY <1>2, <1>5, <2>1, <2>2, <2>3
    <3>3. firstBoot' = boot' => seq' - n.seq = produced' - last'
      BY <1>1, <2>3, <2>4, <2>5
    <3>4. QED
      BY <1>1, <2>3, <2>4, <3>1, <3>2, <3>3 DEF CountedFollows
  <2>8. FreshIsFresh'
    BY <1>2, <1>7, <1>11, <2>1, <2>3 DEF FreshIsFresh
  <2>9. MissedNeverInvented'
    <3>1. stats.received + stats.missed <= last - first + 1
      BY <1>11 DEF SIInv, Counting, MissedNeverInvented
    <3>2. (stats.received + 1) + (stats.missed + Gap(n.seq)) <= n.at - first + 1
      BY <2>0, <2>6, <3>1, TotalsFit
    <3>3. QED
      BY <1>7, <2>3, <3>2 DEF MissedNeverInvented
  <2>10. MissedExactWithinBoot'
    <3>1. ASSUME firstBoot = boot
          PROVE  (stats.received + 1) + (stats.missed + Gap(n.seq)) = n.at - first + 1
      <4>1. stats.received + stats.missed = last - first + 1
        BY <1>11, <3>1 DEF SIInv, Counting, MissedExactWithinBoot
      <4>2. seq - n.seq = produced - n.at
        BY <2>4, <2>5, <3>1
      <4>3. seq - (stats.expected_next - 1) = produced - last
        BY <2>1, <3>1
      <4>4. n.seq - (stats.expected_next - 1) = n.at - last
        <5>1. /\ n.seq \in Int /\ n.at \in Int /\ stats.expected_next - 1 \in Int
              /\ seq \in Int /\ produced \in Int /\ last \in Int
          BY <1>2, <1>5
        <5>2. QED
          BY <4>2, <4>3, <5>1, AlikeFromThird
      <4>5. Gap(n.seq) = n.at - last - 1
        BY <2>6, <4>4
      <4>6. QED
        BY <4>1, <4>5, <2>0, TotalsFit
    <3>2. QED
      BY <1>1, <1>7, <2>3, <3>1 DEF MissedExactWithinBoot
  <2>11. QED
    BY <1>8, <1>9, <2>7, <2>8, <2>9, <2>10 DEF SIInv, Counting
<1>12. QED
  BY <1>2, <1>10, <1>11

\* A gateway process that starts has counted nothing.
LEMMA StartPreserves ==
    ASSUME SIInv, TypeOK', Start
    PROVE  SIInv'
<1>1. /\ seq' = seq /\ boot' = boot /\ produced' = produced /\ stats' = FreshStats
      /\ link' = <<>> /\ first' = 0
  BY DEF Start, device
<1>2. Len(link') = 0
  BY <1>1
<1>3. stats'.received = 0 /\ stats'.expected_next = None /\ stats'.missed = 0
  BY <1>1 DEF FreshStats
<1>4. LinkFollows'
  BY <1>1, <1>2 DEF SIInv, LinkFollows
<1>5. LinkAfterCounted' /\ Counting'
  BY <1>1, <1>3 DEF LinkAfterCounted, Counting, CountedFollows, FreshIsFresh,
                    MissedNeverInvented, MissedExactWithinBoot
<1>6. QED
  BY <1>4, <1>5 DEF SIInv
-----------------------------------------------------------------------------
(* The steps.                                                              *)

\* Losing the connection, with any part of what is in flight, keeps the types.
LEMMA LoseConnectionTyped ==
    ASSUME SIInv, NEW kept \in 0 .. Len(link), LoseConnection(kept)
    PROVE  /\ link' \in Seq(Messages)
           /\ dropped' \subseteq 1 .. produced
           /\ peer' = "none"
<1>1. /\ link \in Seq(Messages) /\ Len(link) \in Nat /\ produced \in Nat
      /\ \A k \in 1 .. Len(link) : link[k] \in Messages
  BY Numbers DEF SIInv
<1>2. link' \in Seq(Messages)
  BY <1>1 DEF LoseConnection
<1>3. \A k \in 1 .. Len(link) : link[k].at \in 1 .. produced
  BY <1>1 DEF SIInv, LinkFollows, Behind, Messages
<1>4. {link[k].at : k \in kept + 1 .. Len(link)} \subseteq 1 .. produced
  <2>1. \A k \in kept + 1 .. Len(link) : k \in 1 .. Len(link)
    BY <1>1
  <2>2. QED
    BY <1>3, <2>1
<1>5. dropped' \subseteq 1 .. produced
  <2>1. dropped \subseteq 1 .. produced
    BY DEF SIInv, TypeOK
  <2>2. QED
    BY <1>4, <2>1 DEF LoseConnection
<1>6. QED
  BY <1>2, <1>5 DEF LoseConnection

\* Clearing the link keeps the types.
LEMMA ClearedLinkTyped ==
    ASSUME SIInv,
           dropped' = dropped \cup {link[k].at : k \in 1 .. Len(link)}
    PROVE  dropped' \subseteq 1 .. produced
<1>1. /\ Len(link) \in Nat /\ produced \in Nat
      /\ \A k \in 1 .. Len(link) : link[k] \in Messages
  BY Numbers DEF SIInv
<1>2. \A k \in 1 .. Len(link) : link[k].at \in 1 .. produced
  BY <1>1 DEF SIInv, LinkFollows, Behind, Messages
<1>3. QED
  BY <1>1, <1>2 DEF SIInv, TypeOK

\* Every step keeps the types: the sequence number stays within the windows
\* produced, and what is counted is a notification the device has sent.
LEMMA NextTypeOK ==
    ASSUME SIInv, Next
    PROVE  TypeOK'
<1> USE StateLinkAssumption
<1>1. /\ seq \in Nat /\ produced \in Nat /\ boot \in Nat /\ seq <= produced
      /\ link \in Seq(Messages) /\ Len(link) \in Nat
      /\ \A k \in 1 .. Len(link) : link[k] \in Messages
  BY Numbers DEF SIInv, LinkFollows
<1>2. TypeOK
  BY DEF SIInv
<1>3. CASE WindowSilent
  BY <1>1, <1>2, <1>3 DEF WindowSilent, TypeOK
<1>4. CASE WindowNotified
  <2>1. [seq |-> seq + 1, at |-> produced + 1, boot |-> boot] \in Messages
    BY <1>1, <1>2, <1>4 DEF WindowNotified, TypeOK, Messages
  <2>2. link' \in Seq(Messages)
    BY <1>1, <1>4, <2>1 DEF WindowNotified
  <2>3. QED
    BY <1>1, <1>2, <1>4, <2>2 DEF WindowNotified, TypeOK, Messages
<1>5. CASE WindowDropped
  BY <1>1, <1>2, <1>5 DEF WindowDropped, TypeOK
<1>6. CASE Disconnect
  <2>1. PICK kept \in 0 .. Len(link) : LoseConnection(kept)
    BY <1>6 DEF Disconnect
  <2>2. link' \in Seq(Messages) /\ dropped' \subseteq 1 .. produced /\ peer' = "none"
    BY <2>1, LoseConnectionTyped
  <2>3. QED
    BY <1>2, <1>6, <2>2 DEF Disconnect, device, TypeOK, Messages
<1>7. CASE Reboot
  <2>1. PICK kept \in 0 .. Len(link) : LoseConnection(kept)
    BY <1>7 DEF Reboot
  <2>2. link' \in Seq(Messages) /\ dropped' \subseteq 1 .. produced /\ peer' = "none"
    BY <2>1, LoseConnectionTyped
  <2>3. QED
    BY <1>2, <1>7, <2>2 DEF Reboot, TypeOK, Messages
<1>8. CASE CaptureStarts \/ CaptureEnds \/ CaptureDies
  BY <1>2, <1>8 DEF CaptureStarts, CaptureEnds, CaptureDies, device, history, TypeOK
<1>9. CASE Start
  BY <1>1, <1>2, <1>9 DEF Start, FreshStats, None, device, TypeOK
<1>10. CASE ScanFinds \/ ScanTimesOut \/ ScanRaises \/ Connects \/ Wakes
  BY <1>2, <1>10 DEF ScanFinds, ScanTimesOut, ScanRaises, Connects, Wakes, device,
                     history, TypeOK
<1>11. CASE SessionError
  <2>1. dropped' \subseteq 1 .. produced
    BY <1>11, ClearedLinkTyped DEF SessionError
  <2>2. QED
    BY <1>2, <1>11, <2>1 DEF SessionError, device, TypeOK
<1>12. CASE SessionEnds
  <2>1. dropped' \subseteq 1 .. produced
    BY <1>12, ClearedLinkTyped DEF SessionEnds
  <2>2. QED
    BY <1>2, <1>12, <2>1 DEF SessionEnds, device, TypeOK
<1>13. CASE OnNotify
  <2>0. PICK n : n = Head(link)
    OBVIOUS
  <2>1. n \in Messages /\ n = link[1] /\ 1 \in 1 .. Len(link)
    BY <1>1, <1>13, <2>0 DEF OnNotify
  <2>2. Behind(n, seq, produced, boot)
    BY <2>1 DEF SIInv, LinkFollows
  <2>3. n.at \in 1 .. produced /\ n.boot \in 0 .. boot /\ n.seq \in Nat
    BY <1>1, <2>1, <2>2 DEF Behind, Messages
  <2>4. link' \in Seq(Messages)
    BY <1>1, <1>13 DEF OnNotify
  <2>5. /\ first' \in 0 .. produced /\ last' \in 0 .. produced /\ firstBoot' \in 0 .. boot
    <3>1. /\ first' = (IF first = 0 THEN n.at ELSE first)
          /\ firstBoot' = (IF first = 0 THEN n.boot ELSE firstBoot)
          /\ last' = n.at
      BY <1>13, <2>0 DEF OnNotify
    <3>2. first \in 0 .. produced /\ firstBoot \in 0 .. boot
      BY <1>2 DEF TypeOK
    <3>3. n.at \in 0 .. produced
      BY <1>1, <2>3
    <3>4. QED
      BY <2>3, <3>1, <3>2, <3>3
  <2>6. Gap(n.seq) \in Nat
    BY <1>2, <2>3 DEF Gap, TypeOK
  <2>7. stats' \in [expected_next : Nat, received : Nat, missed : Nat]
    <3>1. stats' = Observe(n.seq)
      BY <1>13, <2>0 DEF OnNotify
    <3>2. /\ n.seq + 1 \in Nat /\ stats.received + 1 \in Nat
          /\ stats.missed + Gap(n.seq) \in Nat
      BY <1>2, <2>3, <2>6 DEF TypeOK
    <3>3. QED
      BY <3>1, <3>2 DEF Observe
  <2>8. QED
    BY <1>2, <1>13, <2>4, <2>5, <2>7 DEF OnNotify, device, TypeOK, Messages
<1>14. QED
  BY <1>3, <1>4, <1>5, <1>6, <1>7, <1>8, <1>9, <1>10, <1>11, <1>12, <1>13 DEF Next

\* The invariant holds at the start ...
LEMMA InitSIInv == Init => SIInv
<1> SUFFICES ASSUME Init PROVE SIInv
  OBVIOUS
<1>1. TypeOK
  BY StateLinkAssumption DEF Init, FreshStats, None, TypeOK
<1>2. Len(link) = 0 /\ seq <= produced
  BY DEF Init
<1>3. LinkFollows
  BY <1>2 DEF LinkFollows
<1>4. LinkAfterCounted /\ Counting
  BY DEF Init, FreshStats, LinkAfterCounted, Counting, CountedFollows, FreshIsFresh,
         MissedNeverInvented, MissedExactWithinBoot
<1>5. QED
  BY <1>1, <1>3, <1>4 DEF SIInv

\* ... and every step of the device, the link, the tools and the gateway keeps it.
LEMMA NextSIInv == SIInv /\ [Next]_vars => SIInv'
<1> SUFFICES ASSUME SIInv, [Next]_vars PROVE SIInv'
  OBVIOUS
<1>1. CASE UNCHANGED vars
  <2>1. TypeOK'
    BY <1>1 DEF SIInv, TypeOK, vars, device, history
  <2>2. QED
    BY <1>1, <2>1, ShorterLinkPreserves DEF vars, device, history
<1>2. CASE Next
  <2>0. TypeOK'
    BY <1>2, NextTypeOK
  <2>1. CASE WindowSilent
    BY <2>0, <2>1, WindowPreserves DEF WindowSilent
  <2>2. CASE WindowNotified
    BY <2>0, <2>2, WindowPreserves DEF WindowNotified
  <2>3. CASE WindowDropped
    BY <2>0, <2>3, WindowPreserves DEF WindowDropped
  <2>4. CASE Disconnect
    <3>1. PICK kept \in 0 .. Len(link) : LoseConnection(kept)
      BY <2>4 DEF Disconnect
    <3>2. \A k \in 1 .. Len(link') : k \in 1 .. Len(link) /\ link'[k] = link[k]
      BY <3>1, PrefixOfLink DEF SIInv
    <3>3. QED
      BY <2>0, <2>4, <3>2, ShorterLinkPreserves DEF Disconnect, device
  <2>5. CASE Reboot
    BY <2>0, <2>5, RebootPreserves
  <2>6. CASE \/ CaptureStarts \/ CaptureEnds \/ CaptureDies
             \/ ScanFinds \/ ScanTimesOut \/ ScanRaises \/ Connects \/ Wakes
    <3>1. /\ seq' = seq /\ boot' = boot /\ stats' = stats /\ produced' = produced
          /\ first' = first /\ last' = last /\ firstBoot' = firstBoot /\ link' = link
      BY <2>6 DEF CaptureStarts, CaptureEnds, CaptureDies, ScanFinds, ScanTimesOut,
                  ScanRaises, Connects, Wakes, device, history
    <3>2. QED
      BY <2>0, <3>1, ShorterLinkPreserves
  <2>7. CASE SessionError \/ SessionEnds
    <3>1. /\ seq' = seq /\ boot' = boot /\ stats' = stats /\ produced' = produced
          /\ first' = first /\ last' = last /\ firstBoot' = firstBoot /\ link' = <<>>
      BY <2>7 DEF SessionError, SessionEnds, device
    <3>2. \A k \in 1 .. Len(link') : k \in 1 .. Len(link) /\ link'[k] = link[k]
      BY <3>1
    <3>3. QED
      BY <2>0, <3>1, <3>2, ShorterLinkPreserves
  <2>8. CASE Start
    BY <2>0, <2>8, StartPreserves
  <2>9. CASE OnNotify
    BY <2>0, <2>9, OnNotifyPreserves
  <2>10. QED
    BY <1>2, <2>1, <2>2, <2>3, <2>4, <2>5, <2>6, <2>7, <2>8, <2>9 DEF Next
<1>3. QED
  BY <1>1, <1>2

-----------------------------------------------------------------------------
(* The theorems.                                                           *)

\* The inductive invariant of the state link.
THEOREM StateLinkInvariance == Spec => []SIInv
BY InitSIInv, NextSIInv, PTL DEF Spec

\* Type correctness; in particular the device's counter never runs ahead of the
\* windows it has computed.
THEOREM StateLinkTyped == Spec => []TypeOK
<1>1. SIInv => TypeOK
  BY DEF SIInv
<1>2. QED
  BY <1>1, StateLinkInvariance, PTL

\* SeqStats (ble_central.py:50-67) never reports more than there was, whatever is
\* lost and however often the device reboots or the link breaks.
THEOREM NeverInvented == Spec => []MissedNeverInvented
<1>1. SIInv => MissedNeverInvented
  BY DEF SIInv, Counting
<1>2. QED
  BY <1>1, StateLinkInvariance, PTL

\* As long as the device has not rebooted, SeqStats is exact: received plus missed
\* are the windows from the first notification to the last.
THEOREM ExactWithinBoot == Spec => []MissedExactWithinBoot
<1>1. SIInv => MissedExactWithinBoot
  BY DEF SIInv, Counting
<1>2. QED
  BY <1>1, StateLinkInvariance, PTL

-----------------------------------------------------------------------------
(* The rows' text.                                                         *)

\* What \div and % make of a number.
LEMMA Division ==
    ASSUME NEW n \in Int, NEW d \in Int, d > 0
    PROVE  n \div d \in Int /\ n % d \in 0 .. d - 1 /\ n = d * (n \div d) + (n % d)
<1>1. n \div d \in Int /\ n % d \in 0 .. d - 1
  OBVIOUS
<1>2. n = d * (n \div d) + (n % d)
  OBVIOUS
<1> QED
  BY <1>1, <1>2

\* A number is before another if its quotient is, whatever the remainders.
LEMMA QuotientFirst ==
    ASSUME NEW d \in Nat, d >= 1, NEW q \in Int, NEW p \in Int, q < p,
           NEW r \in 0 .. d - 1, NEW s \in 0 .. d - 1
    PROVE  d * q + r < d * p + s
<1>1. \A k \in Int : k >= 1 => d * k >= d
  OBVIOUS
<1>2. p - q \in Int /\ p - q >= 1
  OBVIOUS
<1>3. d * (p - q) >= d
  BY <1>1, <1>2
<1>4. d * p - d * q = d * (p - q)
  OBVIOUS
<1>5. d * p - d * q >= d
  BY <1>3, <1>4
<1> DEFINE x == d * p  y == d * q
<1>6. x \in Int /\ y \in Int /\ x - y >= d
  BY <1>5
<1> HIDE DEF x, y
<1>7. y + r < x + s
  BY <1>6
<1> QED
  BY <1>7 DEF x, y

\* Two numbers compare as their quotients do, and as their remainders if those are equal.
LEMMA ComparesAsParts ==
    ASSUME NEW d \in Nat, d >= 1, NEW m \in Int, NEW n \in Int
    PROVE  /\ m < n <=> \/ m \div d < n \div d
                        \/ m \div d = n \div d /\ m % d < n % d
           /\ m <= n => m \div d <= n \div d
<1> DEFINE q == m \div d  r == m % d  p == n \div d  s == n % d
<1>1. q \in Int /\ r \in 0 .. d - 1 /\ m = d * q + r
  BY Division
<1>2. p \in Int /\ s \in 0 .. d - 1 /\ n = d * p + s
  BY Division
<1> HIDE DEF q, r, p, s
<1>3. q < p => m < n
  BY <1>1, <1>2, QuotientFirst
<1>4. p < q => n < m
  BY <1>1, <1>2, QuotientFirst
<1>5. q = p => (m < n <=> r < s)
  <2> SUFFICES ASSUME q = p PROVE m < n <=> r < s
    OBVIOUS
  <2> DEFINE x == d * q
  <2>1. x \in Int /\ m = x + r /\ n = x + s
    BY <1>1, <1>2
  <2> HIDE DEF x
  <2> QED
    BY <2>1, <1>1, <1>2
<1>6. (m < n <=> q < p \/ (q = p /\ r < s)) /\ (m <= n => q <= p)
  BY <1>1, <1>2, <1>3, <1>4, <1>5
<1> QED
  BY <1>6 DEF q, r, p, s

\* The day is the quotient of the second: dividing twice is dividing by the product.
LEMMA DayOfSecond ==
    ASSUME NEW t \in Int
    PROVE  Day(t) = (t \div SecTicks) \div DaySecs
<1> DEFINE d == SecTicks  e == DaySecs  q == t \div d  r == t % d  p == q \div e  s == q % e
<1>1. d \in Nat /\ d >= 1 /\ e \in Nat /\ e >= 1
  BY ApiAssumption
<1>2. q \in Int /\ r \in 0 .. d - 1 /\ t = d * q + r
  BY <1>1, Division
<1>3. p \in Int /\ s \in 0 .. e - 1 /\ q = e * p + s
  BY <1>1, <1>2, Division
<1> DEFINE w == e * d  u == t \div w  v == t % w
<1>4. w \in Nat /\ w >= 1
  BY <1>1, Z3
<1>5. u \in Int /\ v \in 0 .. w - 1 /\ t = w * u + v
  <2> HIDE DEF w
  <2> QED
    BY <1>4, Division
<1> HIDE DEF q, r, p, s, u, v
<1> DEFINE z == d * s + r
<1>6. z \in 0 .. w - 1
  <2>1. s <= e - 1 /\ d * (e - 1 - s) >= 0
    BY <1>1, <1>3
  <2>2. d * (e - 1 - s) = d * e - d - d * s
    BY <1>1, <1>3
  <2>3. d * s >= 0 /\ d * s \in Int
    BY <1>1, <1>3
  <2> QED
    BY <1>1, <1>2, <2>1, <2>2, <2>3
<1>7. t = w * p + z
  <2>1. d * q = d * (e * p) + d * s
    BY <1>1, <1>2, <1>3
  <2>2. d * (e * p) = w * p
    BY <1>1, <1>3
  <2>3. d * q \in Int /\ d * s \in Int /\ w * p \in Int /\ r \in Int
    BY <1>1, <1>2, <1>3
  <2> DEFINE x == d * q  y == d * s  v1 == w * p
  <2>4. t = x + r /\ x = v1 + y /\ z = y + r /\ x \in Int /\ y \in Int /\ v1 \in Int
    BY <1>2, <2>1, <2>2, <2>3
  <2> HIDE DEF x, y, v1, z
  <2>5. t = v1 + z
    BY <2>3, <2>4
  <2> QED
    BY <2>5 DEF v1
<1> HIDE DEF z, w
<1>8. ~(u < p)
  BY <1>3, <1>4, <1>5, <1>6, <1>7, QuotientFirst
<1>9. ~(p < u)
  BY <1>3, <1>4, <1>5, <1>6, <1>7, QuotientFirst
<1>10. u = p
  BY <1>3, <1>5, <1>8, <1>9
<1> QED
  BY <1>10 DEF u, p, q, w, Day

\* Times written as the rows are sort as text in the order of time, over the ends of
\* seconds and of days, for any length of the two (ble_central.py:38-39, which every
\* comparison of /history, /oee and /assets relies on).
THEOREM MillisSortAsTimes ==
    ASSUME NEW t \in Int, NEW u \in Int
    PROVE  Less(Millis(t), Millis(u)) <=> t < u
<1> DEFINE d == Day(t)  e == Day(u)  x == Second(t)  y == Second(u)  f == Fraction(t)  g == Fraction(u)
<1>1. t < u <=> \/ t \div SecTicks < u \div SecTicks
                \/ t \div SecTicks = u \div SecTicks /\ f < g
  BY ApiAssumption, ComparesAsParts DEF Fraction
<1>2. t \div SecTicks \in Int /\ u \div SecTicks \in Int
  BY ApiAssumption, Division
<1> DEFINE k == t \div SecTicks  l == u \div SecTicks
<1> HIDE DEF k, l
<1>3. k \in Int /\ l \in Int
  BY <1>2 DEF k, l
<1>4. k < l <=> k \div DaySecs < l \div DaySecs \/ (k \div DaySecs = l \div DaySecs /\ k % DaySecs < l % DaySecs)
  BY <1>3, ApiAssumption, ComparesAsParts
<1>5. l < k <=> l \div DaySecs < k \div DaySecs \/ (l \div DaySecs = k \div DaySecs /\ l % DaySecs < k % DaySecs)
  BY <1>3, ApiAssumption, ComparesAsParts
<1>6. d = k \div DaySecs /\ e = l \div DaySecs /\ x = k % DaySecs /\ y = l % DaySecs
  BY DayOfSecond DEF k, l, Second
<1>7. d \in Int /\ e \in Int /\ x \in Int /\ y \in Int
  BY <1>3, <1>6, ApiAssumption, Division
<1>8. f \in Int /\ g \in Int
  BY ApiAssumption, Division DEF Fraction
<1>9. t < u <=> d < e \/ (d = e /\ (x < y \/ (x = y /\ f < g)))
  <2>1. k < l <=> d < e \/ (d = e /\ x < y)
    BY <1>4, <1>6, Zenon
  <2>2. l < k <=> e < d \/ (e = d /\ y < x)
    BY <1>5, <1>6, Zenon
  <2>3. t < u <=> k < l \/ (k = l /\ f < g)
    BY <1>1 DEF k, l
  <2> HIDE DEF d, e, x, y, f, g
  <2> QED
    BY <1>3, <1>7, <1>8, <2>1, <2>2, <2>3
<1> DEFINE a == <<d, Tee, x, Dot, f, Zed>>  b == <<e, Tee, y, Dot, g, Zed>>
<1> HIDE DEF d, e, x, y, f, g
<1>10. Less(a, b) <=> d < e \/ (d = e /\ (x < y \/ (x = y /\ f < g)))
  <2>1. /\ Len(a) = 6 /\ a[1] = d /\ a[2] = Tee /\ a[3] = x /\ a[4] = Dot /\ a[5] = f /\ a[6] = Zed
        /\ Len(b) = 6 /\ b[1] = e /\ b[2] = Tee /\ b[3] = y /\ b[4] = Dot /\ b[5] = g /\ b[6] = Zed
    OBVIOUS
  <2> HIDE DEF a, b
  <2>2. Less(a, b) <=> \E i \in 1 .. 6 : (\A j \in 1 .. i - 1 : a[j] = b[j]) /\ a[i] < b[i]
    BY <2>1 DEF Less
  <2>3. ~(Tee < Tee) /\ ~(Dot < Dot) /\ ~(Zed < Zed)
    BY DEF Tee, Dot, Zed
  <2>4. ASSUME NEW i \in 1 .. 6, \A j \in 1 .. i - 1 : a[j] = b[j], a[i] < b[i]
        PROVE  d < e \/ (d = e /\ (x < y \/ (x = y /\ f < g)))
    <3>1. CASE i = 1
      BY <2>1, <2>4, <3>1
    <3>2. CASE i = 3
      <4>1. a[1] = b[1]
        BY <2>4, <3>2
      <4> QED
        BY <2>1, <2>4, <3>2, <4>1
    <3>3. CASE i = 5
      <4>1. a[1] = b[1] /\ a[3] = b[3]
        BY <2>4, <3>3
      <4> QED
        BY <2>1, <2>4, <3>3, <4>1
    <3>4. CASE i \in {2, 4, 6}
      BY <2>1, <2>3, <2>4, <3>4
    <3> QED
      BY <3>1, <3>2, <3>3, <3>4
  <2>5. ASSUME d < e
        PROVE  \E i \in 1 .. 6 : (\A j \in 1 .. i - 1 : a[j] = b[j]) /\ a[i] < b[i]
    <3>1. 1 \in 1 .. 6 /\ (\A j \in 1 .. 1 - 1 : a[j] = b[j]) /\ a[1] < b[1]
      BY <2>1, <2>5
    <3> QED
      BY <3>1
  <2>6. ASSUME d = e, x < y
        PROVE  \E i \in 1 .. 6 : (\A j \in 1 .. i - 1 : a[j] = b[j]) /\ a[i] < b[i]
    <3>1. \A j \in 1 .. 3 - 1 : j = 1 \/ j = 2
      OBVIOUS
    <3>2. 3 \in 1 .. 6 /\ (\A j \in 1 .. 3 - 1 : a[j] = b[j]) /\ a[3] < b[3]
      BY <2>1, <2>6, <3>1
    <3> QED
      BY <3>2
  <2>7. ASSUME d = e, x = y, f < g
        PROVE  \E i \in 1 .. 6 : (\A j \in 1 .. i - 1 : a[j] = b[j]) /\ a[i] < b[i]
    <3>1. \A j \in 1 .. 5 - 1 : j = 1 \/ j = 2 \/ j = 3 \/ j = 4
      OBVIOUS
    <3>2. 5 \in 1 .. 6 /\ (\A j \in 1 .. 5 - 1 : a[j] = b[j]) /\ a[5] < b[5]
      BY <2>1, <2>7, <3>1
    <3> QED
      BY <3>2
  <2> QED
    BY <2>2, <2>4, <2>5, <2>6, <2>7
<1> QED
  BY <1>9, <1>10 DEF Millis, d, e, x, y, f, g

\* No time from the cutoff on sorts before the cutoff's text.
LEMMA NothingBeforeCutoff ==
    ASSUME NEW c \in Int, NEW t \in Int, c <= t
    PROVE  AtMost(Cutoff(c), Millis(t))
<1>1. DaySecs * SecTicks \in Nat /\ DaySecs * SecTicks >= 1
  BY ApiAssumption, Z3
<1>2. Day(c) <= Day(t) /\ Day(c) \in Int /\ Day(t) \in Int
  BY <1>1, ComparesAsParts, Division DEF Day
<1> DEFINE a == Millis(t)  b == Cutoff(c)
<1>3. Len(a) = 6 /\ a[1] = Day(t) /\ a[2] = Tee /\ Len(b) = 3 /\ b[1] = Day(c) /\ b[2] = Space
  BY DEF Millis, Cutoff
<1> HIDE DEF a, b
<1>4. SUFFICES ASSUME NEW i \in 1 .. 3, \A j \in 1 .. i - 1 : a[j] = b[j], a[i] < b[i]
               PROVE  FALSE
  BY <1>3 DEF AtMost, Less, a, b
<1>5. CASE i = 1
  BY <1>2, <1>3, <1>4, <1>5
<1>6. CASE i = 2
  BY <1>3, <1>4, <1>6 DEF Tee, Space
<1>7. CASE i = 3
  BY <1>3, <1>4, <1>7 DEF Tee, Space
<1> QED
  BY <1>5, <1>6, <1>7

-----------------------------------------------------------------------------
(* Orders of rows.                                                         *)

\* The order puts any two ids one before the other.
Arranges(order, ids) ==
    /\ \A x \in ids : <<x, x>> \notin order
    /\ \A x, y \in ids : x # y => <<x, y>> \in order \/ <<y, x>> \in order
    /\ \A x, y, z \in ids : <<x, y>> \in order /\ <<y, z>> \in order => <<x, z>> \in order

Place(id, ids, order) == Cardinality(Preceding(id, ids, order))

\* An id has a place of its own, behind those of the ids that come before it.
LEMMA Places ==
    ASSUME NEW ids, IsFiniteSet(ids), NEW order, Arranges(order, ids), NEW id \in ids
    PROVE  /\ Cardinality(ids) \in Nat
           /\ Place(id, ids, order) \in 0 .. Cardinality(ids) - 1
           /\ \A other \in ids : <<id, other>> \in order => Place(id, ids, order) < Place(other, ids, order)
<1> DEFINE P(x) == Preceding(x, ids, order)
<1>1. ASSUME NEW x \in ids
      PROVE  IsFiniteSet(P(x)) /\ Cardinality(P(x)) \in Nat /\ P(x) \subseteq ids
  <2>1. P(x) \in SUBSET ids
    BY DEF Preceding
  <2> QED
    BY <2>1, FS_Subset, FS_CardinalityType
<1>2. Cardinality(ids) \in Nat
  BY FS_CardinalityType
<1>3. Cardinality(P(id)) < Cardinality(ids)
  <2>1. P(id) \in SUBSET ids /\ P(id) # ids
    BY <1>1 DEF Arranges, Preceding
  <2>2. Cardinality(P(id)) <= Cardinality(ids) /\ Cardinality(P(id)) # Cardinality(ids)
    BY <2>1, FS_Subset
  <2> QED
    BY <1>1, <1>2, <2>2
<1>4. ASSUME NEW other \in ids, <<id, other>> \in order
      PROVE  Cardinality(P(id)) < Cardinality(P(other))
  <2>1. P(id) \in SUBSET P(other) /\ P(id) # P(other)
    BY <1>4 DEF Arranges, Preceding
  <2>2. Cardinality(P(id)) <= Cardinality(P(other)) /\ Cardinality(P(id)) # Cardinality(P(other))
    BY <1>1, <2>1, FS_Subset
  <2> QED
    BY <1>1, <2>2
<1> HIDE DEF P
<1>5. Cardinality(P(id)) \in 0 .. Cardinality(ids) - 1
  BY <1>1, <1>2, <1>3
<1> QED
  BY <1>2, <1>4, <1>5 DEF Place, P

\* Each place is taken by one id.
LEMMA PlaceTaken ==
    ASSUME NEW ids, IsFiniteSet(ids), NEW order, Arranges(order, ids),
           NEW k \in 0 .. Cardinality(ids) - 1
    PROVE  /\ \E id \in ids : Place(id, ids, order) = k
           /\ \A x, y \in ids : Place(x, ids, order) = Place(y, ids, order) => x = y
<1> DEFINE n == Cardinality(ids)  P(x) == Place(x, ids, order)
<1>1. n \in Nat
  BY FS_CardinalityType
<1>2. ASSUME NEW x \in ids, NEW y \in ids, P(x) = P(y) PROVE x = y
  <2> SUFFICES ASSUME x # y PROVE FALSE
    OBVIOUS
  <2>1. P(x) < P(y) \/ P(y) < P(x)
    BY Places DEF Arranges
  <2>2. P(x) \in Int
    BY Places
  <2> HIDE DEF P
  <2> QED
    BY <1>2, <2>1, <2>2
<1>3. ASSUME \A x \in ids : P(x) # k PROVE FALSE
  <2> DEFINE others == (0 .. n - 1) \ {k}  place == [x \in ids |-> P(x)]
  <2>1. IsFiniteSet(0 .. n - 1) /\ Cardinality(0 .. n - 1) = n
    <3> HIDE DEF n
    <3>1. IsFiniteSet(0 .. n - 1) /\ Cardinality(0 .. n - 1) = IF 0 > n - 1 THEN 0 ELSE n - 1 - 0 + 1
      BY <1>1, FS_Interval
    <3> QED
      BY <1>1, <3>1
  <2>2. IsFiniteSet(others) /\ Cardinality(others) = n - 1
    <3>1. k \in 0 .. n - 1
      OBVIOUS
    <3> HIDE DEF n
    <3> QED
      BY <2>1, <3>1, FS_RemoveElement
  <2>3. place \in [ids -> others]
    <3>1. ASSUME NEW x \in ids PROVE P(x) \in others
      BY <1>3, Places
    <3> HIDE DEF P, others
    <3> QED
      BY <3>1
  <2>4. Cardinality(others) < Cardinality(ids)
    <3> HIDE DEF others
    <3> QED
      BY <1>1, <2>2
  <2>5. \E x, y \in ids : x # y /\ place[x] = place[y]
    <3> HIDE DEF place, others, n
    <3> QED
      BY <2>2, <2>3, <2>4, FS_PigeonHole
  <2> QED
    BY <1>2, <2>5
<1> QED
  BY <1>2, <1>3

\* What is asked of LIMIT: s is in the order, holds no id twice, and leaves out only
\* what comes after all of it.
AreFirst(s, limit, ids, order) ==
    /\ s \in Seq(ids)
    /\ Len(s) = IF Cardinality(ids) <= limit THEN Cardinality(ids) ELSE limit
    /\ \A i \in 1 .. Len(s) : s[i] \in ids
    /\ \A i, j \in 1 .. Len(s) : i < j => s[i] # s[j] /\ <<s[i], s[j]>> \in order
    /\ \A id \in ids :
         \/ \E i \in 1 .. Len(s) : s[i] = id
         \/ Len(s) = limit /\ \A i \in 1 .. Len(s) : <<s[i], id>> \in order

LEMMA FirstOf ==
    ASSUME NEW ids, IsFiniteSet(ids), NEW order, Arranges(order, ids), NEW limit \in Nat
    PROVE  AreFirst(First(limit, ids, order), limit, ids, order)
<1> DEFINE s == First(limit, ids, order)  n == Cardinality(ids)  P(x) == Place(x, ids, order)
           m == IF n <= limit THEN n ELSE limit
<1>1. n \in Nat
  BY FS_CardinalityType
<1>2. m \in Nat /\ m <= n /\ m <= limit /\ (m = n \/ m = limit)
  <2> HIDE DEF n
  <2> QED
    BY <1>1
<1>3. s = [k \in 1 .. m |-> CHOOSE id \in ids : P(id) = k - 1]
  BY DEF First, Place
<1>4. Len(s) = m
  <2> HIDE DEF s, m, P
  <2> QED
    BY <1>2, <1>3
<1>5. ASSUME NEW k \in 1 .. m PROVE s[k] \in ids /\ P(s[k]) = k - 1
  <2>1. k - 1 \in 0 .. n - 1
    <3> HIDE DEF m, n
    <3> QED
      BY <1>1, <1>2
  <2>2. \E id \in ids : P(id) = k - 1
    BY <2>1, PlaceTaken
  <2>3. s[k] = CHOOSE id \in ids : P(id) = k - 1
    <3> HIDE DEF s, m, P
    <3> QED
      BY <1>3
  <2> HIDE DEF s, P
  <2> QED
    BY <2>2, <2>3
<1>6. ASSUME NEW x \in ids, NEW y \in ids, P(x) < P(y) PROVE x # y /\ <<x, y>> \in order
  <2>1. P(x) \in Int /\ P(y) \in Int
    BY Places
  <2>2. <<y, x>> \in order => P(y) < P(x)
    BY Places
  <2> HIDE DEF P
  <2>3. x # y
    BY <1>6, <2>1
  <2>4. <<y, x>> \notin order
    BY <1>6, <2>1, <2>2
  <2> QED
    BY <2>3, <2>4 DEF Arranges
<1>7. ASSUME NEW x \in ids, \A i \in 1 .. m : s[i] # x
      PROVE  m = limit /\ \A i \in 1 .. m : <<s[i], x>> \in order
  <2>1. P(x) \in 0 .. n - 1
    BY Places
  <2>2. ~(P(x) + 1 \in 1 .. m)
    <3> SUFFICES ASSUME P(x) + 1 \in 1 .. m PROVE FALSE
      OBVIOUS
    <3>1. PICK k \in 1 .. m : k = P(x) + 1
      OBVIOUS
    <3>2. s[k] \in ids /\ P(s[k]) = P(x)
      <4>1. s[k] \in ids /\ P(s[k]) = k - 1
        BY <1>5
      <4> HIDE DEF s, P, n
      <4> QED
        BY <2>1, <3>1, <4>1, <1>1
    <3>3. s[k] = x
      BY <2>1, <3>2, PlaceTaken
    <3> QED
      BY <1>7, <3>3
  <2> HIDE DEF P, n, m, s
  <2>3. m <= P(x)
    BY <1>1, <1>2, <2>1, <2>2
  <2>4. m = limit
    BY <1>1, <1>2, <2>1, <2>3
  <2>5. ASSUME NEW i \in 1 .. m PROVE <<s[i], x>> \in order
    <3>1. s[i] \in ids /\ P(s[i]) = i - 1
      BY <1>5
    <3>2. P(s[i]) < P(x)
      BY <1>1, <1>2, <2>1, <2>3, <3>1
    <3> QED
      BY <1>6, <3>1, <3>2
  <2> QED
    BY <2>4, <2>5
<1>8. ASSUME NEW i \in 1 .. m, NEW j \in 1 .. m, i < j
      PROVE  s[i] # s[j] /\ <<s[i], s[j]>> \in order
  <2>1. s[i] \in ids /\ P(s[i]) = i - 1 /\ s[j] \in ids /\ P(s[j]) = j - 1
    BY <1>5
  <2> HIDE DEF P, s, m
  <2>2. P(s[i]) < P(s[j])
    BY <1>2, <1>8, <2>1
  <2> QED
    BY <1>6, <2>1, <2>2
<1>9. s \in Seq(ids)
  <2>1. ASSUME NEW k \in 1 .. m PROVE (CHOOSE id \in ids : P(id) = k - 1) \in ids
    <3>1. s[k] = CHOOSE id \in ids : P(id) = k - 1
      <4> HIDE DEF s, m, P
      <4> QED
        BY <1>3
    <3> QED
      BY <1>5, <3>1
  <2> HIDE DEF s, m, P
  <2>2. s \in [1 .. m -> ids]
    BY <1>3, <2>1
  <2> QED
    BY <1>2, <2>2, SeqDef
<1> HIDE DEF s, P
<1> QED
  BY <1>4, <1>5, <1>7, <1>8, <1>9 DEF s, AreFirst

\* Rows carry times of the model, and there are no more than MaxRows.
THEOREM ApiTyped == ApiSpec => []ApiTypeOK
<1>1. ApiInit => ApiTypeOK
  BY ApiAssumption DEF ApiInit, ApiTypeOK
<1>2. ApiTypeOK /\ [ApiNext]_apiVars => ApiTypeOK'
  <2> SUFFICES ASSUME ApiTypeOK, [ApiNext]_apiVars PROVE ApiTypeOK'
    OBVIOUS
  <2> USE ApiAssumption DEF ApiTypeOK
  <2>1. CASE InsertEvent
    <3>1. PICK a \in Assets : events' = Append(events, [asset |-> a, t |-> now])
      BY <2>1 DEF InsertEvent
    <3>2. events' \in Seq([asset : Assets, t : 0 .. MaxTime]) /\ Len(events') = Len(events) + 1
      BY <3>1
    <3>3. Len(events) \in Nat /\ Len(alarms) \in Nat
      OBVIOUS
    <3> QED
      BY <2>1, <3>2, <3>3 DEF InsertEvent, Full
  <2>2. CASE InsertAlarm
    <3>1. PICK a \in Assets : alarms' = Append(alarms, a)
      BY <2>2 DEF InsertAlarm
    <3>2. alarms' \in Seq(Assets) /\ Len(alarms') = Len(alarms) + 1
      BY <3>1
    <3>3. Len(events) \in Nat /\ Len(alarms) \in Nat
      OBVIOUS
    <3> QED
      BY <2>2, <3>2, <3>3 DEF InsertAlarm, Full
  <2>3. CASE Tick
    BY <2>3 DEF Tick
  <2>4. CASE ClockIsSet
    BY <2>4 DEF ClockIsSet
  <2>5. CASE UNCHANGED apiVars
    BY <2>5 DEF apiVars
  <2> QED
    BY <2>1, <2>2, <2>3, <2>4, <2>5 DEF ApiNext
<1> QED
  BY <1>1, <1>2, PTL DEF ApiSpec

\* A row is of an asset and of a time of the model.
LEMMA Rows ==
    ASSUME ApiTypeOK
    PROVE  /\ Len(events) \in Nat /\ Len(alarms) \in Nat
           /\ \A id \in 1 .. Len(events) :
                events[id].asset \in Assets /\ events[id].t \in 0 .. MaxTime /\ events[id].t \in Int
           /\ \A a : RowsOf(a) \subseteq 1 .. Len(events)
<1>1. Len(events) \in Nat /\ Len(alarms) \in Nat
  BY LenProperties DEF ApiTypeOK
<1>2. ASSUME NEW id \in 1 .. Len(events)
      PROVE  events[id].asset \in Assets /\ events[id].t \in 0 .. MaxTime /\ events[id].t \in Int
  <2>1. events[id] \in [asset : Assets, t : 0 .. MaxTime]
    BY ElementOfSeq DEF ApiTypeOK
  <2> QED
    BY <2>1, ApiAssumption
<1>3. \A a : RowsOf(a) \subseteq 1 .. Len(events)
  BY DEF RowsOf
<1> QED
  BY <1>1, <1>2, <1>3

\* A set of ids of a table is finite.
LEMMA IdsFinite ==
    ASSUME NEW n \in Nat, NEW ids \in SUBSET (1 .. n)
    PROVE  IsFiniteSet(ids) /\ Cardinality(ids) \in Nat
<1>1. IsFiniteSet(1 .. n)
  BY FS_Interval
<1> QED
  BY <1>1, FS_Subset, FS_CardinalityType

\* ORDER BY id DESC.
LEMMA NewestFirstArranges ==
    ASSUME NEW n \in Nat, NEW ids \in SUBSET (1 .. n)
    PROVE  /\ Arranges(NewestFirst(ids), ids)
           /\ \A x, y \in ids : <<x, y>> \in NewestFirst(ids) <=> x > y
<1>1. ASSUME NEW x \in ids, NEW y \in ids
      PROVE  <<x, y>> \in NewestFirst(ids) <=> x > y
  BY DEF NewestFirst
<1>2. \A x \in ids : x \in Int
  OBVIOUS
<1> QED
  BY <1>1, <1>2 DEF Arranges

\* ORDER BY ts_utc is the order of time, and of ids at one time.
LEMMA ByTextArranges ==
    ASSUME ApiTypeOK, NEW ids \in SUBSET (1 .. Len(events))
    PROVE  /\ Arranges(ByText(ids), ids)
           /\ \A x, y \in ids : <<x, y>> \in ByText(ids) =>
                x # y /\ events[x].t <= events[y].t
           /\ \A x, y \in ids : events[x].t < events[y].t => <<x, y>> \in ByText(ids)
<1>1. ASSUME NEW x \in ids
      PROVE  x \in Int /\ events[x].t \in Int
  BY Rows
<1>2. ASSUME NEW x \in ids, NEW y \in ids
      PROVE  /\ Less(Text(x), Text(y)) <=> events[x].t < events[y].t
             /\ Text(x) = Text(y) <=> events[x].t = events[y].t
  <2>1. Less(Text(x), Text(y)) <=> events[x].t < events[y].t
    BY <1>1, MillisSortAsTimes DEF Text
  <2>2. Less(Text(y), Text(x)) <=> events[y].t < events[x].t
    BY <1>1, MillisSortAsTimes DEF Text
  <2>3. Less(Text(x), Text(x)) <=> events[x].t < events[x].t
    BY <1>1, MillisSortAsTimes DEF Text
  <2>4. ~(events[x].t < events[x].t)
    BY <1>1
  <2>5. Text(x) = Text(y) => ~Less(Text(x), Text(y)) /\ ~Less(Text(y), Text(x))
    BY <2>3, <2>4
  <2>6. events[x].t = events[y].t => Text(x) = Text(y)
    BY DEF Text
  <2>7. ~(events[x].t < events[y].t) /\ ~(events[y].t < events[x].t) => events[x].t = events[y].t
    BY <1>1
  <2> QED
    BY <2>1, <2>2, <2>5, <2>6, <2>7, Zenon
<1>3. ASSUME NEW x \in ids, NEW y \in ids
      PROVE  <<x, y>> \in ByText(ids) <=>
               \/ events[x].t < events[y].t
               \/ events[x].t = events[y].t /\ x < y
  BY <1>2 DEF ByText
<1> DEFINE T(x) == events[x].t
<1>4. \A x \in ids : x \in Int /\ T(x) \in Int
  BY <1>1
<1>5. \A x, y \in ids : <<x, y>> \in ByText(ids) <=> (T(x) < T(y) \/ (T(x) = T(y) /\ x < y))
  BY <1>3
<1> HIDE DEF T
<1>6. Arranges(ByText(ids), ids)
  <2>1. \A x \in ids : <<x, x>> \notin ByText(ids)
    BY <1>4, <1>5
  <2>2. \A x, y \in ids : x # y => <<x, y>> \in ByText(ids) \/ <<y, x>> \in ByText(ids)
    BY <1>4, <1>5
  <2>3. \A x, y, z \in ids : <<x, y>> \in ByText(ids) /\ <<y, z>> \in ByText(ids) => <<x, z>> \in ByText(ids)
    BY <1>4, <1>5
  <2> QED
    BY <2>1, <2>2, <2>3 DEF Arranges
<1>7. \A x, y \in ids : <<x, y>> \in ByText(ids) => x # y /\ T(x) <= T(y)
  BY <1>4, <1>5
<1>8. \A x, y \in ids : T(x) < T(y) => <<x, y>> \in ByText(ids)
  BY <1>5
<1> QED
  BY <1>6, <1>7, <1>8 DEF T

\* /oee counts every row of its window, for any lengths of day and second, any span
\* and any setting of the clock while the rows were stored (api.py:83-87).
THEOREM OeeIsComplete == ApiSpec => []OeeMissesNothing
<1>1. ApiTypeOK => OeeMissesNothing
  <2> SUFFICES ASSUME ApiTypeOK, NEW a \in Assets, NEW span \in Windows, NEW id \in RowsOf(a),
                      events[id].t >= now - span * SecTicks
               PROVE  id \in Oee(a, span)
    BY DEF OeeMissesNothing
  <2>1. span \in Nat /\ SecTicks \in Nat /\ now \in Nat
    BY ApiAssumption DEF Windows, ApiTypeOK
  <2>2. now - span * SecTicks \in Int
    BY <2>1
  <2>3. events[id].t \in Int
    BY Rows
  <2>4. AtMost(Cutoff(now - span * SecTicks), Millis(events[id].t))
    BY <2>2, <2>3, NothingBeforeCutoff
  <2> QED
    BY <2>4 DEF Oee, Text
<1> QED
  BY <1>1, ApiTyped, PTL

\* What AtMost says of two times as the rows are written.
LEMMA AtMostMillis ==
    ASSUME NEW t \in Int, NEW u \in Int
    PROVE  AtMost(Millis(t), Millis(u)) <=> t <= u
<1>1. Less(Millis(u), Millis(t)) <=> u < t
  BY MillisSortAsTimes
<1>2. ~(u < t) <=> t <= u
  OBVIOUS
<1> QED
  BY <1>1, <1>2 DEF AtMost

\* In the notation of the rows, /history's answer is the rows in the range, in order.
LEMMA HistoryInMillis ==
    ASSUME ApiTypeOK, NEW a \in Assets, NEW from, NEW to,
           from.format = "millis", to.format = "millis", from.t \in Int, to.t \in Int
    PROVE  LET inRange == {id \in RowsOf(a) : from.t <= events[id].t /\ events[id].t <= to.t}
           IN  /\ History(a, from, to).ok <=> from.t <= to.t
               /\ from.t <= to.t => History(a, from, to).found = First(Limit, inRange, ByText(inRange))
<1> DEFINE inRange == {id \in RowsOf(a) : from.t <= events[id].t /\ events[id].t <= to.t}
           low == Notation(from.t, from.format)  high == Notation(to.t, to.format)
           between == {id \in RowsOf(a) : AtMost(low, Text(id)) /\ AtMost(Text(id), high)}
<1>1. low = Millis(from.t) /\ high = Millis(to.t)
  BY DEF Notation
<1>2. Less(high, low) <=> to.t < from.t
  BY <1>1, MillisSortAsTimes
<1>3. between = inRange
  <2>1. ASSUME NEW id \in RowsOf(a)
        PROVE  AtMost(low, Text(id)) /\ AtMost(Text(id), high) <=> from.t <= events[id].t /\ events[id].t <= to.t
    <3>1. events[id].t \in Int
      BY Rows
    <3> QED
      BY <1>1, <3>1, AtMostMillis DEF Text
  <2> QED
    BY <2>1
<1>4. to.t < from.t <=> ~(from.t <= to.t)
  OBVIOUS
<1>5. History(a, from, to) = IF Less(high, low) THEN [ok |-> FALSE]
                             ELSE [ok |-> TRUE, found |-> First(Limit, between, ByText(between))]
  BY DEF History
<1> HIDE DEF low, high, between, inRange
<1> QED
  BY <1>2, <1>3, <1>4, <1>5 DEF inRange

\* /history is exact for times written as the rows are, for any limit and any table,
\* in whatever order of times it was filled (api.py:58-68).
THEOREM HistoryIsExact == ApiSpec => []HistoryExactInMillis
<1>1. ApiTypeOK => HistoryExactInMillis
  <2> SUFFICES ASSUME ApiTypeOK, Formats = {"millis"}, NEW a \in Assets, NEW from \in Params, NEW to \in Params
               PROVE  /\ History(a, from, to).ok <=> from.t <= to.t
                      /\ History(a, from, to).ok => IsHistory(History(a, from, to).found, a, from.t, to.t)
    BY DEF HistoryExactInMillis
  <2>1. ASSUME NEW p \in Params PROVE p.t \in Int /\ p.format = "millis"
    BY ApiAssumption DEF Params
  <2> DEFINE inRange == {id \in RowsOf(a) : from.t <= events[id].t /\ events[id].t <= to.t}
             s == First(Limit, inRange, ByText(inRange))
  <2>2. /\ History(a, from, to).ok <=> from.t <= to.t
        /\ from.t <= to.t => History(a, from, to).found = s
    BY <2>1, HistoryInMillis
  <2>3. inRange \in SUBSET (1 .. Len(events)) /\ Len(events) \in Nat
    BY Rows
  <2>4. IsFiniteSet(inRange) /\ Limit \in Nat
    BY <2>3, IdsFinite, ApiAssumption
  <2>5. /\ Arranges(ByText(inRange), inRange)
        /\ \A x, y \in inRange : <<x, y>> \in ByText(inRange) => x # y /\ events[x].t <= events[y].t
    BY <2>3, ByTextArranges
  <2>6. AreFirst(s, Limit, inRange, ByText(inRange)) /\ Cardinality(inRange) \in Nat
    <3>1. Cardinality(inRange) \in Nat
      BY <2>3, IdsFinite
    <3> HIDE DEF inRange
    <3> QED
      BY <2>4, <2>5, <3>1, FirstOf
  <2> HIDE DEF s
  <2>7. IsHistory(s, a, from.t, to.t)
    <3> USE <2>6 DEF AreFirst
    <3>1. Len(s) <= Limit
      BY <2>4
    <3>2. \A i, j \in 1 .. Len(s) : i < j => s[i] # s[j] /\ events[s[i]].t <= events[s[j]].t
      BY <2>5
    <3>3. \A id \in inRange :
             \/ \E i \in 1 .. Len(s) : s[i] = id
             \/ Len(s) = Limit /\ \A i \in 1 .. Len(s) : events[s[i]].t <= events[id].t
      BY <2>5
    <3> QED
      BY <3>1, <3>2, <3>3 DEF IsHistory
  <2> QED
    BY <2>2, <2>7
<1> QED
  BY <1>1, ApiTyped, PTL

\* MAX(ts_utc) is the time of a row, and of none a later one.
LEMMA LatestIs ==
    ASSUME ApiTypeOK, NEW ids \in SUBSET (1 .. Len(events)), ids # {}
    PROVE  /\ \E id \in ids : events[id].t = Latest(ids)
           /\ \A id \in ids : events[id].t <= Latest(ids)
<1> DEFINE order == ByText(ids)  n == Cardinality(ids)  T(x) == events[x].t
<1>1. Len(events) \in Nat /\ \A id \in ids : T(id) \in Int
  BY Rows
<1>2. IsFiniteSet(ids) /\ n \in Nat
  BY <1>1, IdsFinite
<1>3. n >= 1
  BY <1>2, FS_EmptySet
<1>4. Arranges(order, ids) /\ \A x, y \in ids : T(x) < T(y) => <<x, y>> \in order
  BY ByTextArranges
<1>5. PICK newest \in ids : Place(newest, ids, order) = n - 1
  <2>1. PICK k \in 0 .. n - 1 : k = n - 1
    BY <1>2, <1>3
  <2>2. Arranges(order, ids)
    BY <1>4
  <2> HIDE DEF order, T
  <2>3. /\ \E id \in ids : Place(id, ids, order) = k
        /\ \A x, y \in ids : Place(x, ids, order) = Place(y, ids, order) => x = y
    BY <1>2, <2>2, PlaceTaken
  <2> QED
    BY <2>1, <2>3
<1>6. ASSUME NEW id \in ids PROVE T(id) <= T(newest)
  <2>1. Place(id, ids, order) \in 0 .. n - 1
    <3> HIDE DEF order
    <3> QED
      BY <1>2, <1>4, Places
  <2>2. <<newest, id>> \in order => n - 1 < Place(id, ids, order)
    <3> HIDE DEF order
    <3> QED
      BY <1>2, <1>4, <1>5, Places
  <2>3. ~(T(newest) < T(id))
    BY <1>2, <1>4, <2>1, <2>2
  <2>4. T(newest) \in Int /\ T(id) \in Int
    BY <1>1
  <2> HIDE DEF T, order, n
  <2> QED
    BY <2>3, <2>4
<1>7. \A t \in {T(id) : id \in ids} :
        (\A id \in ids : AtMost(Text(id), Millis(t))) <=> \A id \in ids : T(id) <= t
  BY <1>1, AtMostMillis DEF Text
<1>8. \E t \in {T(id) : id \in ids} : \A id \in ids : AtMost(Text(id), Millis(t))
  BY <1>6, <1>7
<1>9. Latest(ids) = CHOOSE t \in {T(id) : id \in ids} : \A id \in ids : AtMost(Text(id), Millis(t))
  BY DEF Latest
<1>10. Latest(ids) \in {T(id) : id \in ids} /\ \A id \in ids : AtMost(Text(id), Millis(Latest(ids)))
  BY <1>8, <1>9
<1> QED
  BY <1>7, <1>10

\* Of a set of rows that has one, /state's is the row of the largest id.
LEMMA StateIs ==
    ASSUME ApiTypeOK, NEW a
    PROVE  /\ State(a).ok <=> RowsOf(a) # {}
           /\ State(a).ok => \E newest \in RowsOf(a) :
                State(a).t = events[newest].t /\ \A id \in RowsOf(a) : id <= newest
<1> DEFINE ids == RowsOf(a)  s == First(1, ids, NewestFirst(ids))
<1>1. ids \in SUBSET (1 .. Len(events)) /\ Len(events) \in Nat
  BY Rows
<1>2. IsFiniteSet(ids) /\ Cardinality(ids) \in Nat
  BY <1>1, IdsFinite
<1>3. Arranges(NewestFirst(ids), ids) /\ \A x, y \in ids : <<x, y>> \in NewestFirst(ids) <=> x > y
  BY <1>1, NewestFirstArranges
<1>4. State(a) = IF s = <<>> THEN [ok |-> FALSE] ELSE [ok |-> TRUE, t |-> events[s[1]].t]
  BY DEF State
<1>5. AreFirst(s, 1, ids, NewestFirst(ids))
  <2> HIDE DEF ids
  <2> QED
    BY <1>2, <1>3, FirstOf
<1> HIDE DEF s
<1>6. ASSUME ids = {} PROVE s = <<>>
  <2>1. Cardinality(ids) = 0
    BY <1>6, FS_EmptySet
  <2> HIDE DEF ids
  <2>2. s \in Seq(ids) /\ Len(s) = 0
    BY <1>5, <2>1 DEF AreFirst
  <2> QED
    BY <2>2, EmptySeq
<1>7. ASSUME ids # {}
      PROVE  s # <<>> /\ s[1] \in ids /\ \A id \in ids : id <= s[1]
  <2>1. Cardinality(ids) >= 1
    BY <1>2, <1>7, FS_EmptySet
  <2>3. \A id \in ids : id \in Int
    BY <1>1
  <2> HIDE DEF ids
  <2>4. Len(s) = 1 /\ \A i \in 1 .. Len(s) : i = 1
    BY <1>2, <1>5, <2>1 DEF AreFirst
  <2>5. 1 \in 1 .. Len(s) /\ s[1] \in ids
    BY <1>5, <2>4 DEF AreFirst
  <2>6. \A id \in ids : s[1] = id \/ s[1] > id
    <3>1. ASSUME NEW id \in ids PROVE s[1] = id \/ <<s[1], id>> \in NewestFirst(ids)
      BY <1>5, <2>4, <2>5 DEF AreFirst
    <3> QED
      BY <1>3, <2>5, <3>1
  <2>7. s # <<>>
    BY <2>4
  <2> QED
    BY <2>3, <2>5, <2>6, <2>7
<1> QED
  BY <1>4, <1>6, <1>7

\* Until the clock is set, rows are stored in the order of their times.
TimesAscend ==
    settings = MaxSettings =>
        \A id \in 1 .. Len(events) :
            events[id].t <= now /\ \A later \in id .. Len(events) : events[id].t <= events[later].t

LEMMA TimesAscending == ApiSpec => []TimesAscend
<1>1. ApiInit => TimesAscend
  BY DEF ApiInit, TimesAscend
<1>2. ApiTypeOK /\ TimesAscend /\ [ApiNext]_apiVars => TimesAscend'
  <2> SUFFICES ASSUME ApiTypeOK, TimesAscend, [ApiNext]_apiVars PROVE TimesAscend'
    OBVIOUS
  <2>1. now \in Int /\ settings \in Int /\ settings <= MaxSettings /\ MaxSettings \in Int
    BY ApiAssumption DEF ApiTypeOK
  <2>2. CASE InsertEvent
    <3>1. PICK a \in Assets : events' = Append(events, [asset |-> a, t |-> now])
      BY <2>2 DEF InsertEvent
    <3>2. Len(events) \in Nat /\ Len(events') = Len(events) + 1
      BY <3>1 DEF ApiTypeOK
    <3>3. /\ \A id \in 1 .. Len(events) : events'[id] = events[id]
          /\ events'[Len(events) + 1].t = now
      BY <3>1 DEF ApiTypeOK
    <3>4. SUFFICES ASSUME settings = MaxSettings
                   PROVE  \A id \in 1 .. Len(events') :
                            /\ events'[id].t <= now
                            /\ \A later \in id .. Len(events') : events'[id].t <= events'[later].t
      BY <2>2 DEF InsertEvent, TimesAscend
    <3>5. \A id \in 1 .. Len(events) :
            events[id].t <= now /\ \A later \in id .. Len(events) : events[id].t <= events[later].t
      BY <3>4 DEF TimesAscend
    <3> DEFINE n == Len(events)  T(x) == events[x].t  U(x) == events'[x].t
    <3>6. n \in Nat /\ U(n + 1) = now /\ \A id \in 1 .. n : U(id) = T(id)
      BY <3>2, <3>3
    <3>7. \A id \in 1 .. n : T(id) <= now /\ \A later \in id .. n : T(id) <= T(later)
      BY <3>5
    <3> HIDE DEF n, T, U
    <3>8. \A id \in 1 .. n + 1 : U(id) <= now /\ \A later \in id .. n + 1 : U(id) <= U(later)
      <4> SUFFICES ASSUME NEW id \in 1 .. n + 1
                   PROVE  U(id) <= now /\ \A later \in id .. n + 1 : U(id) <= U(later)
        OBVIOUS
      <4>1. CASE id = n + 1
        BY <2>1, <3>6, <4>1
      <4>2. CASE id # n + 1
        <5>1. id \in 1 .. n
          BY <3>6, <4>2
        <5>2. U(id) <= now
          BY <3>6, <3>7, <5>1
        <5>3. ASSUME NEW later \in id .. n + 1 PROVE U(id) <= U(later)
          <6>1. CASE later = n + 1
            BY <3>6, <5>2, <6>1
          <6>2. CASE later # n + 1
            <7>1. later \in id .. n /\ later \in 1 .. n
              BY <3>6, <5>1, <6>2
            <7> QED
              BY <3>6, <3>7, <5>1, <7>1
          <6> QED
            BY <6>1, <6>2
        <5> QED
          BY <5>2, <5>3
      <4> QED
        BY <4>1, <4>2
    <3> QED
      BY <3>2, <3>8 DEF n, U
  <2>3. CASE InsertAlarm
    BY <2>3 DEF InsertAlarm, TimesAscend
  <2>4. CASE Tick
    <3>1. \A id \in 1 .. Len(events) : events[id].t \in Int
      BY Rows
    <3>2. now' = now + 1 /\ UNCHANGED <<settings, events>>
      BY <2>4 DEF Tick
    <3>3. \A id \in 1 .. Len(events) : events[id].t <= now => events[id].t <= now'
      BY <2>1, <3>1, <3>2
    <3> QED
      BY <3>2, <3>3 DEF TimesAscend
  <2>5. CASE ClockIsSet
    <3>1. settings' # MaxSettings
      BY <2>1, <2>5, ApiAssumption DEF ClockIsSet
    <3> QED
      BY <3>1, ApiAssumption DEF TimesAscend
  <2>6. CASE UNCHANGED apiVars
    BY <2>6 DEF apiVars, TimesAscend
  <2> QED
    BY <2>2, <2>3, <2>4, <2>5, <2>6 DEF ApiNext
<1> QED
  BY <1>1, <1>2, ApiTyped, PTL DEF ApiSpec

LEMMA NewestAgree ==
    ASSUME ApiTypeOK, TimesAscend, NEW a \in Assets
    PROVE  NewestAgrees(a)
<1> DEFINE ids == RowsOf(a)  all == 1 .. Len(events)
           low == [t |-> 0, format |-> "millis"]  high == [t |-> MaxTime, format |-> "millis"]
           found == History(a, low, high).found  T(x) == events[x].t
<1>1. ids \in SUBSET all /\ Len(events) \in Nat /\ \A id \in all : T(id) \in 0 .. MaxTime /\ T(id) \in Int
  BY Rows
<1>2. IsFiniteSet(ids) /\ Cardinality(ids) \in Nat /\ Limit \in Nat /\ MaxTime \in Nat
  BY <1>1, IdsFinite, ApiAssumption
<1>3. a \in DOMAIN AssetsList <=> ids # {}
  BY DEF AssetsList, RowsOf
<1>4. State(a).ok <=> ids # {}
  BY StateIs
<1>5. SUFFICES ASSUME ids # {}
      PROVE  /\ State(a).t <= AssetsList[a].last /\ AssetsList[a].last <= About.last
             /\ settings = MaxSettings => State(a).t = AssetsList[a].last
             /\ Len(found) <= AssetsList[a].events
             /\ Len(found) < Limit => T(found[Len(found)]) = AssetsList[a].last
  <2> HIDE DEF ids
  <2> QED
    BY <1>3, <1>4, <1>5 DEF NewestAgrees
<1>6. /\ AssetsList[a].last = Latest(ids) /\ AssetsList[a].events = Cardinality(ids)
      /\ About.last = Latest(all)
  BY <1>3, <1>5 DEF AssetsList, Summary, About
<1>7. /\ \E id \in ids : T(id) = Latest(ids)
      /\ \A id \in ids : T(id) <= Latest(ids)
  BY <1>1, <1>5, LatestIs
<1>8. \A id \in all : T(id) <= Latest(all)
  BY <1>1, <1>5, LatestIs
<1>9. PICK newest \in ids : State(a).t = T(newest) /\ \A id \in ids : id <= newest
  BY <1>4, <1>5, StateIs
<1>10. PICK at \in ids : T(at) = Latest(ids)
  BY <1>7
<1>11. T(newest) <= Latest(ids) /\ Latest(ids) <= Latest(all)
  BY <1>1, <1>7, <1>8, <1>10
<1>12. ASSUME settings = MaxSettings PROVE T(newest) = Latest(ids)
  <2>1. at \in all /\ newest \in at .. Len(events)
    BY <1>1, <1>9, <1>10
  <2>2. T(at) <= T(newest)
    BY <1>12, <2>1 DEF TimesAscend
  <2>3. T(at) \in Int /\ T(newest) \in Int
    BY <1>1
  <2> HIDE DEF T, ids
  <2> QED
    BY <1>10, <1>11, <2>2, <2>3
<1>13. found = First(Limit, ids, ByText(ids))
  <2> DEFINE inRange == {id \in ids : low.t <= events[id].t /\ events[id].t <= high.t}
  <2>1. low.t = 0 /\ high.t = MaxTime /\ low.format = "millis" /\ high.format = "millis"
    OBVIOUS
  <2>2. low.t \in Int /\ high.t \in Int /\ low.t <= high.t
    BY <1>2, <2>1
  <2> HIDE DEF low, high
  <2>3. found = First(Limit, inRange, ByText(inRange))
    BY <2>1, <2>2, HistoryInMillis
  <2>4. inRange = ids
    <3>1. \A id \in ids : low.t <= T(id) /\ T(id) <= high.t
      BY <1>1, <1>2, <2>1
    <3> QED
      BY <3>1
  <2> HIDE DEF inRange
  <2> QED
    BY <2>3, <2>4
<1>14. /\ Arranges(ByText(ids), ids)
       /\ \A x, y \in ids : <<x, y>> \in ByText(ids) => T(x) <= T(y)
  BY <1>1, ByTextArranges
<1> HIDE DEF found, ids
<1>15. AreFirst(found, Limit, ids, ByText(ids))
  BY <1>2, <1>13, <1>14, FirstOf
<1>16. Len(found) \in Nat /\ Len(found) <= Cardinality(ids)
  BY <1>2, <1>15 DEF AreFirst
<1>17. ASSUME Len(found) < Limit PROVE T(found[Len(found)]) = Latest(ids)
  <2>1. PICK i \in 1 .. Len(found) : found[i] = at
    BY <1>2, <1>15, <1>16, <1>17 DEF AreFirst
  <2>2. Len(found) \in 1 .. Len(found) /\ (i = Len(found) \/ i < Len(found))
    BY <1>16
  <2>3. found[Len(found)] \in ids /\ (found[Len(found)] = at \/ <<at, found[Len(found)]>> \in ByText(ids))
    BY <1>15, <2>1, <2>2 DEF AreFirst
  <2>4. T(at) <= T(found[Len(found)]) /\ T(found[Len(found)]) <= Latest(ids)
    <3>1. T(at) \in Int
      BY <1>1
    <3> HIDE DEF T
    <3> QED
      BY <1>7, <1>14, <2>3, <3>1
  <2>5. T(at) \in Int /\ T(found[Len(found)]) \in Int
    BY <1>1, <2>3
  <2> HIDE DEF T
  <2> QED
    BY <1>10, <2>4, <2>5
<1> QED
  BY <1>6, <1>9, <1>11, <1>12, <1>16, <1>17

LEMMA AlarmsAreFromNewest ==
    ASSUME ApiTypeOK, NEW a \in Assets, NEW limit \in 1 .. MaxAlarms
    PROVE  AlarmsFromNewest(a, limit)
<1> DEFINE mine == {id \in 1 .. Len(alarms) : alarms[id] = a}  s == First(limit, mine, NewestFirst(mine))
<1>1. Len(alarms) \in Nat /\ mine \in SUBSET (1 .. Len(alarms))
  BY Rows
<1>2. /\ IsFiniteSet(mine) /\ Cardinality(mine) \in Nat
      /\ MaxAlarms \in Nat /\ limit \in Nat /\ limit >= 1 /\ limit <= MaxAlarms
  <2> HIDE DEF mine
  <2>1. IsFiniteSet(mine) /\ Cardinality(mine) \in Nat
    BY <1>1, IdsFinite
  <2> QED
    BY <2>1, ApiAssumption
<1>3. Arranges(NewestFirst(mine), mine) /\ \A x, y \in mine : <<x, y>> \in NewestFirst(mine) <=> x > y
  BY <1>1, NewestFirstArranges
<1>4. Alarms(a, limit).ids = s
  <2>1. ~(limit < 1 \/ limit > MaxAlarms)
    BY <1>2
  <2> HIDE DEF s
  <2>2. Alarms(a, limit) = [ok |-> TRUE, ids |-> s]
    BY <2>1 DEF Alarms, s
  <2> QED
    BY <2>2
<1>5. AreFirst(s, limit, mine, NewestFirst(mine))
  <2> HIDE DEF mine
  <2> QED
    BY <1>2, <1>3, FirstOf
<1> HIDE DEF s
<1>6. \A i, j \in 1 .. Len(s) : i < j => s[i] > s[j]
  BY <1>3, <1>5 DEF AreFirst
<1>7. ASSUME NEW id \in 1 .. Len(alarms), alarms[id] = a, \A i \in 1 .. Len(s) : s[i] # id
      PROVE  Len(s) = limit /\ id < s[limit]
  <2>1. id \in mine /\ id \in Int
    BY <1>7
  <2>2. Len(s) = limit /\ \A i \in 1 .. Len(s) : <<s[i], id>> \in NewestFirst(mine)
    BY <1>5, <1>7, <2>1 DEF AreFirst
  <2>3. limit \in 1 .. Len(s)
    BY <1>2, <2>2
  <2>4. s[limit] \in mine /\ s[limit] > id
    BY <1>3, <1>5, <2>1, <2>2, <2>3 DEF AreFirst
  <2>5. s[limit] \in Int
    BY <1>1, <2>4
  <2> HIDE DEF mine
  <2> QED
    BY <2>1, <2>2, <2>4, <2>5
<1> QED
  BY <1>4, <1>6, <1>7 DEF AlarmsFromNewest

\* A row's asset and its place among the rows of that asset say which row it is.
LEMMA CountsDo ==
    ASSUME ApiTypeOK
    PROVE  CountsAddUp
<1> DEFINE all == 1 .. Len(events)
           P(id, a) == Place(id, RowsOf(a), NewestFirst(RowsOf(a))) + 1
           A(id) == events[id].asset
           listed == UNION {{a} \X (1 .. AssetsList[a].events) : a \in DOMAIN AssetsList}
           f == [id \in all |-> <<A(id), P(id, A(id))>>]
<1>1. Len(events) \in Nat /\ IsFiniteSet(all)
  BY Rows, FS_Interval
<1>2. ASSUME NEW a
      PROVE  /\ \A id \in RowsOf(a) : P(id, a) \in 1 .. Cardinality(RowsOf(a))
             /\ \A k \in 1 .. Cardinality(RowsOf(a)) : \E id \in RowsOf(a) : P(id, a) = k
             /\ \A x, y \in RowsOf(a) : P(x, a) = P(y, a) => x = y
  <2> DEFINE ids == RowsOf(a)  order == NewestFirst(ids)  n == Cardinality(ids)
  <2>1. ids \in SUBSET all
    BY Rows
  <2>2. IsFiniteSet(ids) /\ n \in Nat /\ Arranges(order, ids)
    BY <1>1, <2>1, IdsFinite, NewestFirstArranges
  <2> HIDE DEF ids, order, all
  <2>3. \A id \in ids : Place(id, ids, order) \in 0 .. n - 1
    BY <2>2, Places
  <2>4. /\ \A k \in 0 .. n - 1 : \E id \in ids : Place(id, ids, order) = k
        /\ n # 0 => \A x, y \in ids : Place(x, ids, order) = Place(y, ids, order) => x = y
    <3>1. ASSUME NEW k \in 0 .. n - 1
          PROVE  /\ \E id \in ids : Place(id, ids, order) = k
                 /\ \A x, y \in ids : Place(x, ids, order) = Place(y, ids, order) => x = y
      BY <2>2, PlaceTaken
    <3>2. n # 0 => 0 \in 0 .. n - 1
      BY <2>2
    <3> QED
      BY <3>1, <3>2
  <2>5. \A id \in ids : n # 0
    BY <2>2, <2>3
  <2> HIDE DEF n
  <2>6. \A k \in 1 .. n : k - 1 \in 0 .. n - 1
    BY <2>2
  <2> DEFINE Q(id) == Place(id, ids, order)
  <2>7. \A id \in ids : Q(id) \in 0 .. n - 1
    BY <2>3
  <2>8. /\ \A k \in 0 .. n - 1 : \E id \in ids : Q(id) = k
        /\ \A x, y \in ids : Q(x) = Q(y) => x = y
    BY <2>4, <2>5
  <2> HIDE DEF Q
  <2>9. /\ \A id \in ids : Q(id) + 1 \in 1 .. n
        /\ \A k \in 1 .. n : \E id \in ids : Q(id) + 1 = k
        /\ \A x, y \in ids : Q(x) + 1 = Q(y) + 1 => x = y
    <3>1. \A id \in ids : Q(id) + 1 \in 1 .. n
      BY <2>2, <2>7
    <3>2. ASSUME NEW k \in 1 .. n PROVE \E id \in ids : Q(id) + 1 = k
      <4>1. PICK id \in ids : Q(id) = k - 1
        BY <2>6, <2>8
      <4>2. Q(id) + 1 = k
        BY <4>1
      <4> QED
        BY <4>2
    <3>3. ASSUME NEW x \in ids, NEW y \in ids, Q(x) + 1 = Q(y) + 1 PROVE x = y
      <4>1. Q(x) = Q(y)
        BY <2>7, <3>3
      <4> QED
        BY <2>8, <4>1
    <3> QED
      BY <3>1, <3>2, <3>3
  <2> QED
    BY <2>9 DEF Q, ids, order, n
<1>3. \A id \in all : id \in RowsOf(A(id))
  BY DEF RowsOf
<1>4. \A a : \A id \in RowsOf(a) : id \in all /\ A(id) = a
  BY DEF RowsOf
<1>5. /\ DOMAIN AssetsList = {A(id) : id \in all}
      /\ \A a \in DOMAIN AssetsList : AssetsList[a].events = Cardinality(RowsOf(a))
  BY DEF AssetsList, Summary
<1>6. \A u : u \in listed <=> \E a \in {A(id) : id \in all} : \E k \in 1 .. Cardinality(RowsOf(a)) : u = <<a, k>>
  BY <1>5
<1> HIDE DEF P, listed
<1>7. f \in [all -> listed]
  <2>1. ASSUME NEW id \in all PROVE <<A(id), P(id, A(id))>> \in listed
    BY <1>2, <1>3, <1>6
  <2> HIDE DEF A
  <2> QED
    BY <2>1
<1>8. ASSUME NEW x \in all, NEW y \in all, f[x] = f[y] PROVE x = y
  <2>1. A(x) = A(y) /\ P(x, A(x)) = P(y, A(x))
    BY <1>8
  <2>2. x \in RowsOf(A(x)) /\ y \in RowsOf(A(x))
    BY <1>3, <2>1
  <2> HIDE DEF A
  <2> QED
    BY <1>2, <2>1, <2>2
<1>9. ASSUME NEW u \in listed PROVE \E id \in all : f[id] = u
  <2>0. PICK a \in {A(id) : id \in all} : \E k \in 1 .. Cardinality(RowsOf(a)) : u = <<a, k>>
    BY <1>6
  <2>1. PICK k \in 1 .. Cardinality(RowsOf(a)) : u = <<a, k>>
    BY <2>0
  <2>2. PICK id \in RowsOf(a) : P(id, a) = k
    BY <1>2
  <2>3. id \in all /\ A(id) = a
    BY <1>4
  <2>4. f[id] = u
    BY <2>1, <2>2, <2>3
  <2> QED
    BY <2>3, <2>4
<1> HIDE DEF f
<1>10. ExistsBijection(all, listed)
  BY <1>7, <1>8, <1>9 DEF ExistsBijection, Bijection, Injection, Surjection, IsInjective
<1>11. Cardinality(listed) = Cardinality(all)
  BY <1>1, <1>10, FS_Bijection
<1> QED
  BY <1>11 DEF CountsAddUp, About, Summary, listed

\* The endpoints tell one story, for any number of assets and rows and any limits
\* (api.py:35-46, 108-134, about.py:14-24).
THEOREM EndpointsTellOneStory == ApiSpec => []EndpointsAgree
<1>1. ApiTypeOK /\ TimesAscend => EndpointsAgree
  BY NewestAgree, AlarmsAreFromNewest, CountsDo DEF EndpointsAgree
<1> QED
  BY <1>1, ApiTyped, TimesAscending, PTL
=============================================================================
