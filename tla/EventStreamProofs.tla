--------------------------- MODULE EventStreamProofs ---------------------------
(***************************************************************************)
(* The timeline is an exact copy of a prefix of the log, whatever the size *)
(* of a page and however often the stream ends, breaks or is restarted.    *)
(*                                                                         *)
(* The proof follows one number along the way: what is on the wire starts  *)
(* right after the client's cursor and ends at the server's, or before it  *)
(* once the server failed; a page starts right after the server's; and     *)
(* neither of the client's cursors is ahead of the last event shown, from  *)
(* which every new stream may repeat events but never leave one out.       *)
(***************************************************************************)
EXTENDS EventStream, SequenceTheorems, FiniteSetTheorems, TLAPS

\* The first n sequences of a log.
Prefix(n) == [i \in 1 .. n |-> i]

CursorsInv ==
  /\ {committed, served, held, cursor, last} \subseteq Nat
  /\ held <= last /\ cursor <= last /\ last <= committed /\ served <= committed

PageInv ==
  /\ page \in Seq(Nat)
  /\ \A i \in DOMAIN page : page[i] = served + i
  /\ served + Len(page) <= committed

WireInv ==
  /\ wire \in Seq(Nat)
  /\ \A i \in DOMAIN wire : wire[i] = cursor + i
  /\ conn = "open" => served = cursor + Len(wire)
  /\ conn # "waiting" => cursor + Len(wire) <= served
  /\ conn = "waiting" => wire = <<>>

StreamInv == CursorsInv /\ PageInv /\ WireInv /\ shown = Prefix(last)
-----------------------------------------------------------------------------
LEMMA PrefixType ==
  ASSUME NEW n \in Nat
  PROVE  Prefix(n) \in Seq(Nat) /\ Len(Prefix(n)) = n /\ DOMAIN Prefix(n) = 1 .. n
  BY DEF Prefix

LEMMA PutLast ==
  ASSUME NEW s \in Seq(Nat), NEW e \in Nat
  PROVE  s \o <<e>> \o <<>> = Append(s, e)
  OBVIOUS

\* Everything in a prefix is before its next element.
LEMMA BeforeNext ==
  ASSUME NEW n \in Nat
  PROVE  Cardinality({i \in DOMAIN Prefix(n) : Prefix(n)[i] < n + 1}) = n
  <1>1. {i \in DOMAIN Prefix(n) : Prefix(n)[i] < n + 1} = 1 .. n
    BY DEF Prefix
  <1>2. Cardinality(1 .. n) = n
    BY FS_Interval
  <1>. QED
    BY <1>1, <1>2

\* addEvent leaves a prefix alone when it has the event, and extends it by the
\* next one.
LEMMA AddToPrefix ==
  ASSUME NEW n \in Nat, NEW e \in 1 .. n + 1
  PROVE  /\ e <= n => AddEvent(Prefix(n), e) = Prefix(n)
         /\ e = n + 1 => /\ AddEvent(Prefix(n), e) = Append(Prefix(n), e)
                         /\ AddEvent(Prefix(n), e) = Prefix(n + 1)
  <1>1. ASSUME e <= n PROVE AddEvent(Prefix(n), e) = Prefix(n)
    <2>1. e \in DOMAIN Prefix(n) /\ Prefix(n)[e] = e
      BY <1>1 DEF Prefix
    <2>. QED
      BY <2>1 DEF AddEvent
  <1>2. ASSUME e = n + 1
        PROVE  AddEvent(Prefix(n), e) = Append(Prefix(n), e) /\ AddEvent(Prefix(n), e) = Prefix(n + 1)
    <2>1. ~ \E i \in DOMAIN Prefix(n) : Prefix(n)[i] = e
      BY <1>2 DEF Prefix
    <2>2. AddEvent(Prefix(n), e) = SubSeq(Prefix(n), 1, n) \o <<e>> \o SubSeq(Prefix(n), n + 1, n)
      BY <1>2, <2>1, BeforeNext, PrefixType DEF AddEvent
    <2>3. SubSeq(Prefix(n), 1, n) = Prefix(n) /\ SubSeq(Prefix(n), n + 1, n) = <<>>
      BY PrefixType
    <2>4. AddEvent(Prefix(n), e) = Append(Prefix(n), e)
      <3>1. AddEvent(Prefix(n), e) = Prefix(n) \o <<e>> \o <<>>
        BY <2>2, <2>3, Zenon
      <3>2. Prefix(n) \o <<e>> \o <<>> = Append(Prefix(n), e)
        BY PrefixType, PutLast
      <3>. QED
        BY <3>1, <3>2, Zenon
    <2>5. Append(Prefix(n), e) = Prefix(n + 1)
      BY <1>2 DEF Prefix
    <2>. QED
      BY <2>4, <2>5
  <1>. QED
    BY <1>1, <1>2
-----------------------------------------------------------------------------
LEMMA InitStream == Init => StreamInv
  <1>. SUFFICES ASSUME Init PROVE StreamInv
    OBVIOUS
  <1>1. CursorsInv /\ PageInv /\ WireInv
    BY CreatedAssumption DEF Init, CursorsInv, PageInv, WireInv
  <1>2. shown = Prefix(last)
    BY DEF Init, Prefix
  <1>. QED
    BY <1>1, <1>2 DEF StreamInv

LEMMA CommitStream ==
  ASSUME StreamInv, Commit
  PROVE  StreamInv' /\ Feed!Grow
  <1>1. committed' \in Nat /\ committed' > committed /\ committed \in Nat
    BY CreatedAssumption DEF Commit, StreamInv, CursorsInv
  <1>2. CursorsInv' /\ PageInv' /\ WireInv'
    BY <1>1 DEF Commit, StreamInv, CursorsInv, PageInv, WireInv, serverVars, panelVars
  <1>. QED
    BY <1>1, <1>2 DEF Commit, StreamInv, Prefix, panelVars, Feed!Grow

LEMMA PollStream ==
  ASSUME StreamInv, Poll
  PROVE  StreamInv' /\ UNCHANGED Feed!feed
  <1>. DEFINE n == IF committed - served < BatchSize THEN committed - served ELSE BatchSize
  <1>1. n \in Nat /\ n <= committed - served /\ served \in Nat /\ committed \in Nat
    BY BatchAssumption DEF Poll, StreamInv, CursorsInv
  <1>2. page' = [i \in 1 .. n |-> served + i]
    BY DEF Poll, PageAfter
  <1>. HIDE DEF n
  <1>3. page' \in Seq(Nat) /\ Len(page') = n /\ \A i \in DOMAIN page' : page'[i] = served + i
    BY <1>1, <1>2
  <1>4. PageInv'
    BY <1>1, <1>3 DEF PageInv, Poll, logVars
  <1>. QED
    BY <1>4 DEF Poll, StreamInv, CursorsInv, WireInv, Prefix, logVars, panelVars, Feed!feed

LEMMA YieldStream ==
  ASSUME StreamInv, Yield
  PROVE  StreamInv' /\ UNCHANGED Feed!feed
  <1>1. /\ {committed, served, cursor} \subseteq Nat /\ page \in Seq(Nat) /\ wire \in Seq(Nat)
        /\ Len(page) \in Nat \ {0} /\ served = cursor + Len(wire)
    BY DEF Yield, StreamInv, CursorsInv, PageInv, WireInv
  <1>2. Head(page) = served + 1 /\ served + 1 <= committed
    BY <1>1 DEF Yield, StreamInv, PageInv
  <1>3. PageInv'
    <2>1. /\ page' \in Seq(Nat) /\ Len(page') = Len(page) - 1
          /\ \A i \in DOMAIN page' : i + 1 \in DOMAIN page /\ page'[i] = page[i + 1]
      BY <1>1 DEF Yield
    <2>2. \A i \in DOMAIN page' : page'[i] = served' + i
      BY <1>1, <1>2, <2>1 DEF Yield, StreamInv, PageInv
    <2>. QED
      BY <1>1, <1>2, <2>1, <2>2 DEF Yield, StreamInv, PageInv, logVars
  <1>4. WireInv'
    <2>1. /\ wire' \in Seq(Nat) /\ Len(wire') = Len(wire) + 1
          /\ \A i \in DOMAIN wire' : wire'[i] = cursor + i
      BY <1>1, <1>2 DEF Yield, StreamInv, WireInv
    <2>2. served' = cursor' + Len(wire') /\ conn' = "open" /\ cursor' = cursor
      BY <1>1, <1>2, <2>1 DEF Yield
    <2>. QED
      BY <2>1, <2>2 DEF WireInv
  <1>5. CursorsInv'
    BY <1>1, <1>2 DEF Yield, StreamInv, CursorsInv, logVars, panelVars
  <1>. QED
    BY <1>3, <1>4, <1>5 DEF Yield, StreamInv, Prefix, logVars, panelVars, Feed!feed

\* The event that cannot be encoded moves the server's cursor and no frame.
LEMMA EncodingStream ==
  ASSUME StreamInv, EncodingFails
  PROVE  StreamInv' /\ UNCHANGED Feed!feed
  <1>1. /\ {committed, served, held, cursor, last} \subseteq Nat /\ page \in Seq(Nat)
        /\ wire \in Seq(Nat) /\ Len(page) \in Nat \ {0} /\ served = cursor + Len(wire)
    BY DEF EncodingFails, StreamInv, CursorsInv, PageInv, WireInv
  <1>2. Head(page) = served + 1 /\ served + 1 <= committed
    BY <1>1 DEF EncodingFails, StreamInv, PageInv
  <1>3. /\ served' = served + 1 /\ page' = <<>> /\ conn' = "failed"
        /\ UNCHANGED <<committed, wire, held, cursor, last, shown>>
    BY <1>2 DEF EncodingFails, logVars, panelVars
  <1>4. CursorsInv' /\ PageInv'
    BY <1>1, <1>2, <1>3 DEF StreamInv, CursorsInv, PageInv
  <1>5. WireInv'
    BY <1>1, <1>3 DEF StreamInv, WireInv
  <1>. QED
    BY <1>3, <1>4, <1>5 DEF StreamInv, Prefix, Feed!feed

LEMMA ConnectStream ==
  ASSUME StreamInv, Connect
  PROVE  StreamInv' /\ UNCHANGED Feed!feed
  <1>1. CursorsInv'
    BY DEF Connect, StreamInv, CursorsInv, logVars, panelVars
  <1>2. PageInv' /\ WireInv'
    BY <1>1 DEF Connect, PageInv, WireInv, CursorsInv
  <1>. QED
    BY <1>1, <1>2 DEF Connect, StreamInv, Prefix, logVars, panelVars, Feed!feed

\* The frame received is the one after the cursor: already shown, or the next.
LEMMA ReceiveStream ==
  ASSUME StreamInv, Receive
  PROVE  StreamInv' /\ [Feed!Display]_(Feed!feed)
  <1>1. /\ {committed, served, held, cursor, last} \subseteq Nat /\ wire \in Seq(Nat)
        /\ Len(wire) \in Nat \ {0} /\ conn # "waiting" /\ cursor + Len(wire) <= served
        /\ conn = "open" => served = cursor + Len(wire)
        /\ cursor <= last /\ served <= committed /\ held <= last /\ last <= committed
    BY DEF Receive, StreamInv, CursorsInv, WireInv
  <1>2. Head(wire) = cursor + 1 /\ cursor + 1 <= committed
    BY <1>1 DEF StreamInv, WireInv
  <1>3. /\ cursor' = cursor + 1
        /\ last' = IF cursor + 1 > last THEN cursor + 1 ELSE last
        /\ shown' = AddEvent(Prefix(last), cursor + 1)
        /\ wire' = Tail(wire)
        /\ UNCHANGED <<committed, conn, served, page, held>>
    BY <1>1, <1>2 DEF Receive, OnEvent, StreamInv, serverVars, logVars
  <1>4. CursorsInv'
    BY <1>1, <1>2, <1>3 DEF CursorsInv
  <1>5. PageInv'
    BY <1>3 DEF StreamInv, PageInv
  <1>6. WireInv'
    <2>1. /\ wire' \in Seq(Nat) /\ Len(wire') = Len(wire) - 1
          /\ \A i \in DOMAIN wire' : i + 1 \in DOMAIN wire /\ wire'[i] = wire[i + 1]
      BY <1>1, <1>3
    <2>2. \A i \in DOMAIN wire' : wire'[i] = cursor' + i
      BY <1>1, <1>3, <2>1 DEF StreamInv, WireInv
    <2>3. /\ cursor' + Len(wire') = cursor + Len(wire)
          /\ conn' = conn /\ conn # "waiting" /\ served' = served
      BY <1>1, <1>3, <2>1
    <2>. QED
      BY <1>1, <2>1, <2>2, <2>3 DEF WireInv
  <1>7. CASE cursor + 1 <= last
    <2>1. last' = last /\ shown' = shown
      BY <1>1, <1>3, <1>7, AddToPrefix DEF StreamInv
    <2>. QED
      BY <1>3, <1>4, <1>5, <1>6, <2>1 DEF StreamInv, Prefix, Feed!feed
  <1>8. CASE cursor + 1 = last + 1
    <2>1. /\ last' = last + 1 /\ shown' = Prefix(last + 1)
          /\ shown' = Append(shown, last + 1) /\ Len(shown) = last
      <3>1. last' = last + 1 /\ shown' = AddEvent(Prefix(last), last + 1)
        BY <1>1, <1>3, <1>8
      <3>2. /\ AddEvent(Prefix(last), last + 1) = Append(Prefix(last), last + 1)
            /\ AddEvent(Prefix(last), last + 1) = Prefix(last + 1)
        <4>1. last \in Nat /\ last + 1 \in 1 .. last + 1
          BY <1>1
        <4>. QED
          BY <4>1, AddToPrefix
      <3>3. shown = Prefix(last) /\ Len(shown) = last
        BY <1>1, PrefixType DEF StreamInv
      <3>. QED
        BY <3>1, <3>2, <3>3, Zenon
    <2>2. shown' = Prefix(last')
      BY <2>1
    <2>3. StreamInv'
      BY <1>4, <1>5, <1>6, <2>2 DEF StreamInv, Prefix
    <2>4. Feed!Display
      BY <1>1, <1>2, <1>3, <1>8, <2>1 DEF Feed!Display
    <2>. QED
      BY <2>3, <2>4
  <1>. QED
    BY <1>1, <1>7, <1>8

LEMMA LeaveStream ==
  ASSUME StreamInv, EndOfStream \/ Break \/ ReconnectNow
  PROVE  StreamInv' /\ UNCHANGED Feed!feed
  <1>1. /\ conn' = "waiting" /\ page' = <<>> /\ wire' = <<>>
        /\ held' \in {held, cursor, last}
        /\ UNCHANGED <<committed, served, cursor, last, shown>>
    BY DEF EndOfStream, Break, ReconnectNow, Leave, logVars, panelVars
  <1>2. CursorsInv' /\ PageInv' /\ WireInv'
    BY <1>1 DEF StreamInv, CursorsInv, PageInv, WireInv
  <1>. QED
    BY <1>1, <1>2 DEF StreamInv, Prefix, Feed!feed

LEMMA CutOffStream ==
  ASSUME StreamInv, CutOff
  PROVE  StreamInv' /\ UNCHANGED Feed!feed
  <1>1. /\ conn' = "waiting" /\ wire = <<>>
        /\ UNCHANGED <<committed, served, page, wire, held, cursor, last, shown>>
    BY DEF CutOff, logVars, serverVars, panelVars
  <1>. QED
    BY <1>1 DEF StreamInv, CursorsInv, PageInv, WireInv, Prefix, Feed!feed

LEMMA OthersStream ==
  ASSUME StreamInv,
         \/ UNCHANGED vars
         \/ ReadRun \/ \E a \in Answers : Refreshed(a) \/ RefreshFails(a)
  PROVE  StreamInv' /\ UNCHANGED Feed!feed
  <1>1. UNCHANGED <<committed, conn, served, page, wire, held, cursor, last, shown>>
    BY DEF vars, ReadRun, Refreshed, RefreshFails, StreamUnchanged, serverVars, logVars
  <1>. QED
    BY <1>1 DEF StreamInv, CursorsInv, PageInv, WireInv, Prefix, Feed!feed
-----------------------------------------------------------------------------
LEMMA StepStream ==
  StreamInv /\ [Next]_vars => StreamInv' /\ [Feed!Grow \/ Feed!Display]_(Feed!feed)
  BY CommitStream, PollStream, YieldStream, EncodingStream, ConnectStream, ReceiveStream,
     LeaveStream, CutOffStream, OthersStream DEF Next

\* The panel's timeline implements the feed: every event in order, once, without
\* a gap, and none taken back, for every page size and every number of breaks.
THEOREM TimelineIsTheLog == Spec => RefinesFeed
  <1>1. Init => StreamInv /\ Feed!FeedInit
    BY InitStream, CreatedAssumption DEF Init, Feed!FeedInit
  <1>2. StreamInv /\ [Next]_vars => StreamInv' /\ [Feed!Grow \/ Feed!Display]_(Feed!feed)
    BY StepStream
  <1>. QED
    BY <1>1, <1>2, PTL DEF Spec, RefinesFeed, Feed!FeedSpec
-----------------------------------------------------------------------------
\* What StreamInv does not say: bounds, the summary and the size of a page.
PanelInv ==
  /\ committed \in 1 .. MaxEvents /\ view \in 1 .. MaxEvents
  /\ alien \subseteq 1 .. MaxEvents
  /\ conn \in {"waiting", "open", "failed"}
  /\ Len(page) <= BatchSize
  /\ refreshes \in [Answers -> Nat]
  /\ breaks \in 0 .. MaxBreaks

LEMMA InitPanel == Init => PanelInv
  BY CreatedAssumption, BatchAssumption, BreaksAssumption
  DEF Init, PanelInv, NoRefreshes, Answers, NotYetRead

LEMMA StepPanel ==
  ASSUME StreamInv, PanelInv, [Next]_vars
  PROVE  PanelInv'
  <1>. USE CreatedAssumption, BatchAssumption, BreaksAssumption
  <1>1. CASE Commit
    <2>1. committed' \in 1 .. MaxEvents /\ alien' \subseteq 1 .. MaxEvents
      BY <1>1 DEF Commit, PanelInv
    <2>. QED
      BY <1>1, <2>1 DEF Commit, PanelInv, serverVars, panelVars
  <1>2. CASE Poll
    <2>. DEFINE n == IF committed - served < BatchSize THEN committed - served ELSE BatchSize
    <2>1. n \in Nat /\ n <= BatchSize /\ page' = [i \in 1 .. n |-> served + i]
      BY <1>2 DEF Poll, PageAfter, StreamInv, CursorsInv
    <2>2. Len(page') <= BatchSize
      <3>. HIDE DEF n
      <3>. QED
        BY <2>1
    <2>. QED
      BY <1>2, <2>2 DEF Poll, PanelInv, logVars, panelVars
  <1>3. CASE Yield
    BY <1>3 DEF Yield, PanelInv, logVars, panelVars, StreamInv, PageInv
  <1>4. CASE Connect
    BY <1>4 DEF Connect, PanelInv, logVars, panelVars
  <1>5. CASE Receive
    BY <1>5 DEF Receive, OnEvent, PanelInv, serverVars, logVars, panelVars, Answers, NotYetRead
  <1>6. CASE EndOfStream \/ Break \/ ReconnectNow
    <2>1. refreshes' \in [Answers -> Nat]
      BY <1>6 DEF EndOfStream, Break, ReconnectNow, Leave, PanelInv, logVars, panelVars, NoRefreshes
    <2>2. /\ conn' = "waiting" /\ page' = <<>> /\ breaks' = breaks + 1 /\ breaks < MaxBreaks
          /\ UNCHANGED <<committed, alien, view>>
      BY <1>6 DEF EndOfStream, Break, ReconnectNow, Leave, logVars, panelVars
    <2>. QED
      BY <2>1, <2>2 DEF PanelInv
  <1>7. CASE ReadRun \/ \E a \in Answers : Refreshed(a) \/ RefreshFails(a)
    <2>1. refreshes' \in [Answers -> Nat] /\ view' \in 1 .. MaxEvents
      <3>. USE DEF PanelInv, Answers, NotYetRead
      <3>1. CASE ReadRun
        <4>1. /\ refreshes' = [refreshes EXCEPT ![NotYetRead] = @ - 1, ![committed] = @ + 1]
              /\ refreshes[NotYetRead] > 0 /\ view' = view
          BY <3>1 DEF ReadRun
        <4>2. NotYetRead \in Answers /\ committed \in Answers /\ NotYetRead # committed
          OBVIOUS
        <4>3. refreshes \in [Answers -> Nat] /\ view \in 1 .. MaxEvents
          OBVIOUS
        <4>4. refreshes[NotYetRead] - 1 \in Nat /\ refreshes[committed] + 1 \in Nat
          BY <4>1, <4>2, <4>3
        <4>. QED
          BY <4>1, <4>2, <4>3, <4>4
      <3>2. CASE \E a \in Answers : Refreshed(a) \/ RefreshFails(a)
        BY <3>2 DEF Refreshed, RefreshFails
      <3>. QED
        BY <1>7, <3>1, <3>2
    <2>. QED
      BY <1>7, <2>1 DEF ReadRun, Refreshed, RefreshFails, StreamUnchanged, logVars, serverVars, PanelInv
  <1>8. CASE EncodingFails
    BY <1>8 DEF EncodingFails, PanelInv, logVars, panelVars
  <1>9. CASE CutOff
    BY <1>9 DEF CutOff, PanelInv, logVars, serverVars, panelVars
  <1>10. CASE UNCHANGED vars
    BY <1>10 DEF vars, PanelInv
  <1>. QED
    BY <1>1, <1>2, <1>3, <1>4, <1>5, <1>6, <1>7, <1>8, <1>9, <1>10 DEF Next

\* A sequence of numbers whose elements are in a set is a sequence of that set.
LEMMA Narrowed ==
  ASSUME NEW S, NEW s \in Seq(Nat), \A i \in 1 .. Len(s) : s[i] \in S
  PROVE  s \in Seq(S)
  OBVIOUS

\* The two invariants give every type.
LEMMA StreamTypes == StreamInv /\ PanelInv => TypeOK
  <1>. SUFFICES ASSUME StreamInv, PanelInv PROVE TypeOK
    OBVIOUS
  <1>1. /\ {committed, served, held, cursor, last} \subseteq Nat
        /\ {served, held, cursor, last} \subseteq 0 .. MaxEvents
        /\ committed \in 1 .. MaxEvents /\ MaxEvents \in Nat
    BY CreatedAssumption DEF StreamInv, CursorsInv, PanelInv
  <1>2. page \in Seq(1 .. MaxEvents)
    <2>1. page \in Seq(Nat) /\ \A i \in 1 .. Len(page) : page[i] \in 1 .. MaxEvents
      BY <1>1 DEF StreamInv, PageInv, CursorsInv
    <2>. QED
      BY <2>1, Narrowed
  <1>3. wire \in Seq(1 .. MaxEvents)
    <2>1. wire \in Seq(Nat) /\ cursor + Len(wire) <= committed
      BY <1>1 DEF StreamInv, WireInv, CursorsInv
    <2>2. \A i \in 1 .. Len(wire) : wire[i] = cursor + i
      BY <2>1 DEF StreamInv, WireInv
    <2>3. \A i \in 1 .. Len(wire) : wire[i] \in 1 .. MaxEvents
      BY <1>1, <2>1, <2>2 DEF PanelInv
    <2>. QED
      BY <2>1, <2>3, Narrowed
  <1>4. shown \in Seq(1 .. MaxEvents)
    BY <1>1, PrefixType DEF StreamInv, Prefix
  <1>. QED
    BY <1>1, <1>2, <1>3, <1>4 DEF TypeOK, PanelInv

\* Every variable has its type, and no page is larger than asked.
THEOREM TypeCorrect == Spec => []TypeOK
  <1>1. Init => StreamInv /\ PanelInv
    BY InitStream, InitPanel
  <1>2. StreamInv /\ PanelInv /\ [Next]_vars => StreamInv' /\ PanelInv'
    BY StepStream, StepPanel
  <1>. QED
    BY <1>1, <1>2, StreamTypes, PTL DEF Spec
=============================================================================
