------------------------------ MODULE EventStream ------------------------------
(***************************************************************************)
(* The timeline of one run, from the event log to the panel: the server's  *)
(* stream that pages through the log, the connection that may end or break *)
(* anywhere, the client that resumes it, and the panel, which adds every   *)
(* event to its timeline and asks for the run each time one arrives.       *)
(*                                                                         *)
(* An event is its sequence.  An answer about the run is the number of     *)
(* events committed when it was read: updated_at moves with every append.  *)
(* An event whose actor the contract does not know is committed like any   *)
(* other, and cannot be encoded for the stream.                            *)
(***************************************************************************)
EXTENDS Naturals, Sequences, FiniteSets

CONSTANTS
  Created,      \* events committed with the run itself
  MaxEvents,    \* bound: events of the run
  BatchSize,    \* page of iter_run_events
  MaxBreaks,    \* bound: ends, failures and manual reconnections
  MaxRefreshes, \* bound: requests for the run in flight with one answer
  RefreshMayFail

ASSUME CreatedAssumption == Created \in Nat \ {0} /\ MaxEvents \in Nat /\ Created <= MaxEvents
ASSUME BatchAssumption == BatchSize \in Nat \ {0}
ASSUME BreaksAssumption == MaxBreaks \in Nat
ASSUME RefreshesAssumption == MaxRefreshes \in Nat \ {0}
ASSUME RefreshAssumption == RefreshMayFail \in BOOLEAN

VARIABLES
  committed,  \* runs.last_sequence
  alien,      \* events recorded for an actor that is no EventActor
  conn,       \* between two attempts, in one, or in one the server has failed
  served,     \* server: cursor of iter_run_events
  page,       \* server: events of the page not yet yielded
  wire,       \* frames on their way
  held,       \* client: cursor of followRunEvents
  cursor,     \* client: cursor of consumeEventStream
  last,       \* panel: lastSequence.current
  shown,      \* panel: sequences of its events
  refreshes,  \* panel: requests for the run in flight, by answer
  view,       \* panel: the answer about the run it shows
  breaks      \* so far

vars == <<committed, alien, conn, served, page, wire, held, cursor, last, shown,
          refreshes, view, breaks>>

serverVars == <<served, page>>
panelVars == <<last, shown, refreshes, view>>
logVars == <<committed, alien>>

NotYetRead == 0

Answers == {NotYetRead} \union 1 .. MaxEvents

NoRefreshes == [a \in Answers |-> 0]

\* The run was created and its response is shown; the stream is not yet asked for.
\* The events of a creation are the system's.
Init ==
  /\ committed = Created /\ alien = {} /\ view = Created
  /\ conn = "waiting"
  /\ served = 0 /\ page = <<>> /\ wire = <<>>
  /\ held = 0 /\ cursor = 0
  /\ last = 0 /\ shown = <<>> /\ refreshes = NoRefreshes
  /\ breaks = 0
-----------------------------------------------------------------------------
(***************************************************************************)
(* The log and the server's side of the stream                             *)
(***************************************************************************)
\* A transaction of the control-api commits its events together.  The actor of a
\* callback's event is the role of its task, and llm is a role and no EventActor.
Commit ==
  /\ committed' \in committed + 1 .. MaxEvents
  /\ \E new \in SUBSET (committed + 1 .. committed') : alien' = alien \union new
  /\ UNCHANGED <<conn, serverVars, wire, held, cursor, panelVars, breaks>>

\* Mutation: the page is not limited.
PageUnlimited(after) == [i \in 1 .. committed - after |-> after + i]

\* list_events: the first events after a sequence, in order.
PageAfter(after) ==
  LET n == IF committed - after < BatchSize THEN committed - after ELSE BatchSize
  IN  [i \in 1 .. n |-> after + i]

\* An empty page is a keep-alive or a pause: nothing anyone sees.
Poll ==
  /\ conn = "open" /\ page = <<>> /\ served < committed
  /\ page' = PageAfter(served)
  /\ UNCHANGED <<logVars, conn, served, wire, held, cursor, panelVars, breaks>>

\* encode_event builds the envelope of the contract, which validates the actor.
Encodable(event) == event \notin alien

\* The cursor moves before the frame is handed over.
Yield ==
  /\ conn = "open" /\ page # <<>> /\ Encodable(Head(page))
  /\ served' = Head(page)
  /\ wire' = Append(wire, Head(page))
  /\ page' = Tail(page)
  /\ UNCHANGED <<logVars, conn, held, cursor, panelVars, breaks>>

\* The validation raises and the generator is gone; what it yielded is on its way.
EncodingFails ==
  /\ conn = "open" /\ page # <<>> /\ ~Encodable(Head(page))
  /\ conn' = "failed"
  /\ served' = Head(page)
  /\ page' = <<>>
  /\ UNCHANGED <<logVars, wire, held, cursor, panelVars, breaks>>
-----------------------------------------------------------------------------
(***************************************************************************)
(* The client: followRunEvents around consumeEventStream                   *)
(***************************************************************************)
\* The request carries the cursor in Last-Event-ID; a new stream starts there.
Connect ==
  /\ conn = "waiting"
  /\ conn' = "open"
  /\ served' = held /\ cursor' = held
  /\ page' = <<>> /\ wire' = <<>>
  /\ UNCHANGED <<logVars, held, panelVars, breaks>>

\* Mutation: the timeline trusts the stream not to repeat itself.
AppendEvent(events, event) == Append(events, event)

\* addEvent: an event already there is ignored, another is put in its place.
AddEvent(events, event) ==
  LET before == Cardinality({i \in DOMAIN events : events[i] < event})
  IN  IF \E i \in DOMAIN events : events[i] = event
      THEN events
      ELSE SubSeq(events, 1, before) \o <<event>> \o SubSeq(events, before + 1, Len(events))

\* onEvent: remember, show, ask for the run.
OnEvent(event) ==
  /\ refreshes[NotYetRead] < MaxRefreshes
  /\ last' = IF event > last THEN event ELSE last
  /\ shown' = AddEvent(shown, event)
  /\ refreshes' = [refreshes EXCEPT ![NotYetRead] = @ + 1]
  /\ UNCHANGED view

\* How the response is cut into chunks is the network's choice: one frame each
\* covers them all.
Receive ==
  /\ conn # "waiting" /\ wire # <<>>
  /\ wire' = Tail(wire)
  /\ IF Head(wire) > cursor
     THEN cursor' = Head(wire) /\ OnEvent(Head(wire))
     ELSE UNCHANGED <<cursor, panelVars>>
  /\ UNCHANGED <<logVars, conn, serverVars, held, breaks>>

\* Whatever ends an attempt ends the server's generator with it.
Leave ==
  /\ breaks < MaxBreaks
  /\ breaks' = breaks + 1
  /\ conn' = "waiting"
  /\ page' = <<>> /\ wire' = <<>>

\* Mutation: the loop ends with the response.
EndForGood ==
  /\ conn = "open" /\ wire = <<>>
  /\ breaks < MaxBreaks
  /\ breaks' = breaks + 1
  /\ conn' = "closed"
  /\ page' = <<>> /\ wire' = <<>>
  /\ UNCHANGED <<logVars, served, held, cursor, panelVars>>

\* A response that ends returns its cursor, and the loop takes it over.
EndOfStream ==
  /\ conn = "open" /\ wire = <<>>
  /\ Leave
  /\ held' = cursor
  /\ UNCHANGED <<logVars, served, cursor, panelVars>>

\* A response that fails throws, and its cursor is lost with it.
Break ==
  /\ conn # "waiting"
  /\ Leave
  /\ UNCHANGED <<logVars, served, held, cursor, panelVars>>

\* The response of a generator that is gone is cut off after its last frame: it
\* throws as well, every time, and the same event is asked for again.
CutOff ==
  /\ conn = "failed" /\ wire = <<>>
  /\ conn' = "waiting"
  /\ UNCHANGED <<logVars, serverVars, wire, held, cursor, panelVars, breaks>>

\* "Reconectar agora": the effect is cleaned up, which aborts the stream and the
\* requests it made, and runs again from the last sequence.
ReconnectNow ==
  /\ Leave
  /\ held' = last
  /\ refreshes' = NoRefreshes
  /\ UNCHANGED <<logVars, served, cursor, last, shown, view>>
-----------------------------------------------------------------------------
(***************************************************************************)
(* The summary: getRun after every event                                   *)
(***************************************************************************)
StreamUnchanged ==
  UNCHANGED <<logVars, conn, serverVars, wire, held, cursor, last, shown, breaks>>

ReadRun ==
  /\ refreshes[NotYetRead] > 0 /\ refreshes[committed] < MaxRefreshes
  /\ refreshes' = [refreshes EXCEPT ![NotYetRead] = @ - 1, ![committed] = @ + 1]
  /\ UNCHANGED view /\ StreamUnchanged

\* Answers are taken as they arrive.
Refreshed(a) ==
  /\ a # NotYetRead /\ refreshes[a] > 0
  /\ refreshes' = [refreshes EXCEPT ![a] = @ - 1]
  /\ view' = a
  /\ StreamUnchanged

\* A request that fails, before or after it is read, is forgotten; the events stay.
RefreshFails(a) ==
  /\ RefreshMayFail /\ refreshes[a] > 0
  /\ refreshes' = [refreshes EXCEPT ![a] = @ - 1]
  /\ UNCHANGED view /\ StreamUnchanged
-----------------------------------------------------------------------------
Next ==
  \/ Commit \/ Poll \/ Yield \/ EncodingFails
  \/ Connect \/ Receive \/ EndOfStream \/ Break \/ CutOff \/ ReconnectNow
  \/ ReadRun \/ \E a \in Answers : Refreshed(a) \/ RefreshFails(a)

Spec == Init /\ [][Next]_vars

\* The server's loop and the client's go on, and frames arrive or the attempt
\* breaks; a request for the run is read and answered unless it fails.
Fairness ==
  /\ WF_vars(Poll) /\ WF_vars(Yield) /\ WF_vars(EncodingFails)
  /\ WF_vars(Connect) /\ WF_vars(Receive) /\ WF_vars(CutOff)
  /\ WF_vars(ReadRun) /\ WF_vars(\E a \in Answers : Refreshed(a))

FairSpec == Spec /\ Fairness
-----------------------------------------------------------------------------
(***************************************************************************)
(* Properties                                                              *)
(***************************************************************************)
\* Every variable holds a value of its type; a page is never larger than asked.
TypeOK ==
  /\ committed \in 1 .. MaxEvents /\ alien \subseteq 1 .. MaxEvents
  /\ conn \in {"waiting", "open", "failed"}
  /\ served \in 0 .. MaxEvents
  /\ page \in Seq(1 .. MaxEvents) /\ Len(page) <= BatchSize
  /\ wire \in Seq(1 .. MaxEvents)
  /\ held \in 0 .. MaxEvents /\ cursor \in 0 .. MaxEvents
  /\ last \in 0 .. MaxEvents
  /\ shown \in Seq(1 .. MaxEvents)
  /\ refreshes \in [Answers -> Nat]
  /\ view \in 1 .. MaxEvents
  /\ breaks \in 0 .. MaxBreaks

\* The timeline only ever grows by the next event of the log, across pages, ends
\* of the stream, failures and manual reconnections.
Feed == INSTANCE EventFeed WITH length <- committed, displayed <- shown

RefinesFeed == Feed!FeedSpec

\* Every event that is committed is shown in the end, if it and all before it can be
\* encoded: no attempt is the last.  One that cannot ends every attempt that comes to
\* it, so neither it nor what follows is ever shown.
EveryEncodableEventIsShown ==
  \A e \in 1 .. MaxEvents :
    committed >= e /\ (\A d \in 1 .. e : Encodable(d))
      ~> \E i \in DOMAIN shown : shown[i] = e

\* What the documents say of the stream: no event is lost.  It holds of runs without
\* an event of an unknown actor only.
EveryEventIsShown ==
  \A e \in 1 .. MaxEvents :
    committed >= e ~> \E i \in DOMAIN shown : shown[i] = e

\* What the panel's README says of a resumption: it asks for the events after the
\* greatest sequence that was accepted.
ResumesFromLast ==
  [][conn = "waiting" /\ conn' = "open" => served' = last]_vars

\* The summary ends up showing the run as it is, its only source of truth.
SummarySettles == <>[](view = committed)
=============================================================================
