------------------------------- MODULE EventFeed -------------------------------
(***************************************************************************)
(* What the timeline promises to whoever looks at the panel: the events of *)
(* the run in order, each once, none left out, and none taken away again,  *)
(* however often the stream breaks.                                        *)
(***************************************************************************)
EXTENDS Naturals, Sequences

VARIABLES length, displayed    \* of the log; sequences the panel shows

feed == <<length, displayed>>

FeedInit == length \in Nat /\ displayed = <<>>

Grow == length' \in Nat /\ length' > length /\ UNCHANGED displayed

Display ==
  /\ Len(displayed) < length
  /\ displayed' = Append(displayed, Len(displayed) + 1)
  /\ UNCHANGED length

FeedSpec == FeedInit /\ [][Grow \/ Display]_feed
=============================================================================
