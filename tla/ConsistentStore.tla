--------------------------- MODULE ConsistentStore ---------------------------
(***************************************************************************)
(* What the Write Path promises about Ledger and Graph together: callers   *)
(* see either no graph at all, or the one graph that replaying the whole   *)
(* ledger from genesis gives.  Events are added only while they see it,    *)
(* one at a time and at the end; once the graph is gone it comes back      *)
(* complete.                                                               *)
(***************************************************************************)
EXTENDS Integers, SequencesExt

CONSTANTS
  Empty,        \* the graph before the first event
  Fold(_, _)    \* how an event changes a graph

VARIABLES
  log,    \* the accepted events
  view    \* the graphs callers can see: one, or none

vars == <<log, view>>

Replay(l) == FoldLeft(Fold, Empty, l)

Init == log = <<>> /\ view = {}

Accept ==
  /\ view # {}
  /\ Len(log') = Len(log) + 1
  /\ Front(log') = log
  /\ view' \in {{}, {Replay(log')}}

Stop == view' = {} /\ UNCHANGED log

Start ==
  /\ view = {}
  /\ view' = {Replay(log)}
  /\ UNCHANGED log

Next == Accept \/ Stop \/ Start

Spec == Init /\ [][Next]_vars

=============================================================================
