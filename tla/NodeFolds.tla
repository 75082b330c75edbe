----------------------------- MODULE NodeFolds -----------------------------
(***************************************************************************)
(* The folds of FMWK-002 (folds.py): how one ledger event changes the      *)
(* Graph.  The Graph is the dict "nodes": a function whose domain is the   *)
(* set of nodes that exist.  Decimals are integers, the value 1.0 being    *)
(* One.  Of a node only what a later fold reads or an event overwrites is  *)
(* kept; node_type and base_weight are written once and never read.        *)
(***************************************************************************)
EXTENDS Integers

CONSTANTS
  One,        \* the methylation 1.0
  Malformed   \* a payload value the fold cannot convert or does not find

ASSUME NodeFoldsAssumption == One \in Nat

EmptyGraph == [n \in {} |-> 0]

\* What setdefault and get(..., default) make of a node never written to.
FreshNode == [methylation |-> 0, signals |-> 0, masks |-> {}, mode |-> "none",
              sources |-> {}]

NodeAt(graph, n) == IF n \in DOMAIN graph THEN graph[n] ELSE FreshNode

SetNode(graph, n, node) ==
  [m \in DOMAIN graph \cup {n} |-> IF m = n THEN node ELSE graph[m]]

\* Mutant: the lower bound is forgotten.
clamp_methylationMutant(x) == IF x > One THEN One ELSE x

clamp_methylation(x) == IF x < 0 THEN 0 ELSE IF x > One THEN One ELSE x

NodeEvents == {"node_creation", "signal_delta", "methylation_delta", "suppression",
               "unsuppression", "mode_change", "consolidation"}

\* The events whose value is a decimal.
DecimalEvents == {"node_creation", "signal_delta", "methylation_delta"}

\* The events whose fold does not touch the Graph.
PlainEvents == {"session_start", "session_end", "snapshot_created"}

\* The new value of the node the event names.
FoldNode(node, e) ==
  CASE e.type = "node_creation" ->
         [node EXCEPT !.methylation = clamp_methylation(e.value)]
    [] e.type = "signal_delta" ->
         [node EXCEPT !.signals = @ + e.value,
                      !.methylation = clamp_methylation(@ + e.value)]
    [] e.type = "methylation_delta" ->
         [node EXCEPT !.methylation = clamp_methylation(@ + e.value)]
    [] e.type = "suppression" -> [node EXCEPT !.masks = @ \cup {e.value}]
    [] e.type = "unsuppression" -> [node EXCEPT !.masks = @ \ {e.value}]
    [] e.type = "mode_change" -> [node EXCEPT !.mode = e.value]
    [] e.type = "consolidation" -> [node EXCEPT !.sources = e.value]

\* fold_live_event() raises on this event, whatever the Graph.  The ledger
\* accepts it all the same: it only checks that the payload is JSON.
Raises(e) == e.type \in NodeEvents /\ e.value = Malformed

\* What a fold that raises leaves behind: the node has been created by then,
\* except for mode_change, which reads the payload first.
PartialFold(graph, e) ==
  IF e.type = "mode_change" THEN graph
  ELSE SetNode(graph, e.node, NodeAt(graph, e.node))

fold_live_event(graph, e) ==
  IF e.type \notin NodeEvents THEN graph
  ELSE IF Raises(e) THEN PartialFold(graph, e)
  ELSE SetNode(graph, e.node, FoldNode(NodeAt(graph, e.node), e))

\* Every node has its fields and a methylation from 0.0 to 1.0.
GraphOK(g) ==
  \A n \in DOMAIN g : DOMAIN g[n] = DOMAIN FreshNode /\ g[n].methylation \in 0..One

=============================================================================
