-------------------------- MODULE NodeFoldsProofs --------------------------
(***************************************************************************)
(* What the folds preserve: every node keeps its shape and a methylation   *)
(* between 0.0 and 1.0, whatever event is folded and however it ends.      *)
(***************************************************************************)
EXTENDS NodeFolds, TLAPS

\* An event the ledger can hold.
EventOK(e) ==
  /\ e.type \in NodeEvents \cup PlainEvents
  /\ e.type \in DecimalEvents => e.value \in Int \cup {Malformed}

NodeOK(node) == DOMAIN node = DOMAIN FreshNode /\ node.methylation \in 0..One

\* clamp_methylation() returns a value from 0.0 to 1.0.
LEMMA ClampBounds == \A x \in Int : clamp_methylation(x) \in 0..One
BY NodeFoldsAssumption DEF clamp_methylation

\* A node nothing has been written to is well formed.
LEMMA FreshNodeOK == NodeOK(FreshNode)
BY NodeFoldsAssumption DEF NodeOK, FreshNode

\* Writing a well-formed node keeps the graph well formed.
LEMMA SetNodeOK ==
  ASSUME NEW g, GraphOK(g), NEW n, NEW node, NodeOK(node)
  PROVE  GraphOK(SetNode(g, n, node))
BY DEF GraphOK, SetNode, NodeOK

\* A fold that does not raise makes a well-formed node of a well-formed one.
LEMMA FoldNodeOK ==
  ASSUME NEW node, NodeOK(node), NEW e, EventOK(e), e.type \in NodeEvents, ~Raises(e)
  PROVE  NodeOK(FoldNode(node, e))
<1>1. e.type \in DecimalEvents => e.value \in Int
  BY DEF EventOK, Raises
<1>2. node.methylation \in Int /\ DOMAIN node = DOMAIN FreshNode
  BY NodeFoldsAssumption DEF NodeOK
<1>3. CASE e.type = "node_creation"
  BY <1>1, <1>2, <1>3, ClampBounds DEF FoldNode, NodeOK, FreshNode, DecimalEvents
<1>4. CASE e.type = "signal_delta"
  <2>1. /\ DOMAIN FoldNode(node, e) = DOMAIN FreshNode
        /\ FoldNode(node, e).methylation = clamp_methylation(node.methylation + e.value)
    BY <1>2, <1>4 DEF FoldNode, FreshNode
  <2> QED
    BY <1>1, <1>2, <1>4, <2>1, ClampBounds DEF NodeOK, DecimalEvents
<1>5. CASE e.type = "methylation_delta"
  BY <1>1, <1>2, <1>5, ClampBounds DEF FoldNode, NodeOK, FreshNode, DecimalEvents
<1>6. CASE e.type \in {"suppression", "unsuppression", "mode_change", "consolidation"}
  BY <1>2, <1>6 DEF FoldNode, NodeOK, FreshNode
<1> QED
  BY <1>3, <1>4, <1>5, <1>6 DEF NodeEvents

\* A fold, complete or broken off, leaves a well-formed graph.
THEOREM FoldPreservesGraphOK ==
  ASSUME NEW g, GraphOK(g), NEW e, EventOK(e)
  PROVE  GraphOK(fold_live_event(g, e)) /\ GraphOK(PartialFold(g, e))
<1>1. \A n : NodeOK(NodeAt(g, n))
  BY FreshNodeOK DEF NodeAt, GraphOK, NodeOK
<1>2. GraphOK(PartialFold(g, e))
  BY <1>1, SetNodeOK DEF PartialFold
<1>3. GraphOK(fold_live_event(g, e))
  BY <1>1, <1>2, FoldNodeOK, SetNodeOK DEF fold_live_event
<1> QED
  BY <1>2, <1>3

=============================================================================
