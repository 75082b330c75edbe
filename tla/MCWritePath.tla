----------------------------- MODULE MCWritePath -----------------------------
(* Instances of WritePath for TLC: one node, decimals in quarters (One = 4). *)
EXTENDS WritePath

Event(t, v) == [type |-> t, node |-> "n", value |-> v]

\* The deltas of three quarters meet both bounds of the clamp, which makes the
\* fold depend on the order of events.  Every kind of node event occurs; the
\* two malformed ones leave a partial fold and none.
MCRequests ==
  {Event("node_creation", 2), Event("signal_delta", 3), Event("methylation_delta", -3),
   Event("suppression", "s"), Event("unsuppression", "s"),
   Event("mode_change", "m"), Event("consolidation", {"a"}),
   Event("signal_delta", Malformed), Event("mode_change", Malformed),
   Event("session_start", "id")}

\* Without events that no fold accepts.
MCGoodRequests == {r \in MCRequests : r.value # Malformed}

=============================================================================
