--------------------------- MODULE WritePathProofs ---------------------------
(***************************************************************************)
(* Proofs about WritePath.  Whatever an append that raises leaves behind,  *)
(* every graph keeps its types, and the boundary of a blocked service is   *)
(* its newest event.  As long as such an append leaves the ledger alone,   *)
(* the Graph of a service that takes mutations is the replay of the whole  *)
(* ledger, every recorded snapshot is the replay up to its label, and the  *)
(* service keeps the promise of ConsistentStore.                           *)
(***************************************************************************)
EXTENDS WritePath, SeqFacts, NodeFoldsProofs

----------------------------------------------------------------------------
(* The inductive invariants. *)

\* The history "replayed" is the fold of the ledger, prefix by prefix.
HistoryOK ==
  /\ IsSeq(ledger) /\ IsSeq(replayed)
  /\ Len(replayed) = Len(ledger) + 1
  /\ replayed[1] = EmptyGraph
  /\ \A i \in 1..Len(ledger) :
       EventOK(ledger[i]) /\ replayed[i + 1] = fold_live_event(replayed[i], ledger[i])
  /\ \A i \in 1..Len(replayed) : GraphOK(replayed[i])

\* A snapshot_created event is labelled with the event before it; at genesis
\* there is none and the label is its own number.
LabelOf(i) == IF i = 1 THEN 0 ELSE i - 2

IsSnapshot(e) == e.type = "snapshot_created"

Labelled == \A i \in 1..Len(ledger) : IsSnapshot(ledger[i]) => ledger[i].value = LabelOf(i)

\* What is known of the event that a call submits.
Submitted ==
  /\ pc \in {"append", "fold"} => Ready /\ EventOK(request)
  /\ pc = "append" /\ IsSnapshot(request) => request.value = SnapshotLabel
  /\ pc = "fold" => Len(ledger) > 0 /\ TipSequence \notin receipts
  /\ pc = "upload" => runtime = "serving"

\* What holds whether or not an append that raises has written its event.
Base == TypeOK /\ HistoryOK /\ Labelled /\ Submitted /\ NoReceiptPastBoundary

SnapshotsOK ==
  \A i \in 1..Len(ledger) :
    IsSnapshot(ledger[i]) =>
      LabelOf(i) \in DOMAIN storage /\ storage[LabelOf(i)] = replayed[LabelOf(i) + 2]

\* How the graph stands to the replay at each point of a call.
CallInv ==
  /\ pc \in {"idle", "append", "upload"} /\ Ready => graph = replayed[Len(ledger) + 1]
  /\ pc = "append" /\ IsSnapshot(request) =>
       SnapshotLabel \in DOMAIN storage /\ storage[SnapshotLabel] = graph
  /\ pc = "fold" => request = ledger[Len(ledger)] /\ graph = replayed[Len(ledger)]
  /\ pc = "upload" => payload = graph
  /\ pc \in {"read", "replay"} => graph = replayed[cursor + 1]
  /\ pc \in {"idle", "upload"} /\ runtime = "serving" /\ boundary # NoBoundary =>
       /\ Len(ledger) > 0
       /\ ledger[Len(ledger)].type \notin NodeEvents => graph = replayed[Len(ledger) + 1]

IInv == Base /\ SnapshotsOK /\ CallInv

\* The graph of reset_state() is well formed.
LEMMA EmptyGraphOK == GraphOK(EmptyGraph)
BY DEF GraphOK, EmptyGraph

\* The lengths of ledger and replay history are numbers.
LEMMA Lengths == ASSUME HistoryOK PROVE Len(ledger) \in Nat /\ Len(replayed) \in Nat
BY AppendIsSeq DEF HistoryOK

\* A process that has just started satisfies the invariants.
THEOREM InitIInv == Init => IInv
<1> SUFFICES ASSUME Init PROVE IInv
  OBVIOUS
<1>1. Len(ledger) = 0 /\ Len(replayed) = 1 /\ replayed[1] = EmptyGraph
  BY DEF Init
<1>2. IsSeq(ledger) /\ IsSeq(replayed)
  BY DEF Init, IsSeq
<1>3. TypeOK
  BY <1>1, WritePathAssumption, EmptyGraphOK DEF Init, TypeOK, Outcomes, EmptyGraph, TipSequence
<1>4. HistoryOK
  BY <1>1, <1>2, EmptyGraphOK DEF HistoryOK
<1>5. Labelled /\ Submitted /\ NoReceiptPastBoundary /\ SnapshotsOK /\ CallInv
  BY <1>1 DEF Labelled, Submitted, SnapshotsOK, CallInv, NoReceiptPastBoundary, Init, Ready
<1> QED
  BY <1>3, <1>4, <1>5 DEF IInv, Base

----------------------------------------------------------------------------
(* Whatever an append that raises leaves behind. *)

\* A step that writes nothing durable keeps what is said of the ledger.
LEMMA LedgerStays ==
  ASSUME Base, UNCHANGED durable
  PROVE  /\ HistoryOK' /\ Labelled'
         /\ TipSequence' = TipSequence /\ SnapshotLabel' = SnapshotLabel
         /\ \A i \in 1..Len(replayed) : GraphOK(replayed[i])
         /\ Len(ledger) \in Nat /\ Len(replayed) = Len(ledger) + 1
         /\ \A i \in 1..Len(ledger) : EventOK(ledger[i])
BY Lengths DEF Base, durable, HistoryOK, IsSeq, Labelled, TipSequence, SnapshotLabel

\* Accepting or refusing a mutation, or exporting a snapshot.
LEMMA SubmitBase ==
  ASSUME Base, SubmitBlocked \/ (\E r \in Requests : Submit(r)) \/ SnapshotExport
  PROVE  Base'
<1> USE WritePathAssumption, EmptyGraphOK
<1>1. UNCHANGED durable
  BY DEF SubmitBlocked, Submit, SnapshotExport
<1>2. TypeOK'
  BY <1>1, LedgerStays DEF Base, TypeOK, SubmitBlocked, Submit, SnapshotExport, Return,
     durable, Outcomes
<1>3. Submitted'
  <2>1. CASE SubmitBlocked \/ SnapshotExport
    BY <2>1, <1>1 DEF Base, Submitted, SubmitBlocked, SnapshotExport, Return
  <2>2. ASSUME NEW r \in Requests, Submit(r) PROVE Submitted'
    BY <2>2, <1>1 DEF Base, Submitted, Submit, Ready, EventOK, IsSnapshot
  <2> QED
    BY <2>1, <2>2
<1>4. NoReceiptPastBoundary'
  BY <1>1, LedgerStays DEF Base, NoReceiptPastBoundary, SubmitBlocked, Submit,
     SnapshotExport, durable
<1> QED
  BY <1>1, <1>2, <1>3, <1>4, LedgerStays DEF Base

\* An event becomes durable, and its fold the newest of the history.
LEMMA AppendExtends ==
  ASSUME HistoryOK, NEW e, EventOK(e), LedgerAppend(e)
  PROVE  /\ HistoryOK'
         /\ Len(ledger) \in Nat /\ Len(ledger') = Len(ledger) + 1
         /\ ledger'[Len(ledger) + 1] = e
         /\ \A i \in 1..Len(ledger) : ledger'[i] = ledger[i]
         /\ replayed'[Len(ledger) + 2] = fold_live_event(replayed[Len(ledger) + 1], e)
         /\ \A i \in 1..Len(ledger) + 1 : replayed'[i] = replayed[i]
<1> DEFINE n == Len(ledger)
<1>1. /\ ledger' = Append(ledger, e)
      /\ replayed' = Append(replayed, fold_live_event(replayed[Len(replayed)], e))
  BY DEF LedgerAppend
<1>2. /\ n \in Nat /\ Len(replayed) = n + 1 /\ IsSeq(ledger) /\ IsSeq(replayed)
      /\ replayed[1] = EmptyGraph
      /\ \A i \in 1..n : EventOK(ledger[i]) /\ replayed[i + 1] = fold_live_event(replayed[i], ledger[i])
      /\ \A i \in 1..n + 1 : GraphOK(replayed[i])
  BY Lengths DEF HistoryOK
<1>3. /\ IsSeq(ledger') /\ Len(ledger') = n + 1 /\ ledger'[n + 1] = e
      /\ \A i \in 1..n : ledger'[i] = ledger[i]
  BY <1>1, <1>2, AppendIsSeq
<1>4. /\ IsSeq(replayed') /\ Len(replayed') = n + 2
      /\ replayed'[n + 2] = fold_live_event(replayed[n + 1], e)
      /\ \A i \in 1..n + 1 : replayed'[i] = replayed[i]
  <2>1. /\ IsSeq(replayed') /\ Len(replayed') = Len(replayed) + 1
        /\ replayed'[Len(replayed) + 1] = fold_live_event(replayed[Len(replayed)], e)
        /\ \A i \in 1..Len(replayed) : replayed'[i] = replayed[i]
    BY <1>1, <1>2, AppendIsSeq
  <2> QED
    BY <1>2, <2>1
<1> HIDE DEF n
<1>5. GraphOK(replayed'[n + 2])
  BY <1>2, <1>4, FoldPreservesGraphOK
<1>6. \A i \in 1..n + 1 :
        EventOK(ledger'[i]) /\ replayed'[i + 1] = fold_live_event(replayed'[i], ledger'[i])
  <2>1. ASSUME NEW i \in 1..n
        PROVE EventOK(ledger'[i]) /\ replayed'[i + 1] = fold_live_event(replayed'[i], ledger'[i])
    <3>1. i \in 1..n + 1 /\ i + 1 \in 1..n + 1
      BY <1>2
    <3> QED
      BY <1>2, <1>3, <1>4, <3>1
  <2>2. n + 1 \in 1..n + 1 /\ (n + 1) + 1 = n + 2
    BY <1>2
  <2> QED
    BY <1>2, <1>3, <1>4, <2>1, <2>2
<1>7. \A i \in 1..n + 2 : GraphOK(replayed'[i])
  BY <1>2, <1>4, <1>5
<1>8. HistoryOK'
  BY <1>2, <1>3, <1>4, <1>6, <1>7 DEF HistoryOK
<1> QED
  BY <1>2, <1>3, <1>4, <1>8 DEF n

\* The event that is appended is labelled, if it is a snapshot, with the one
\* before it, and nobody holds a receipt for it.
LEMMA AppendBase ==
  ASSUME Base, pc = "append", LedgerAppend(request), UNCHANGED receipts
  PROVE  /\ HistoryOK' /\ Labelled'
         /\ Len(ledger) \in Nat /\ Len(ledger') = Len(ledger) + 1
         /\ TipSequence' = TipSequence + 1 /\ TipSequence' \notin receipts'
         /\ receipts' \subseteq 0..TipSequence'
<1>1. /\ HistoryOK' /\ Len(ledger) \in Nat /\ Len(ledger') = Len(ledger) + 1
      /\ ledger'[Len(ledger) + 1] = request
      /\ \A i \in 1..Len(ledger) : ledger'[i] = ledger[i]
  BY AppendExtends DEF Base, Submitted
<1>2. IsSnapshot(request) => request.value = LabelOf(Len(ledger) + 1)
  BY <1>1 DEF Base, Submitted, SnapshotLabel, TipSequence, LabelOf
<1>3. Labelled'
  <2> SUFFICES ASSUME NEW i \in 1..Len(ledger) + 1, IsSnapshot(ledger'[i])
               PROVE  ledger'[i].value = LabelOf(i)
    BY <1>1 DEF Labelled
  <2>1. CASE i \in 1..Len(ledger)
    BY <1>1, <2>1 DEF Base, Labelled
  <2>2. CASE i = Len(ledger) + 1
    BY <1>1, <1>2, <2>2
  <2> QED
    BY <1>1, <2>1, <2>2
<1>4. receipts \subseteq 0..Len(ledger) - 1 /\ receipts' = receipts
  BY DEF Base, TypeOK, TipSequence
<1> QED
  BY <1>1, <1>3, <1>4 DEF TipSequence

\* An append that succeeds, or one that raises with or without the event.
LEMMA AppendStepBase == ASSUME Base, LedgerAppends \/ LedgerAppendRaises PROVE Base'
<1> USE WritePathAssumption, EmptyGraphOK
<1>1. pc = "append" /\ Ready /\ EventOK(request) /\ UNCHANGED <<storage, graph, boundary, runtime, receipts>>
  BY DEF Base, Submitted, LedgerAppends, LedgerAppendRaises
<1>2. NoReceiptPastBoundary'
  BY <1>1 DEF NoReceiptPastBoundary, Ready
<1>3. CASE LedgerAppends
  <2>1. /\ HistoryOK' /\ Labelled'
        /\ Len(ledger) \in Nat /\ Len(ledger') = Len(ledger) + 1
        /\ TipSequence' = TipSequence + 1 /\ TipSequence' \notin receipts'
        /\ receipts' \subseteq 0..TipSequence'
    BY <1>1, <1>3, AppendBase DEF LedgerAppends
  <2>2. pc' = "fold" /\ UNCHANGED <<request, payload, cursor, outcome, faults>>
    BY <1>3 DEF LedgerAppends
  <2>3. TypeOK'
    BY <1>1, <2>1, <2>2 DEF Base, TypeOK
  <2>4. Submitted'
    BY <1>1, <2>1, <2>2 DEF Submitted, Ready
  <2> QED
    BY <1>2, <2>1, <2>3, <2>4 DEF Base
<1>4. CASE LedgerAppendRaises
  <2>1. /\ HistoryOK' /\ Labelled'
        /\ Len(ledger) \in Nat /\ Len(ledger') \in {Len(ledger), Len(ledger) + 1}
        /\ receipts' \subseteq 0..TipSequence'
    <3>1. CASE UNCHANGED <<ledger, replayed>>
      <4>1. UNCHANGED durable
        BY <1>1, <3>1 DEF durable
      <4>2. receipts \subseteq 0..TipSequence
        BY DEF Base, TypeOK
      <4> QED
        BY <1>1, <4>1, <4>2, LedgerStays DEF durable
    <3>2. CASE LedgerAppend(request)
      BY <1>1, <3>2, AppendBase
    <3> QED
      BY <1>4, <3>1, <3>2 DEF LedgerAppendRaises
  <2>2. pc' = "idle" /\ payload' = EmptyGraph /\ cursor' = 0 /\ outcome' \in Outcomes
        /\ faults' \in 0..MaxFaults
    BY <1>4 DEF LedgerAppendRaises, Return, Fault, Outcomes, Base, TypeOK
  <2>3. TypeOK'
    BY <1>1, <2>1, <2>2 DEF Base, TypeOK
  <2>4. Submitted'
    BY <2>2 DEF Submitted
  <2> QED
    BY <1>2, <2>1, <2>3, <2>4 DEF Base
<1> QED
  BY <1>3, <1>4

\* A fold that succeeds gives a receipt for the newest event.
LEMMA FoldBase == ASSUME Base, GraphFolds PROVE Base'
<1> USE WritePathAssumption, EmptyGraphOK
<1>1. /\ UNCHANGED <<ledger, storage, replayed, boundary, runtime, faults>>
      /\ pc = "fold" /\ pc' = "idle" /\ receipts' = receipts \cup {TipSequence}
      /\ graph' = fold_live_event(graph, request)
      /\ outcome' = "receipt" /\ payload' = EmptyGraph /\ cursor' = 0
  BY DEF GraphFolds, Return
<1>2. Len(ledger) \in Nat /\ Len(ledger) > 0 /\ Ready /\ EventOK(request)
  BY <1>1, Lengths DEF Base, Submitted
<1>3. GraphOK(graph)'
  BY <1>1, <1>2, FoldPreservesGraphOK DEF Base, TypeOK
<1>4. TypeOK'
  <2>1. receipts' \subseteq 0..TipSequence'
    <3>1. TipSequence' = TipSequence /\ TipSequence \in 0..TipSequence
      BY <1>1, <1>2 DEF TipSequence
    <3>2. receipts \subseteq 0..TipSequence
      BY DEF Base, TypeOK
    <3> QED
      BY <1>1, <3>1, <3>2
  <2>2. cursor' \in 0..Len(ledger')
    BY <1>1, <1>2
  <2> QED
    BY <1>1, <1>3, <2>1, <2>2 DEF Base, TypeOK, Outcomes
<1>5. HistoryOK' /\ Labelled' /\ Submitted' /\ NoReceiptPastBoundary'
  BY <1>1, <1>2 DEF Base, HistoryOK, IsSeq, Labelled, Submitted, NoReceiptPastBoundary, Ready
<1> QED
  BY <1>4, <1>5 DEF Base

\* A fold that raises: the boundary is the event that is durable and not folded.
LEMMA FoldRaisesBase == ASSUME Base, GraphFoldRaises PROVE Base'
<1> USE WritePathAssumption, EmptyGraphOK
<1>1. UNCHANGED durable /\ pc = "fold" /\ pc' = "idle" /\ boundary' = TipSequence
  BY DEF GraphFoldRaises, Return
<1>2. /\ Len(ledger) \in Nat /\ Len(ledger) > 0 /\ TipSequence \notin receipts
      /\ GraphOK(graph) /\ EventOK(request)
  BY <1>1, Lengths DEF Base, Submitted, TypeOK
<1>3. GraphOK(graph)'
  BY <1>2, FoldPreservesGraphOK DEF GraphFoldRaises
<1>4. TypeOK'
  BY <1>1, <1>2, <1>3, LedgerStays DEF Base, TypeOK, GraphFoldRaises, Return, Fault,
     durable, Outcomes, TipSequence
<1>5. Submitted' /\ NoReceiptPastBoundary'
  BY <1>1, <1>2, LedgerStays DEF Submitted, NoReceiptPastBoundary, durable
<1> QED
  BY <1>1, <1>4, <1>5, LedgerStays DEF Base

\* Uploading a snapshot, or failing to: what is stored is a graph that was
\* exported, and the label of the event that records it is the newest event.
LEMMA SnapshotBase == ASSUME Base, SnapshotUpload \/ SnapshotRaises PROVE Base'
<1> USE WritePathAssumption, EmptyGraphOK
<1> DEFINE l == SnapshotLabel
           files == Artifacts(l)
<1>1. /\ UNCHANGED <<ledger, receipts, replayed, graph, boundary, runtime>>
      /\ pc = "upload" /\ storage' \in {storage, files}
      /\ TipSequence' = TipSequence /\ SnapshotLabel' = l
  BY DEF SnapshotUpload, SnapshotRaises, TipSequence, SnapshotLabel
<1>2. Len(ledger) \in Nat
  BY Lengths DEF Base
<1>3. \A k \in DOMAIN files : k \in Nat /\ GraphOK(files[k])
  BY <1>2 DEF Base, TypeOK, SnapshotLabel, TipSequence, Artifacts
<1> HIDE DEF files
<1>4. HistoryOK' /\ Labelled' /\ NoReceiptPastBoundary'
  BY <1>1 DEF Base, HistoryOK, IsSeq, Labelled, NoReceiptPastBoundary
<1>5. CASE pc' = "idle"
  <2>1. TypeOK'
    BY <1>1, <1>2, <1>3, <1>5 DEF Base, TypeOK, SnapshotUpload, SnapshotRaises, Return, Fault, Outcomes
  <2>2. Submitted'
    BY <1>5 DEF Submitted
  <2> QED
    BY <1>4, <2>1, <2>2 DEF Base
<1>6. CASE pc' # "idle"
  <2>1. /\ boundary = NoBoundary /\ pc' = "append" /\ request' = SnapshotCreated(l)
        /\ payload' = EmptyGraph /\ UNCHANGED <<cursor, outcome, faults>> /\ storage' = files
    BY <1>6 DEF SnapshotUpload, SnapshotRaises, Return, files
  <2>2. EventOK(request') /\ IsSnapshot(request') /\ request'.value = l
    BY <2>1 DEF EventOK, IsSnapshot, SnapshotCreated, NodeEvents, PlainEvents, DecimalEvents
  <2>3. TypeOK'
    BY <1>1, <1>3, <2>1 DEF Base, TypeOK
  <2>4. runtime = "serving"
    BY <1>1 DEF Base, Submitted
  <2>5. Submitted'
    BY <1>1, <2>1, <2>2, <2>4 DEF Submitted, Ready
  <2> QED
    BY <1>4, <2>3, <2>5 DEF Base
<1> QED
  BY <1>5, <1>6

\* Recovery and refold: every graph they load or fold is well formed.
LEMMA ReplayBase ==
  ASSUME Base, Recover \/ Refold \/ RecoveryRaises \/ ReplayRead \/ ReplayFold
               \/ ReplayRaises \/ ReplayDone \/ Crash
  PROVE  Base'
<1> USE WritePathAssumption, EmptyGraphOK
<1>1. UNCHANGED durable /\ boundary' \in {boundary, NoBoundary} /\ pc' \in {"idle", "read", "replay"}
  BY DEF Recover, RecoverWithoutSnapshot, RecoverFromSnapshot, Refold, StartReplay, Return,
     RecoveryRaises, ReplayRead, ReplayFold, ReplayRaises, ReplayDone, Crash
<1>2. /\ Len(ledger) \in Nat
      /\ (\A i \in 1..Len(ledger) : EventOK(ledger[i]))
      /\ HistoryOK' /\ Labelled' /\ TipSequence' = TipSequence
  BY <1>1, LedgerStays
<1>3. Submitted' /\ NoReceiptPastBoundary'
  BY <1>1, <1>2 DEF Base, Submitted, NoReceiptPastBoundary, durable
<1>4. ASSUME RecoverWithoutSnapshot \/ Refold \/ RecoveryRaises \/ Crash PROVE TypeOK'
  BY <1>1, <1>2, <1>4 DEF Base, TypeOK, RecoverWithoutSnapshot, Refold, StartReplay, RecoveryRaises,
     Crash, Return, Fault, durable, Outcomes
<1>5. ASSUME NEW l \in SnapshotLabels, RecoverFromSnapshot(l) PROVE TypeOK'
  <2>1. l \in 0..Len(ledger) - 1 /\ l \in DOMAIN storage
    <3>1. PICK i \in 1..Len(ledger) : IsSnapshot(ledger[i]) /\ ledger[i].value = l
      BY DEF SnapshotLabels, IsSnapshot
    <3>2. l = LabelOf(i)
      BY <3>1 DEF Base, Labelled
    <3>3. l \in DOMAIN storage
      BY <1>5 DEF RecoverFromSnapshot
    <3> QED
      BY <1>2, <3>1, <3>2, <3>3 DEF LabelOf
  <2> QED
    BY <1>1, <1>2, <1>5, <2>1 DEF Base, TypeOK, RecoverFromSnapshot, StartReplay, durable, Outcomes
<1>6. ASSUME ReplayRead \/ ReplayDone PROVE TypeOK'
  BY <1>1, <1>2, <1>6 DEF Base, TypeOK, ReplayRead, ReplayDone, Return, durable, Outcomes
<1>7. ASSUME ReplayFold PROVE TypeOK'
  <2>1. cursor + 1 \in 1..Len(ledger) /\ cursor' = cursor + 1 /\ GraphOK(graph)
        /\ graph' = fold_live_event(graph, ledger[cursor + 1])
    BY <1>2, <1>7 DEF ReplayFold, Base, TypeOK, TipSequence
  <2>2. GraphOK(graph)'
    BY <1>2, <2>1, FoldPreservesGraphOK
  <2> QED
    BY <1>1, <1>2, <1>7, <2>1, <2>2 DEF Base, TypeOK, ReplayFold, durable
<1>8. ASSUME ReplayRaises PROVE TypeOK'
  <2>1. GraphOK(graph)'
    <3>1. CASE graph' = graph
      BY <3>1 DEF Base, TypeOK
    <3>2. CASE cursor <= TipSequence /\ graph' = PartialFold(graph, ledger[cursor + 1])
      <4>1. EventOK(ledger[cursor + 1]) /\ GraphOK(graph)
        BY <1>2, <3>2 DEF Base, TypeOK, TipSequence
      <4> QED
        BY <3>2, <4>1, FoldPreservesGraphOK
    <3> QED
      BY <1>8, <3>1, <3>2 DEF ReplayRaises
  <2> QED
    BY <1>1, <1>2, <1>8, <2>1 DEF Base, TypeOK, ReplayRaises, Return, Fault, durable, Outcomes
<1>9. TypeOK'
  BY <1>4, <1>5, <1>6, <1>7, <1>8 DEF Recover
<1> QED
  BY <1>2, <1>3, <1>9 DEF Base

\* No step leaves Base.
LEMMA NextBase == ASSUME Base, [Next]_vars PROVE Base'
<1>1. CASE UNCHANGED vars
  BY <1>1 DEF vars, Base, TypeOK, HistoryOK, IsSeq, Labelled, Submitted,
     NoReceiptPastBoundary, TipSequence, SnapshotLabel, Ready
<1> QED
  BY <1>1, SubmitBase, AppendStepBase, FoldBase, FoldRaisesBase, SnapshotBase, ReplayBase
  DEF Next, CallStep

\* Base holds in every reachable state.
THEOREM AlwaysBase == Spec => []Base
<1>1. Init => Base
  BY InitIInv DEF IInv
<1>2. Base /\ [Next]_vars => Base'
  BY NextBase
<1> QED
  BY <1>1, <1>2, PTL DEF Spec

\* Types and the methylation bound of every graph, in memory or stored, also
\* when an append that raised has written its event.
THEOREM TypeCorrect == Spec => []TypeOK
<1>1. Base => TypeOK
  BY DEF Base
<1> QED
  BY <1>1, AlwaysBase, PTL

\* The boundary of a blocked service is its newest event, for which nobody
\* holds a receipt, also when an append that raised has written its event.
THEOREM BoundaryCorrect == Spec => []NoReceiptPastBoundary
<1>1. Base => NoReceiptPastBoundary
  BY DEF Base
<1> QED
  BY <1>1, AlwaysBase, PTL

----------------------------------------------------------------------------
(* The graph and the replay: steps that write nothing durable. *)

\* A step that writes nothing durable keeps the recorded snapshots.
LEMMA DurableStays ==
  ASSUME IInv, UNCHANGED durable
  PROVE  /\ SnapshotsOK'
         /\ TipSequence' = TipSequence /\ SnapshotLabel' = SnapshotLabel
         /\ Len(ledger) \in Nat /\ Len(replayed) = Len(ledger) + 1
BY Lengths DEF IInv, Base, durable, HistoryOK, IsSeq, SnapshotsOK, TipSequence, SnapshotLabel

\* Accepting or refusing a mutation, or exporting a snapshot.
LEMMA SubmitStep ==
  ASSUME IInv, SubmitBlocked \/ (\E r \in Requests : Submit(r)) \/ SnapshotExport
  PROVE  SnapshotsOK' /\ CallInv'
<1> USE WritePathAssumption
<1>1. UNCHANGED durable
  BY DEF SubmitBlocked, Submit, SnapshotExport
<1>2. CASE SubmitBlocked
  BY <1>2, <1>1, DurableStays DEF IInv, CallInv, SubmitBlocked, Return, Ready, durable
<1>3. ASSUME NEW r \in Requests, Submit(r) PROVE SnapshotsOK' /\ CallInv'
  BY <1>3, <1>1, DurableStays DEF IInv, CallInv, Submit, Ready, durable, IsSnapshot
<1>4. CASE SnapshotExport
  BY <1>4, <1>1, DurableStays DEF IInv, CallInv, SnapshotExport, Ready, durable
<1> QED
  BY <1>2, <1>3, <1>4

\* An append that raises leaves the ledger, and so the graph, as they are.
LEMMA AppendRaisesStep ==
  ASSUME IInv, ~LostAppends, LedgerAppendRaises
  PROVE  SnapshotsOK' /\ CallInv'
<1>1. UNCHANGED durable /\ UNCHANGED <<graph, boundary, runtime>> /\ pc = "append" /\ pc' = "idle"
  BY DEF LedgerAppendRaises, Return, durable
<1> QED
  BY <1>1, DurableStays DEF IInv, Base, Submitted, CallInv, Ready, durable

\* A fold that raises on an event other than a node event has missed nothing.
LEMMA FoldRaisesStep == ASSUME IInv, GraphFoldRaises PROVE SnapshotsOK' /\ CallInv'
<1> USE WritePathAssumption
<1>1. UNCHANGED durable /\ pc = "fold" /\ pc' = "idle" /\ boundary' = TipSequence
  BY DEF GraphFoldRaises, Return
<1>2. /\ Len(ledger) \in Nat /\ Len(ledger) > 0 /\ request = ledger[Len(ledger)]
      /\ graph = replayed[Len(ledger)]
  BY <1>1, Lengths DEF IInv, Base, Submitted, CallInv
<1>3. ledger[Len(ledger)].type \notin NodeEvents => graph' = graph
  BY <1>2 DEF GraphFoldRaises, Raises
<1>4. ledger[Len(ledger)].type \notin NodeEvents =>
        replayed[Len(ledger) + 1] = replayed[Len(ledger)]
  BY <1>2 DEF IInv, Base, HistoryOK, fold_live_event
<1>5. boundary' # NoBoundary
  BY <1>1, <1>2 DEF TipSequence
<1>6. CallInv'
  BY <1>1, <1>2, <1>3, <1>4, <1>5 DEF CallInv, Ready, durable
<1> QED
  BY <1>1, <1>6, DurableStays

\* Recovery and refold: the graph is the replay of the first "cursor" events.
LEMMA ReplayStep ==
  ASSUME IInv, Recover \/ Refold \/ RecoveryRaises \/ ReplayRead \/ ReplayFold
               \/ ReplayRaises \/ ReplayDone \/ Crash
  PROVE  SnapshotsOK' /\ CallInv'
<1> USE WritePathAssumption
<1>1. UNCHANGED durable
  BY DEF Recover, RecoverWithoutSnapshot, RecoverFromSnapshot, Refold, StartReplay,
     RecoveryRaises, ReplayRead, ReplayFold, ReplayRaises, ReplayDone, Crash
<1>2. /\ Len(ledger) \in Nat /\ Len(replayed) = Len(ledger) + 1
      /\ replayed[1] = EmptyGraph /\ SnapshotsOK'
  BY <1>1, DurableStays DEF IInv, Base, HistoryOK
<1>3. CASE RecoverWithoutSnapshot \/ Refold
  BY <1>1, <1>2, <1>3 DEF CallInv, RecoverWithoutSnapshot, Refold, StartReplay, durable
<1>4. ASSUME NEW l \in SnapshotLabels, RecoverFromSnapshot(l) PROVE CallInv'
  <2>1. l \in 0..Len(ledger) - 1 /\ storage[l] = replayed[l + 2]
    <3>1. PICK i \in 1..Len(ledger) : IsSnapshot(ledger[i]) /\ ledger[i].value = l
      BY DEF SnapshotLabels, IsSnapshot
    <3>2. l = LabelOf(i) /\ storage[LabelOf(i)] = replayed[LabelOf(i) + 2]
      BY <3>1 DEF IInv, Base, Labelled, SnapshotsOK
    <3> QED
      BY <1>2, <3>1, <3>2 DEF LabelOf
  <2> QED
    BY <1>1, <1>2, <1>4, <2>1 DEF CallInv, RecoverFromSnapshot, StartReplay, durable
<1>5. CASE RecoveryRaises \/ ReplayRaises \/ Crash
  BY <1>1, <1>2, <1>5 DEF CallInv, RecoveryRaises, ReplayRaises, Crash, Return, Ready
<1>6. CASE ReplayRead
  BY <1>1, <1>2, <1>6 DEF IInv, CallInv, ReplayRead, durable
<1>7. CASE ReplayFold
  <2>1. /\ cursor + 1 \in 1..Len(ledger) /\ graph = replayed[cursor + 1]
        /\ graph' = fold_live_event(graph, ledger[cursor + 1])
        /\ cursor' = cursor + 1
    BY <1>2, <1>7 DEF ReplayFold, IInv, Base, TypeOK, CallInv, TipSequence
  <2>2. graph' = replayed[cursor' + 1]
    BY <2>1 DEF IInv, Base, HistoryOK
  <2> QED
    BY <1>1, <1>2, <1>7, <2>2 DEF CallInv, ReplayFold, durable
<1>8. CASE ReplayDone
  <2>1. cursor = Len(ledger)
    BY <1>2, <1>8 DEF ReplayDone, IInv, Base, TypeOK, TipSequence
  <2>2. graph = replayed[Len(ledger) + 1]
    BY <1>8, <2>1 DEF ReplayDone, IInv, CallInv
  <2> QED
    BY <1>1, <1>2, <1>8, <2>2 DEF CallInv, ReplayDone, Return, Ready, durable
<1> QED
  BY <1>2, <1>3, <1>4, <1>5, <1>6, <1>7, <1>8 DEF Recover

----------------------------------------------------------------------------
(* The graph and the replay: steps that write the ledger, the storage or a *)
(* receipt.                                                                 *)

\* The event is now the newest one, not folded yet; the graph is the replay up
\* to it, and so is the snapshot if it records one.
LEMMA AppendStep == ASSUME IInv, LedgerAppends PROVE SnapshotsOK' /\ CallInv'
<1> DEFINE n == Len(ledger)
           e == request
<1>1. /\ LedgerAppend(e) /\ pc = "append" /\ pc' = "fold"
      /\ UNCHANGED <<storage, graph, boundary, runtime, request>>
  BY DEF LedgerAppends
<1>2. HistoryOK /\ Ready /\ EventOK(e) /\ graph = replayed[n + 1]
  BY <1>1 DEF IInv, Base, Submitted, CallInv
<1>3. /\ n \in Nat /\ Len(ledger') = n + 1 /\ ledger'[n + 1] = e
      /\ \A i \in 1..n : ledger'[i] = ledger[i]
      /\ replayed'[n + 2] = fold_live_event(replayed[n + 1], e)
      /\ \A i \in 1..n + 1 : replayed'[i] = replayed[i]
  BY <1>1, <1>2, AppendExtends
<1> HIDE DEF n, e
<1>4. SnapshotsOK'
  <2> SUFFICES ASSUME NEW i \in 1..n + 1, IsSnapshot(ledger'[i])
               PROVE  /\ LabelOf(i) \in DOMAIN storage
                      /\ storage[LabelOf(i)] = replayed'[LabelOf(i) + 2]
    BY <1>1, <1>3 DEF SnapshotsOK
  <2>1. CASE i \in 1..n
    <3>1. LabelOf(i) + 2 \in 1..n + 1
      BY <1>3, <2>1 DEF LabelOf
    <3>2. LabelOf(i) \in DOMAIN storage /\ storage[LabelOf(i)] = replayed[LabelOf(i) + 2]
      BY <1>3, <2>1 DEF IInv, SnapshotsOK, n
    <3> QED
      BY <1>3, <3>1, <3>2
  <2>2. CASE i = n + 1
    <3>1. IsSnapshot(e)
      BY <1>3, <2>2
    <3>2. SnapshotLabel \in DOMAIN storage /\ storage[SnapshotLabel] = graph
      BY <1>1, <3>1 DEF IInv, CallInv, e
    <3>3. SnapshotLabel = LabelOf(n + 1)
      BY <1>3 DEF SnapshotLabel, TipSequence, LabelOf, n
    <3>4. replayed'[LabelOf(n + 1) + 2] = graph
      <4>1. CASE n = 0
        <5>1. fold_live_event(replayed[n + 1], e) = replayed[n + 1]
          BY <3>1 DEF fold_live_event, IsSnapshot, NodeEvents
        <5> QED
          BY <1>2, <1>3, <4>1, <5>1 DEF LabelOf
      <4>2. CASE n > 0
        <5>1. LabelOf(n + 1) + 2 = n + 1 /\ n + 1 \in 1..n + 1
          BY <1>3, <4>2 DEF LabelOf
        <5> QED
          BY <1>2, <1>3, <5>1
      <4> QED
        BY <1>3, <4>1, <4>2
    <3> QED
      BY <2>2, <3>2, <3>3, <3>4
  <2> QED
    BY <1>3, <2>1, <2>2
<1>5. CallInv'
  BY <1>1, <1>2, <1>3 DEF CallInv, n, e
<1> QED
  BY <1>4, <1>5

\* A fold that succeeds makes the graph the replay of the whole ledger.
LEMMA FoldStep == ASSUME IInv, GraphFolds PROVE SnapshotsOK' /\ CallInv'
<1>1. /\ UNCHANGED <<ledger, storage, replayed, boundary, runtime>>
      /\ pc = "fold" /\ pc' = "idle" /\ graph' = fold_live_event(graph, request)
  BY DEF GraphFolds, Return
<1>2. /\ Len(ledger) \in Nat /\ Len(ledger) > 0 /\ Ready
      /\ request = ledger[Len(ledger)] /\ graph = replayed[Len(ledger)]
  BY <1>1, Lengths DEF IInv, Base, Submitted, CallInv
<1>3. graph' = replayed[Len(ledger) + 1]
  BY <1>1, <1>2 DEF IInv, Base, HistoryOK
<1> QED
  BY <1>1, <1>2, <1>3 DEF IInv, SnapshotsOK, CallInv, Ready

\* Storing an artifact keeps the recorded snapshots: the only one that can
\* have the same label is that of an empty ledger.
LEMMA StoreArtifact ==
  ASSUME IInv, pc = "upload"
  PROVE  LET l == SnapshotLabel  files == Artifacts(l) IN
         /\ DOMAIN files = DOMAIN storage \cup {l} /\ files[l] = graph
         /\ \A i \in 1..Len(ledger) :
              IsSnapshot(ledger[i]) =>
                LabelOf(i) \in DOMAIN files /\ files[LabelOf(i)] = replayed[LabelOf(i) + 2]
<1> DEFINE l == SnapshotLabel
           files == Artifacts(l)
<1>1. Len(ledger) \in Nat /\ payload = graph /\ runtime = "serving"
  BY Lengths DEF IInv, Base, Submitted, CallInv
<1>2. l \in Nat /\ DOMAIN files = DOMAIN storage \cup {l}
      /\ \A k \in DOMAIN files : files[k] = IF k = l THEN graph ELSE storage[k]
  BY <1>1 DEF SnapshotLabel, TipSequence, Artifacts
<1>3. ASSUME NEW i \in 1..Len(ledger), IsSnapshot(ledger[i])
      PROVE  LabelOf(i) \in DOMAIN files /\ files[LabelOf(i)] = replayed[LabelOf(i) + 2]
  <2>1. LabelOf(i) \in DOMAIN storage /\ storage[LabelOf(i)] = replayed[LabelOf(i) + 2]
    BY <1>3 DEF IInv, SnapshotsOK
  <2>2. CASE LabelOf(i) = l
    <3>1. i = 1 /\ Len(ledger) = 1 /\ l = 0
      <4>1. Len(ledger) \in Nat \ {0} /\ l = Len(ledger) - 1
        BY <1>1 DEF SnapshotLabel, TipSequence
      <4> HIDE DEF l
      <4> QED
        BY <2>2, <4>1 DEF LabelOf
    <3>2. graph = replayed[Len(ledger) + 1]
      BY <1>1, <1>3, <3>1 DEF IInv, CallInv, Ready, IsSnapshot, NodeEvents
    <3> QED
      BY <1>2, <2>1, <2>2, <3>1, <3>2
  <2>3. CASE LabelOf(i) # l
    BY <1>2, <2>1, <2>3
  <2> QED
    BY <2>2, <2>3
<1> QED
  BY <1>2, <1>3

\* Uploading a snapshot, or failing to.
LEMMA SnapshotStep ==
  ASSUME IInv, SnapshotUpload \/ SnapshotRaises
  PROVE  SnapshotsOK' /\ CallInv'
<1> DEFINE l == SnapshotLabel
           files == Artifacts(l)
<1>1. /\ UNCHANGED <<ledger, receipts, replayed, graph, boundary, runtime>>
      /\ pc = "upload" /\ storage' \in {storage, files} /\ SnapshotLabel' = l
  BY DEF SnapshotUpload, SnapshotRaises, TipSequence, SnapshotLabel
<1>2. /\ DOMAIN files = DOMAIN storage \cup {l} /\ files[l] = graph
      /\ \A i \in 1..Len(ledger) :
           IsSnapshot(ledger[i]) =>
             LabelOf(i) \in DOMAIN files /\ files[LabelOf(i)] = replayed[LabelOf(i) + 2]
  BY <1>1, StoreArtifact
<1> HIDE DEF files
<1>3. SnapshotsOK'
  BY <1>1, <1>2 DEF IInv, SnapshotsOK
<1>4. CASE pc' = "idle"
  BY <1>1, <1>3, <1>4 DEF IInv, CallInv, Ready
<1>5. CASE pc' # "idle"
  <2>1. pc' = "append" /\ storage' = files
    BY <1>5 DEF SnapshotUpload, SnapshotRaises, Return, files
  <2>2. CallInv'
    BY <1>1, <1>2, <2>1 DEF IInv, CallInv, Ready
  <2> QED
    BY <1>3, <2>2
<1> QED
  BY <1>4, <1>5

----------------------------------------------------------------------------
(* Safety, as long as an append that raises has written nothing. *)

\* No step leaves the invariant.
THEOREM StepIInv == ASSUME IInv, ~LostAppends, [Next]_vars PROVE IInv'
<1>1. Base'
  BY NextBase DEF IInv
<1>2. CASE UNCHANGED vars
  BY <1>2 DEF vars, IInv, Base, TypeOK, HistoryOK, IsSeq, Labelled, Submitted, SnapshotsOK,
     CallInv, NoReceiptPastBoundary, TipSequence, SnapshotLabel, Ready
<1>3. CASE Next
  <2>1. SnapshotsOK' /\ CallInv'
    BY <1>3, SubmitStep, FoldRaisesStep, ReplayStep, AppendStep, AppendRaisesStep, FoldStep,
       SnapshotStep DEF Next, CallStep
  <2> QED
    BY <1>1, <2>1 DEF IInv
<1> QED
  BY <1>2, <1>3

\* Every reachable state satisfies the inductive invariant.
THEOREM AlwaysIInv == ASSUME ~LostAppends PROVE Spec => []IInv
<1>1. IInv /\ [Next]_vars => IInv'
  BY StepIInv
<1> QED
  BY <1>1, InitIInv, PTL DEF Spec

\* A service that takes mutations has the graph that replaying its whole
\* ledger gives, for any requests, failures and crashes.
THEOREM ServingGraphCorrect == ASSUME ~LostAppends PROVE Spec => []ServingGraphIsReplay
<1>1. IInv => ServingGraphIsReplay
  BY DEF IInv, CallInv, ServingGraphIsReplay
<1> QED
  BY <1>1, AlwaysIInv, PTL

\* Every snapshot the ledger records is the replay up to its label.
THEOREM SnapshotsCorrect == ASSUME ~LostAppends PROVE Spec => []SnapshotsReplayable
<1>1. IInv => SnapshotsReplayable
  <2> SUFFICES ASSUME IInv, NEW l \in SnapshotLabels
               PROVE  l \in DOMAIN storage /\ l <= TipSequence /\ storage[l] = replayed[l + 2]
    BY DEF SnapshotsReplayable
  <2>1. PICK i \in 1..Len(ledger) : IsSnapshot(ledger[i]) /\ ledger[i].value = l
    BY DEF SnapshotLabels, IsSnapshot
  <2>2. Len(ledger) \in Nat /\ l = LabelOf(i)
    BY <2>1, Lengths DEF IInv, Base, Labelled
  <2> QED
    BY <2>1, <2>2 DEF IInv, SnapshotsOK, LabelOf, TipSequence
<1> QED
  BY <1>1, AlwaysIInv, PTL

----------------------------------------------------------------------------
(* Replaying the ledger: FoldLeft over the events is the history "replayed" *)

\* The function that FoldLeft is defined by, on the sets of positions D.
Newest(s) == CHOOSE x \in s : \A y \in s : x >= y

FoldsOn(h, l, D) ==
  h = [s \in SUBSET D |-> IF s = {} THEN EmptyGraph
                          ELSE fold_live_event(h[s \ {Newest(s)}], l[Newest(s)])]

\* The newest of positions that include the last one is the last one.
LEMMA NewestIs ==
  ASSUME NEW n \in Nat, NEW s \in SUBSET (1..n + 1), n + 1 \in s
  PROVE  Newest(s) = n + 1
<1>1. \A y \in s : n + 1 >= y /\ y \in Nat
  OBVIOUS
<1>2. \A x \in s : (\A y \in s : x >= y) <=> x = n + 1
  BY <1>1
<1> QED
  BY <1>2 DEF Newest

\* Without the last position they are positions of the sequence before it.
LEMMA Shrink ==
  ASSUME NEW n \in Nat, NEW s \in SUBSET (1..n + 1)
  PROVE  s \ {n + 1} \in SUBSET (1..n)
<1> SUFFICES ASSUME NEW x \in s, x # n + 1 PROVE x \in 1..n
  OBVIOUS
<1>1. x \in 1..n + 1
  OBVIOUS
<1> QED
  BY <1>1

\* There is one, by induction on the length of the ledger.
LEMMA FoldExists == ASSUME NEW l PROVE \A n \in Nat : \E h : FoldsOn(h, l, 1..n)
<1> DEFINE S == {n \in Nat : \E h : FoldsOn(h, l, 1..n)}
<1>1. 0 \in S
  <2> DEFINE h == [s \in SUBSET (1..0) |-> EmptyGraph]
  <2>1. \A s \in SUBSET (1..0) : s = {}
    OBVIOUS
  <2>2. FoldsOn(h, l, 1..0)
    BY <2>1 DEF FoldsOn
  <2> QED
    BY <2>2
<1>2. ASSUME NEW n \in Nat, n \in S PROVE n + 1 \in S
  <2>1. PICK h : FoldsOn(h, l, 1..n)
    BY <1>2
  <2> DEFINE D == 1..n + 1
             g == [s \in SUBSET D |-> IF n + 1 \in s THEN fold_live_event(h[s \ {n + 1}], l[n + 1]) ELSE h[s]]
             Step(s) == IF s = {} THEN EmptyGraph ELSE fold_live_event(g[s \ {Newest(s)}], l[Newest(s)])
  <2>2. ASSUME NEW s \in SUBSET D, n + 1 \in s
        PROVE  Newest(s) = n + 1 /\ s # {} /\ s \ {n + 1} \in SUBSET (1..n)
    BY <2>2, NewestIs, Shrink
  <2>3. ASSUME NEW s \in SUBSET D, n + 1 \notin s
        PROVE  s \in SUBSET (1..n) /\ \A x : s \ {x} \in SUBSET (1..n)
    <3>1. s = s \ {n + 1}
      BY <2>3
    <3>2. s \in SUBSET (1..n)
      BY <3>1, Shrink
    <3> QED
      BY <3>2
  <2>4. \A s \in SUBSET (1..n) : s \in SUBSET D /\ n + 1 \notin s /\ g[s] = h[s]
    OBVIOUS
  <2>5. ASSUME NEW s \in SUBSET D PROVE g[s] = Step(s)
    <3>1. CASE n + 1 \in s
      BY <2>2, <2>4, <3>1
    <3>2. CASE n + 1 \notin s
      <4>1. s \in SUBSET (1..n) /\ s \ {Newest(s)} \in SUBSET (1..n)
        BY <2>3, <3>2
      <4>2. h[s] = IF s = {} THEN EmptyGraph ELSE fold_live_event(h[s \ {Newest(s)}], l[Newest(s)])
        BY <2>1, <4>1 DEF FoldsOn
      <4>3. g[s] = h[s] /\ g[s \ {Newest(s)}] = h[s \ {Newest(s)}]
        BY <2>4, <4>1
      <4> QED
        BY <4>2, <4>3
    <3> QED
      BY <3>1, <3>2
  <2>6. DOMAIN g = SUBSET D /\ g = [s \in SUBSET D |-> g[s]]
    OBVIOUS
  <2> HIDE DEF g
  <2>7. FoldsOn(g, l, D)
    BY <2>5, <2>6 DEF FoldsOn
  <2> QED
    BY <2>7
<1> HIDE DEF S
<1>3. \A n \in Nat : n \in S
  BY <1>1, <1>2, NatSetInduction
<1> QED
  BY <1>3 DEF S

\* Up to each event it is what folding the events one by one gives.
LEMMA FoldIs ==
  ASSUME NEW l, NEW n \in Nat, NEW h, FoldsOn(h, l, 1..n),
         NEW r, r[1] = EmptyGraph,
         \A i \in 1..n : r[i + 1] = fold_live_event(r[i], l[i])
  PROVE  h[1..n] = r[n + 1]
<1> DEFINE S == {k \in Nat : k <= n => h[1..k] = r[k + 1]}
<1>1. 0 \in S
  <2>1. 1..0 = {} /\ 1..0 \in SUBSET (1..n)
    OBVIOUS
  <2> QED
    BY <2>1 DEF FoldsOn
<1>2. ASSUME NEW k \in Nat, k \in S PROVE k + 1 \in S
  <2> SUFFICES ASSUME k + 1 <= n PROVE h[1..k + 1] = r[(k + 1) + 1]
    OBVIOUS
  <2>1. Newest(1..k + 1) = k + 1
    BY DEF Newest
  <2> DEFINE s == 1..k + 1
  <2>2. s # {} /\ s \in SUBSET (1..n)
    OBVIOUS
  <2>3. s \ {k + 1} = 1..k
    OBVIOUS
  <2> HIDE DEF s
  <2>4. h[s] = fold_live_event(h[s \ {Newest(s)}], l[Newest(s)])
    BY <2>2 DEF FoldsOn
  <2>5. h[1..k + 1] = fold_live_event(h[1..k], l[k + 1])
    BY <2>1, <2>3, <2>4 DEF s
  <2>6. k + 1 \in 1..n
    OBVIOUS
  <2> QED
    BY <1>2, <2>5, <2>6
<1> HIDE DEF S
<1>3. n \in S
  BY <1>1, <1>2, NatSetInduction
<1> QED
  BY <1>3 DEF S

\* The abstract store's replay of a sequence of events.
LEMMA ReplayIs ==
  ASSUME NEW l, IsSeq(l), NEW r, r[1] = EmptyGraph,
         \A i \in 1..Len(l) : r[i + 1] = fold_live_event(r[i], l[i])
  PROVE  Store!Replay(l) = r[Len(l) + 1]
<1> DEFINE D == DOMAIN l
           h == CHOOSE h : FoldsOn(h, l, D)
<1>1. Len(l) \in Nat /\ D = 1..Len(l)
  BY SeqShape
<1>2. Store!Replay(l) = h[D]
  BY DEF Store!Replay, Store!FoldLeft, Store!MapThenFoldSet, Store!Max, FoldsOn, Newest
<1> HIDE DEF D
<1>3. \E g : FoldsOn(g, l, D)
  BY <1>1, FoldExists
<1>4. FoldsOn(h, l, D)
  BY <1>3
<1> HIDE DEF h
<1> QED
  BY <1>1, <1>2, <1>4, FoldIs

----------------------------------------------------------------------------
(* The promise of ConsistentStore *)

\* Replaying the ledger by the definition gives what the history says.
LEMMA ReplayLedger == ASSUME IInv PROVE Store!Replay(ledger) = replayed[Len(ledger) + 1]
BY ReplayIs DEF IInv, Base, HistoryOK

\* An appended event is behind the sequence as it was.
LEMMA FrontOfAppend ==
  ASSUME NEW s, IsSeq(s), NEW e
  PROVE  SubSeq(Append(s, e), 1, Len(s)) = s
<1> DEFINE t == Append(s, e)
           S == {s[i] : i \in DOMAIN s} \cup {e}
<1>1. s \in Seq(S) /\ Len(s) \in Nat
  BY SeqMonotonic, LenProperties DEF IsSeq
<1>2. t \in Seq(S) /\ Len(t) = Len(s) + 1 /\ \A i \in 1..Len(s) : t[i] = s[i]
  BY <1>1, AppendProperties
<1> QED
  BY <1>1, <1>2

\* At the start nothing is accepted and no graph is seen.
LEMMA InitStore == Init => Store!Init
BY DEF Init, Store!Init, AcceptedLedger, SeenGraph, Ready

\* The outcome of a fold accepts the event, with or without a graph to see; so
\* does a crash before it.
LEMMA AcceptStep ==
  ASSUME IInv, pc = "fold", ledger' = ledger, pc' # "fold", SeenGraph' \in {{}, {Store!Replay(ledger)}}
  PROVE  Store!Accept
<1>1. Len(ledger) \in Nat /\ Len(ledger) > 0 /\ Ready /\ IsSeq(ledger)
  BY Lengths DEF IInv, Base, Submitted, CallInv, HistoryOK
<1>2. AcceptedLedger = SubSeq(ledger, 1, Len(ledger) - 1) /\ AcceptedLedger' = ledger
  BY DEF AcceptedLedger, TipSequence
<1>3. SeenGraph = {graph}
  BY <1>1 DEF SeenGraph
<1>4. Len(SubSeq(ledger, 1, Len(ledger) - 1)) = Len(ledger) - 1
  <2> DEFINE S == {ledger[i] : i \in DOMAIN ledger}
  <2>1. \A i \in 1..Len(ledger) - 1 : ledger[i] \in S
    BY <1>1, SeqShape
  <2> DEFINE m == Len(ledger) - 1
  <2>2. m \in Nat /\ m \in Int /\ 1 \in Int
    BY <1>1
  <2> HIDE DEF S, m
  <2>3. \A i \in 1..m : ledger[i] \in S
    BY <2>1 DEF m
  <2>4. Len(SubSeq(ledger, 1, m)) = IF 1 <= m THEN m - 1 + 1 ELSE 0
    BY <2>2, <2>3, SubSeqProperties
  <2>5. Len(SubSeq(ledger, 1, m)) = m
    BY <2>2, <2>4
  <2> QED
    BY <2>5 DEF m
<1> QED
  BY <1>1, <1>2, <1>3, <1>4 DEF Store!Accept, Store!Front

\* Steps that neither touch the ledger nor begin, end or concern a replay.
LEMMA SameView ==
  ASSUME ledger' = ledger, graph' = graph, boundary' = boundary, runtime' = runtime,
         pc # "fold", pc' # "fold", pc \in {"read", "replay"} <=> pc' \in {"read", "replay"}
  PROVE  UNCHANGED Store!vars
BY DEF Store!vars, AcceptedLedger, SeenGraph, Ready

\* A step that takes the graph from view.
LEMMA StopStep ==
  ASSUME ledger' = ledger, pc # "fold", pc' # "fold", SeenGraph' = {}
  PROVE  Store!Stop
BY DEF Store!Stop, AcceptedLedger

\* Every step of the Write Path is one of the store, or a stutter.
LEMMA NextStore ==
  ASSUME IInv, ~LostAppends, [Next]_vars
  PROVE  [Store!Next]_(Store!vars)
<1>1. IInv'
  BY StepIInv
<1>2. CASE UNCHANGED vars
  BY <1>2 DEF vars, Store!vars, AcceptedLedger, SeenGraph, Ready, TipSequence
<1>3. CASE SubmitBlocked \/ (\E r \in Requests : Submit(r)) \/ SnapshotExport
  <2>1. UNCHANGED Store!vars
    BY <1>3, SameView DEF SubmitBlocked, Submit, SnapshotExport, Return, durable
  <2> QED
    BY <2>1
<1>4. CASE SnapshotUpload \/ SnapshotRaises \/ ReplayRead
  <2>1. UNCHANGED Store!vars
    BY <1>4, SameView DEF SnapshotUpload, SnapshotRaises, ReplayRead, Return, durable
  <2> QED
    BY <2>1
<1>5. CASE LedgerAppends
  <2>1. /\ ledger' = Append(ledger, request) /\ pc = "append" /\ pc' = "fold"
        /\ UNCHANGED <<graph, boundary, runtime>>
    BY <1>5 DEF LedgerAppends, LedgerAppend
  <2>2. IsSeq(ledger) /\ Len(ledger') = Len(ledger) + 1 /\ Len(ledger) \in Nat
    BY <2>1, AppendIsSeq DEF IInv, Base, HistoryOK
  <2>3. AcceptedLedger' = ledger /\ AcceptedLedger = ledger
    <3>1. TipSequence' = Len(ledger)
      BY <2>2 DEF TipSequence
    <3>2. AcceptedLedger' = SubSeq(ledger', 1, TipSequence')
      BY <2>1 DEF AcceptedLedger
    <3> QED
      BY <2>1, <2>2, <3>1, <3>2, FrontOfAppend DEF AcceptedLedger
  <2>4. SeenGraph' = SeenGraph
    BY <2>1 DEF SeenGraph, Ready
  <2> QED
    BY <2>3, <2>4 DEF Store!vars
<1>6. CASE LedgerAppendRaises
  <2>1. UNCHANGED Store!vars
    BY <1>6, SameView DEF LedgerAppendRaises, Return
  <2> QED
    BY <2>1
<1>7. CASE GraphFolds
  <2>1. pc = "fold" /\ pc' = "idle" /\ ledger' = ledger /\ UNCHANGED <<boundary, runtime>>
    BY <1>7 DEF GraphFolds, Return
  <2>2. Ready
    BY <2>1 DEF IInv, Base, Submitted
  <2>3. Ready' /\ SeenGraph' = {graph'}
    BY <2>1, <2>2 DEF Ready, SeenGraph
  <2>4. graph' = replayed'[Len(ledger') + 1]
    BY <1>1, <2>1, <2>3 DEF IInv, CallInv
  <2>5. replayed' = replayed
    BY <1>7 DEF GraphFolds
  <2>6. graph' = Store!Replay(ledger)
    BY <2>1, <2>4, <2>5, ReplayLedger
  <2>7. Store!Accept
    BY <2>1, <2>3, <2>6, AcceptStep
  <2> QED
    BY <2>7 DEF Store!Next
<1>8. CASE GraphFoldRaises
  <2>1. pc = "fold" /\ pc' = "idle" /\ ledger' = ledger /\ boundary' = TipSequence
    BY <1>8 DEF GraphFoldRaises, Return, durable
  <2>2. Len(ledger) \in Nat /\ Len(ledger) > 0
    BY <2>1, Lengths DEF IInv, Base, Submitted
  <2>3. SeenGraph' = {}
    BY <2>1, <2>2, WritePathAssumption DEF SeenGraph, Ready, TipSequence
  <2>4. Store!Accept
    BY <2>1, <2>3, AcceptStep
  <2> QED
    BY <2>4 DEF Store!Next
<1>9. CASE Recover \/ Refold
  <2>1. ledger' = ledger /\ pc = "idle" /\ pc' = "read"
    BY <1>9 DEF Recover, RecoverWithoutSnapshot, RecoverFromSnapshot, Refold, StartReplay, durable
  <2>2. Store!Stop
    BY <2>1, StopStep DEF SeenGraph
  <2> QED
    BY <2>2 DEF Store!Next
<1>10. CASE RecoveryRaises \/ ReplayRaises
  <2>1. ledger' = ledger /\ pc # "fold" /\ pc' = "idle" /\ runtime' = "starting"
    BY <1>10 DEF RecoveryRaises, ReplayRaises, Return, durable
  <2>2. Store!Stop
    BY <2>1, StopStep DEF SeenGraph, Ready
  <2> QED
    BY <2>2 DEF Store!Next
<1>11. CASE ReplayFold
  <2>1. ledger' = ledger /\ pc = "replay" /\ pc' = "replay"
    BY <1>11 DEF ReplayFold, durable
  <2>2. UNCHANGED Store!vars
    BY <2>1 DEF Store!vars, AcceptedLedger, SeenGraph
  <2> QED
    BY <2>2
<1>12. CASE ReplayDone
  <2>1. /\ ledger' = ledger /\ replayed' = replayed /\ graph' = graph
        /\ pc = "replay" /\ pc' = "idle" /\ boundary' = NoBoundary /\ runtime' = "serving"
    BY <1>12 DEF ReplayDone, Return, durable
  <2>2. graph' = replayed[Len(ledger) + 1]
    BY <1>1, <2>1 DEF IInv, CallInv, Ready
  <2>3. SeenGraph = {} /\ SeenGraph' = {Store!Replay(ledger)}
    BY <2>1, <2>2, ReplayLedger DEF SeenGraph, Ready
  <2>4. AcceptedLedger = ledger /\ AcceptedLedger' = ledger
    BY <2>1 DEF AcceptedLedger
  <2>5. Store!Start
    BY <2>3, <2>4 DEF Store!Start
  <2> QED
    BY <2>5 DEF Store!Next
<1>13. CASE Crash
  <2>1. ledger' = ledger /\ pc' = "idle" /\ runtime' = "starting"
    BY <1>13 DEF Crash, Return, durable
  <2>2. SeenGraph' = {}
    BY <2>1 DEF SeenGraph, Ready
  <2>3. CASE pc = "fold"
    BY <2>1, <2>2, <2>3, AcceptStep DEF Store!Next
  <2>4. CASE pc # "fold"
    BY <2>1, <2>2, <2>4, StopStep DEF Store!Next
  <2> QED
    BY <2>3, <2>4
<1> QED
  BY <1>2, <1>3, <1>4, <1>5, <1>6, <1>7, <1>8, <1>9, <1>10, <1>11, <1>12, <1>13 DEF Next, CallStep

\* The Write Path implements ConsistentStore: callers see no graph, or the one
\* that replaying the whole accepted ledger from genesis gives, and events are
\* accepted one at a time at its end, whatever raises, fails or is killed.
THEOREM PromiseCorrect == ASSUME ~LostAppends PROVE Spec => KeepsPromise
<1>1. Init => Store!Init
  BY InitStore
<1>2. IInv /\ [Next]_vars => [Store!Next]_(Store!vars)
  BY NextStore
<1> QED
  BY <1>1, <1>2, AlwaysIInv, PTL DEF Spec, KeepsPromise, Store!Spec

=============================================================================
