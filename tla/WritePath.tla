------------------------------ MODULE WritePath ------------------------------
(***************************************************************************)
(* FMWK-002, the Write Path: WritePathService (service.py) and the         *)
(* snapshot and recovery functions (recovery.py), between the Ledger, the  *)
(* Graph and the snapshot storage.                                         *)
(*                                                                         *)
(* One thread calls the service.  Each call to the ledger, the graph or    *)
(* the storage is a step; any of them may raise, and the process may be    *)
(* killed between two of them.  Ledger and storage are durable; the Graph  *)
(* and the service object are lost with the process.                       *)
(*                                                                         *)
(* The runtime is external (no module of the repository starts the         *)
(* service): it submits requests and takes snapshots only while it is      *)
(* "serving", it is "starting" from the start of the process, or from a    *)
(* recovery or refold that raised, until one succeeds (D4 ERR-004).        *)
(***************************************************************************)
EXTENDS NodeFolds, Sequences

CONSTANTS
  Requests,      \* the mutation requests callers submit
  NoBoundary,    \* durable_boundary_sequence is None
  NoRequest,     \* no mutation is being submitted
  LostAppends,   \* may ledger.append() raise although the event is durable?
  MaxEvents,     \* bound on the length of the ledger
  MaxFaults      \* bound on the failures of dependencies and the crashes

ASSUME WritePathAssumption ==
  /\ LostAppends \in BOOLEAN
  /\ MaxEvents \in Nat
  /\ MaxFaults \in Nat
  /\ NoBoundary \notin Nat
  /\ \A r \in Requests :
       /\ r.type \in (NodeEvents \cup PlainEvents) \ {"snapshot_created"}
       /\ r.type \in DecimalEvents => r.value \in Int \cup {Malformed}

VARIABLES
  ledger,    \* the events of the ledger; sequence number s is ledger[s + 1]
  storage,   \* snapshot artifacts: a function from labels to graph states
  graph,     \* the Graph in memory
  boundary,  \* durable_boundary_sequence
  runtime,   \* "starting" or "serving"
  pc,        \* where the call in progress stands
  request,   \* the request being submitted
  payload,   \* the exported graph state a snapshot call holds
  cursor,    \* next sequence number a recovery will fold
  outcome,   \* how the last call ended
  receipts,  \* history: sequence numbers callers hold a receipt for
  replayed,  \* history: replayed[s + 1] is the fold of the first s events
  faults     \* failures so far

durable == <<ledger, storage, receipts, replayed>>
call == <<pc, request, payload, cursor>>
vars == <<ledger, storage, graph, boundary, runtime, pc, request, payload, cursor,
          outcome, receipts, replayed, faults>>

TipSequence == Len(ledger) - 1

Ready == runtime = "serving" /\ boundary = NoBoundary

Init ==
  /\ ledger = <<>>
  /\ storage = EmptyGraph
  /\ graph = EmptyGraph
  /\ boundary = NoBoundary
  /\ runtime = "starting"
  /\ pc = "idle"
  /\ request = NoRequest
  /\ payload = EmptyGraph
  /\ cursor = 0
  /\ outcome = "none"
  /\ receipts = {}
  /\ replayed = <<EmptyGraph>>
  /\ faults = 0

Fault == faults < MaxFaults /\ faults' = faults + 1

\* The call in progress returns or raises; nothing of it is kept.
Return(how) ==
  /\ pc' = "idle"
  /\ outcome' = how
  /\ request' = NoRequest
  /\ payload' = EmptyGraph
  /\ cursor' = 0

\* The event becomes durable.  The history extends the replay by its fold.
LedgerAppend(e) ==
  /\ ledger' = Append(ledger, e)
  /\ replayed' = Append(replayed, fold_live_event(replayed[Len(replayed)], e))

----------------------------------------------------------------------------
(* submit_mutation(request) *)

SubmitBlocked ==
  /\ pc = "idle" /\ runtime = "serving" /\ boundary # NoBoundary
  /\ Return("fold_error")
  /\ UNCHANGED <<durable, graph, boundary, runtime, faults>>

Submit(r) ==
  /\ pc = "idle" /\ Ready
  /\ Len(ledger) < MaxEvents
  /\ pc' = "append"
  /\ request' = r
  /\ outcome' = "none"
  /\ UNCHANGED <<durable, graph, boundary, runtime, payload, cursor, faults>>

\* Mutant: the caller gets its receipt when the event is durable.
LedgerAppendsMutant ==
  /\ pc = "append"
  /\ LedgerAppend(request)
  /\ pc' = "fold"
  /\ receipts' = receipts \cup {TipSequence + 1}
  /\ UNCHANGED <<storage, graph, boundary, runtime, request, payload, cursor,
                 outcome, faults>>

LedgerAppends ==
  /\ pc = "append"
  /\ LedgerAppend(request)
  /\ pc' = "fold"
  /\ UNCHANGED <<storage, graph, boundary, runtime, request, payload, cursor,
                 outcome, receipts, faults>>

\* WritePathAppendError.  The boundary is not set: the service stays open.
LedgerAppendRaises ==
  /\ pc = "append"
  /\ Fault
  /\ \/ UNCHANGED <<ledger, replayed>>
     \/ LostAppends /\ LedgerAppend(request)
  /\ Return("append_error")
  /\ UNCHANGED <<storage, receipts, graph, boundary, runtime>>

GraphFolds ==
  /\ pc = "fold"
  /\ ~Raises(request)
  /\ graph' = fold_live_event(graph, request)
  /\ receipts' = receipts \cup {TipSequence}
  /\ Return("receipt")
  /\ UNCHANGED <<ledger, storage, replayed, boundary, runtime, faults>>

\* Mutant: a failed fold does not set the boundary.
GraphFoldRaisesMutant ==
  /\ pc = "fold"
  /\ \/ Raises(request) /\ graph' = PartialFold(graph, request) /\ UNCHANGED faults
     \/ Fault /\ UNCHANGED graph
  /\ Return("fold_error")
  /\ UNCHANGED <<durable, boundary, runtime>>

\* The payload cannot be folded, or the Graph raises before it changes.
GraphFoldRaises ==
  /\ pc = "fold"
  /\ \/ Raises(request) /\ graph' = PartialFold(graph, request) /\ UNCHANGED faults
     \/ Fault /\ UNCHANGED graph
  /\ boundary' = TipSequence
  /\ Return("fold_error")
  /\ UNCHANGED <<durable, runtime>>

----------------------------------------------------------------------------
(* create_snapshot() *)

SnapshotLabel == IF TipSequence < 0 THEN 0 ELSE TipSequence

SnapshotCreated(label) == [type |-> "snapshot_created", value |-> label]

Artifacts(label) ==
  [l \in DOMAIN storage \cup {label} |-> IF l = label THEN payload ELSE storage[l]]

SnapshotExport ==
  /\ pc = "idle" /\ runtime = "serving"
  /\ Len(ledger) < MaxEvents
  /\ pc' = "upload"
  /\ payload' = graph
  /\ outcome' = "none"
  /\ UNCHANGED <<durable, graph, boundary, runtime, request, cursor, faults>>

\* Mutant: the snapshot is recorded also when the service is blocked.
SnapshotUploadMutant ==
  /\ pc = "upload"
  /\ storage' = Artifacts(SnapshotLabel)
  /\ pc' = "append"
  /\ request' = SnapshotCreated(SnapshotLabel)
  /\ payload' = EmptyGraph
  /\ UNCHANGED <<ledger, receipts, replayed, graph, boundary, runtime, cursor,
                 outcome, faults>>

\* The tip is read, the artifact is stored under it, and the
\* snapshot_created mutation is submitted, which a set boundary blocks.
SnapshotUpload ==
  /\ pc = "upload"
  /\ storage' = Artifacts(SnapshotLabel)
  /\ \/ /\ boundary = NoBoundary
        /\ pc' = "append"
        /\ request' = SnapshotCreated(SnapshotLabel)
        /\ payload' = EmptyGraph
        /\ UNCHANGED <<cursor, outcome>>
     \/ boundary # NoBoundary /\ Return("fold_error")
  /\ UNCHANGED <<ledger, receipts, replayed, graph, boundary, runtime, faults>>

\* SnapshotWriteError: get_tip() or upload() raises; the artifact may have
\* been stored.
SnapshotRaises ==
  /\ pc = "upload"
  /\ Fault
  /\ storage' \in {storage, Artifacts(SnapshotLabel)}
  /\ Return("snapshot_error")
  /\ UNCHANGED <<ledger, receipts, replayed, graph, boundary, runtime>>

----------------------------------------------------------------------------
(* recover(snapshot) and refold_from_genesis() *)

\* The snapshots a recovery can be asked to start from: those the ledger
\* records.
SnapshotLabels == {ledger[i].value : i \in
                     {j \in 1..Len(ledger) : ledger[j].type = "snapshot_created"}}

StartReplay(g, from) ==
  /\ graph' = g
  /\ pc' = "read"
  /\ cursor' = from + 1
  /\ outcome' = "none"
  /\ UNCHANGED <<durable, boundary, runtime, request, payload, faults>>

RecoveryDue == runtime = "starting" \/ boundary # NoBoundary

\* No snapshot is given, or the given one cannot be loaded: reset_state()
\* and a replay from genesis.
RecoverWithoutSnapshot ==
  /\ pc = "idle" /\ RecoveryDue
  /\ StartReplay(EmptyGraph, -1)

\* Mutant: the event the snapshot is labelled with is folded again.
RecoverFromSnapshotMutant(label) ==
  /\ pc = "idle" /\ RecoveryDue
  /\ label \in DOMAIN storage
  /\ StartReplay(storage[label], label - 1)

RecoverFromSnapshot(label) ==
  /\ pc = "idle" /\ RecoveryDue
  /\ label \in DOMAIN storage
  /\ StartReplay(storage[label], label)

Refold ==
  /\ pc = "idle"
  /\ StartReplay(EmptyGraph, -1)

\* get_tip() raises before anything else is done.
RecoveryRaises ==
  /\ pc = "idle"
  /\ Fault
  /\ Return("connection_error")
  /\ runtime' = "starting"
  /\ UNCHANGED <<durable, graph, boundary>>

\* read_since(): beyond the tip it raises.
ReplayRead ==
  /\ pc = "read"
  /\ cursor <= Len(ledger)
  /\ pc' = "replay"
  /\ UNCHANGED <<durable, graph, boundary, runtime, request, payload, cursor,
                 outcome, faults>>

ReplayFold ==
  /\ pc = "replay"
  /\ cursor <= TipSequence
  /\ ~Raises(ledger[cursor + 1])
  /\ graph' = fold_live_event(graph, ledger[cursor + 1])
  /\ cursor' = cursor + 1
  /\ UNCHANGED <<durable, boundary, runtime, pc, request, payload, outcome, faults>>

\* ReplayRecoveryError: the boundary keeps its value and the graph what the
\* replay made of it; the runtime blocks.
ReplayRaises ==
  /\ \/ pc = "read" /\ cursor > Len(ledger) /\ UNCHANGED <<graph, faults>>
     \/ pc \in {"read", "replay"} /\ Fault /\ UNCHANGED graph
     \/ /\ pc = "replay" /\ cursor <= TipSequence
        /\ Raises(ledger[cursor + 1])
        /\ graph' = PartialFold(graph, ledger[cursor + 1])
        /\ UNCHANGED faults
  /\ Return("replay_error")
  /\ runtime' = "starting"
  /\ UNCHANGED <<durable, boundary>>

\* Mutant: a recovery that succeeds leaves the boundary set.
ReplayDoneMutant ==
  /\ pc = "replay"
  /\ cursor > TipSequence
  /\ runtime' = "serving"
  /\ Return("recovered")
  /\ UNCHANGED <<durable, graph, boundary, faults>>

ReplayDone ==
  /\ pc = "replay"
  /\ cursor > TipSequence
  /\ boundary' = NoBoundary
  /\ runtime' = "serving"
  /\ Return("recovered")
  /\ UNCHANGED <<durable, graph, faults>>

----------------------------------------------------------------------------
\* The process is killed and started again.
Crash ==
  /\ Fault
  /\ graph' = EmptyGraph
  /\ boundary' = NoBoundary
  /\ runtime' = "starting"
  /\ Return("none")
  /\ UNCHANGED durable

Recover ==
  \/ RecoverWithoutSnapshot
  \/ \E label \in SnapshotLabels : RecoverFromSnapshot(label)

CallStep ==
  \/ LedgerAppends \/ LedgerAppendRaises \/ GraphFolds \/ GraphFoldRaises
  \/ SnapshotUpload \/ SnapshotRaises
  \/ ReplayRead \/ ReplayFold \/ ReplayRaises \/ ReplayDone

Next ==
  \/ SubmitBlocked
  \/ \E r \in Requests : Submit(r)
  \/ SnapshotExport
  \/ Recover \/ Refold \/ RecoveryRaises
  \/ CallStep
  \/ Crash

\* A call that has begun goes on.  The runtime recovers when it has to (D4
\* ERR-002 and ERR-004 make it the caller's next action), however often it
\* takes a snapshot before it does.
Fairness == WF_vars(CallStep) /\ SF_vars(RecoverWithoutSnapshot)

Spec == Init /\ [][Next]_vars /\ Fairness

----------------------------------------------------------------------------
(* Properties. *)

Outcomes == {"none", "receipt", "append_error", "fold_error", "snapshot_error",
             "replay_error", "connection_error", "recovered"}

\* Types, and with them the methylation bound of every graph that exists, in
\* memory or in a snapshot: 0.0 to 1.0 (D4 IN-001 postcondition 5).
TypeOK ==
  /\ GraphOK(graph) /\ GraphOK(payload)
  /\ \A l \in DOMAIN storage : l \in Nat /\ GraphOK(storage[l])
  /\ boundary \in Nat \cup {NoBoundary}
  /\ runtime \in {"starting", "serving"}
  /\ pc \in {"idle", "append", "fold", "upload", "read", "replay"}
  /\ cursor \in 0..Len(ledger)
  /\ outcome \in Outcomes
  /\ receipts \subseteq 0..TipSequence
  /\ faults \in 0..MaxFaults

\* Whenever the next mutation would be accepted, the Graph is what replaying
\* the whole ledger gives: after failed folds, partial folds, failed and
\* repeated recoveries, from snapshots or from genesis, and crashes between
\* any two steps (D2 SC-005, SC-007).
ServingGraphIsReplay ==
  pc = "idle" /\ Ready => graph = replayed[Len(ledger) + 1]

\* While the service is blocked its boundary is the newest event, nothing was
\* appended behind it, and no caller holds a receipt for it (D2 SC-008, D4
\* ERR-002).
NoReceiptPastBoundary ==
  boundary # NoBoundary => boundary = TipSequence /\ boundary \notin receipts

\* Every snapshot the ledger records is there and is the replay up to its
\* label, also when a snapshot of a blocked service, or one that failed, was
\* stored under the same label before (D3 E-004, D4 IN-002).
SnapshotsReplayable ==
  \A l \in SnapshotLabels :
    l \in DOMAIN storage /\ l <= TipSequence /\ storage[l] = replayed[l + 2]

\* An event whose payload no fold accepts.
Poisoned == \E i \in 1..Len(ledger) : Raises(ledger[i])

\* A service that is blocked or not recovered comes back, unless the ledger
\* holds an event that no replay gets past.
Heals == ~Ready ~> (pc = "idle" /\ Ready) \/ Poisoned

\* The refinement mapping to ConsistentStore: an event is accepted once it has
\* been folded or the fold has failed; the Graph is seen while the service
\* takes mutations.
AcceptedLedger == IF pc = "fold" THEN SubSeq(ledger, 1, TipSequence) ELSE ledger

SeenGraph == IF Ready /\ pc \notin {"read", "replay"} THEN {graph} ELSE {}

Store == INSTANCE ConsistentStore
           WITH log <- AcceptedLedger, view <- SeenGraph,
                Empty <- EmptyGraph, Fold <- fold_live_event

\* The Write Path keeps the promise of ConsistentStore.
KeepsPromise == Store!Spec

\* A recovery that reports success has rebuilt the graph that replaying the
\* full ledger gives (D2 SC-005).
RecoveredEquivalent ==
  pc = "idle" /\ outcome = "recovered" => graph = replayed[Len(ledger) + 1]

=============================================================================
