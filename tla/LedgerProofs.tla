---------------------------- MODULE LedgerProofs ----------------------------
(***************************************************************************)
(* Proofs about Ledger: with fewer events than the scan limit the log is   *)
(* typed, its chain verifies, acknowledged events stay, and every step is  *)
(* a step of LedgerLog.                                                    *)
(***************************************************************************)
EXTENDS Ledger, SeqFacts

----------------------------------------------------------------------------
(* The inductive invariant. *)

\* The stored events s, when n event ids have been handed out.
StoreOK(s, n) ==
  /\ IsSeq(s)
  /\ Len(s) <= n
  /\ \A i \in 1..Len(s) :
       /\ DOMAIN s[i] = EventFields
       /\ s[i].event_id \in 1..n
       /\ s[i].sequence = i - 1
       /\ s[i].hash = canonical_hash(s[i])
       /\ s[i].previous_hash = IF i = 1 THEN Genesis ELSE s[i - 1].hash
  /\ \A i, j \in 1..Len(s) : s[i].event_id = s[j].event_id => i = j

\* An event that fits behind s and has the newest id.
Fresh(e, s, n) ==
  /\ DOMAIN e = EventFields
  /\ n \in Nat /\ Len(s) < n
  /\ e.event_id = n
  /\ e.sequence = Len(s)
  /\ e.hash = canonical_hash(e)
  /\ e.previous_hash = IF Len(s) = 0 THEN Genesis ELSE s[Len(s)].hash
  /\ \A i \in 1..Len(s) : s[i].event_id # n

\* An event whose set reached the store although it raised.
Landed(e, s) == Len(s) \in Nat \ {0} /\ e = s[Len(s)]

Pending(c) == call[c].pc \in {"set", "retry"}

Pcs == {"idle", "tip", "set", "retry"}

Results == {"none", "ok", "serialization_error", "sequence_error", "connection_error"}

CallOK(c) ==
  /\ DOMAIN call[c] = {"pc", "event", "outcome"}
  /\ call[c].pc \in Pcs
  /\ call[c].outcome \in Results
  /\ call[c].pc # "idle" <=> lock = c
  /\ call[c].pc = "tip" => issued < MaxAppends
  /\ Pending(c) => Fresh(call[c].event, store, issued) \/ Landed(call[c].event, store)

AckedOK(s) ==
  \A e \in acked : e.sequence \in Nat /\ e.sequence < Len(s) /\ s[e.sequence + 1] = e

IInv ==
  /\ lock \in Callers \cup {NoCaller}
  /\ issued \in 0..MaxAppends
  /\ StoreOK(store, issued)
  /\ DOMAIN call = Callers
  /\ \A c \in Callers : CallOK(c)
  /\ AckedOK(store)

\* Setting the pending event keeps the store in order, whether the event is
\* new or has reached it before.
LEMMA PutOK ==
  ASSUME StoreOK(store, issued), AckedOK(store), issued \in Nat,
         NEW e, Fresh(e, store, issued) \/ Landed(e, store)
  PROVE  /\ StoreOK(Put(e), issued)
         /\ Landed(e, Put(e))
         /\ AckedOK(Put(e))
         /\ e.sequence \in Nat /\ e.sequence < Len(Put(e)) /\ Put(e)[e.sequence + 1] = e
         /\ \/ Put(e) = store
            \/ Put(e) = Append(store, e) /\ Fresh(e, store, issued)
<1>1. IsSeq(store) /\ Len(store) \in Nat
  BY AppendIsSeq DEF StoreOK
<1>2. CASE Landed(e, store)
  <2>1. Len(store) \in 1..Len(store) /\ e = store[Len(store)]
    BY <1>1, <1>2 DEF Landed
  <2>2. e.sequence = Len(store) - 1
    BY <1>1, <2>1 DEF StoreOK
  <2>3. Put(e) = [store EXCEPT ![Len(store)] = e]
    BY <1>1, <2>2 DEF Put
  <2>4. Put(e) = store
    BY <1>1, <2>1, <2>3, PutAgain
  <2> QED
    BY <1>1, <1>2, <2>1, <2>2, <2>4
<1>3. CASE Fresh(e, store, issued)
  <2>1. Put(e) = Append(store, e)
    BY <1>3 DEF Put, Fresh
  <2> DEFINE s == Append(store, e)
  <2>2. /\ IsSeq(s)
        /\ Len(s) = Len(store) + 1
        /\ \A i \in 1..Len(store) : s[i] = store[i]
        /\ s[Len(store) + 1] = e
    BY <1>1, AppendIsSeq
  <2> HIDE DEF s
  <2>3. StoreOK(s, issued)
    <3>1. ASSUME NEW i \in 1..Len(s)
          PROVE  /\ DOMAIN s[i] = EventFields
                 /\ s[i].event_id \in 1..issued
                 /\ s[i].sequence = i - 1
                 /\ s[i].hash = canonical_hash(s[i])
                 /\ s[i].previous_hash = IF i = 1 THEN Genesis ELSE s[i - 1].hash
      <4>1. CASE i \in 1..Len(store)
        <5>1. i - 1 \in 1..Len(store) \/ i = 1
          BY <1>1, <4>1
        <5> QED
          BY <1>1, <2>2, <4>1, <5>1 DEF StoreOK
      <4>2. CASE i = Len(store) + 1
        <5>1. Len(store) = 0 \/ Len(store) \in 1..Len(store)
          BY <1>1
        <5>2. i = 1 <=> Len(store) = 0
          BY <1>1, <4>2
        <5>3. i - 1 = Len(store)
          BY <1>1, <4>2
        <5> QED
          BY <1>1, <1>3, <2>2, <4>2, <5>1, <5>2, <5>3 DEF Fresh
      <4> QED
        BY <1>1, <2>2, <4>1, <4>2
    <3>2. \A i, j \in 1..Len(s) : s[i].event_id = s[j].event_id => i = j
      BY <1>1, <1>3, <2>2 DEF StoreOK, Fresh
    <3> QED
      BY <1>1, <1>3, <2>2, <3>1, <3>2 DEF StoreOK, Fresh
  <2>4. AckedOK(s)
    BY <1>1, <2>2 DEF AckedOK
  <2>5. Landed(e, s) /\ e.sequence = Len(store)
    BY <1>1, <1>3, <2>2 DEF Landed, Fresh
  <2> QED
    BY <1>1, <1>3, <2>1, <2>2, <2>3, <2>4, <2>5 DEF s
<1> QED
  BY <1>2, <1>3

----------------------------------------------------------------------------
(* The invariant is inductive as long as no scan is cut off. *)

\* The empty ledger satisfies the invariant.
THEOREM InitIInv == Init => IInv
<1> SUFFICES ASSUME Init PROVE IInv
  OBVIOUS
<1>1. IsSeq(store) /\ Len(store) = 0
  BY EmptySeq DEF Init, IsSeq
<1>2. StoreOK(store, issued)
  BY <1>1 DEF StoreOK, Init
<1>3. \A c \in Callers : CallOK(c)
  BY LedgerAssumption DEF Init, CallOK, Idle, Pending, Pcs, Results
<1> QED
  BY <1>2, <1>3, LedgerAssumption DEF Init, IInv, AckedOK

\* Only the thread that holds the lock is inside append().
LEMMA OneAppender ==
  ASSUME IInv, NEW c \in Callers, call[c].pc # "idle"
  PROVE  lock = c /\ \A d \in Callers \ {c} : call[d].pc = "idle"
BY LedgerAssumption DEF IInv, CallOK

\* Without more events than a scan returns, the tip append() reads is the tip.
LEMMA TipIsLast ==
  ASSUME IInv, MaxAppends <= ScanLimit
  PROVE  /\ TipSequence = Len(store) - 1
         /\ TipHash = IF Len(store) = 0 THEN Genesis ELSE store[Len(store)].hash
<1>1. Len(store) \in Nat /\ Len(store) <= ScanLimit
  BY LedgerAssumption, AppendIsSeq DEF IInv, StoreOK
<1>2. get_count = Len(store)
  BY <1>1 DEF get_count
<1>3. CASE Len(store) = 0
  BY <1>2, <1>3 DEF TipSequence, TipHash
<1>4. CASE Len(store) \in 1..Len(store)
  BY <1>1, <1>2, <1>4 DEF TipSequence, TipHash, IInv, StoreOK
<1> QED
  BY <1>1, <1>3, <1>4

\* A step that leaves the store, or puts the event of thread c into it, and
\* after which c is back or still holds that event.
LEMMA AfterPut ==
  ASSUME IInv, NEW c \in Callers, Pending(c),
         store' \in {store, Put(call[c].event)},
         acked' \in {acked, acked \cup {call[c].event}},
         acked' # acked => store' = Put(call[c].event),
         issued' = issued
  PROVE  /\ StoreOK(store, issued)'
         /\ AckedOK(store)'
         /\ Fresh(call[c].event, store', issued) \/ Landed(call[c].event, store')
<1> DEFINE e == call[c].event
<1>1. /\ StoreOK(store, issued) /\ AckedOK(store) /\ issued \in Nat
      /\ Fresh(e, store, issued) \/ Landed(e, store)
  BY LedgerAssumption DEF IInv, CallOK
<1>2. /\ StoreOK(Put(e), issued)
      /\ Landed(e, Put(e))
      /\ AckedOK(Put(e))
      /\ e.sequence \in Nat /\ e.sequence < Len(Put(e)) /\ Put(e)[e.sequence + 1] = e
  BY <1>1, PutOK
<1> HIDE DEF e
<1>3. StoreOK(store', issued) /\ AckedOK(store')
  BY <1>1, <1>2 DEF e
<1>4. AckedOK(store)'
  BY <1>2, <1>3 DEF AckedOK, e
<1> QED
  BY <1>1, <1>2, <1>3, <1>4 DEF StoreOK, e

\* No step of an append, a read or a restart leaves the invariant, as long as
\* the ledger holds no more events than a scan returns.
THEOREM StepIInv ==
  ASSUME MaxAppends <= ScanLimit, IInv, [Next]_vars
  PROVE  IInv'
<1> USE LedgerAssumption
<1>0. /\ StoreOK(store, issued) /\ AckedOK(store) /\ DOMAIN call = Callers
      /\ issued \in 0..MaxAppends /\ issued \in Nat
      /\ IsSeq(store) /\ Len(store) \in Nat
  BY AppendIsSeq DEF IInv, StoreOK
\* The log is left alone; only where the calls stand changes.
<1>1. ASSUME UNCHANGED <<store, issued, acked>>,
             lock' \in Callers \cup {NoCaller},
             DOMAIN call' = Callers,
             \A c \in Callers : CallOK(c)'
      PROVE  IInv'
  BY <1>0, <1>1 DEF IInv, StoreOK, IsSeq, AckedOK
<1>2. ASSUME NEW c \in Callers, AppendInvalid(c) \/ AppendContended(c)
      PROVE  IInv'
  <2>1. /\ DOMAIN call' = Callers /\ \A d \in Callers \ {c} : call'[d] = call[d]
        /\ call[c].pc = "idle" /\ call'[c].pc = "idle"
        /\ DOMAIN call'[c] = DOMAIN call[c]
        /\ call'[c].outcome \in Results
    BY <1>0, <1>2 DEF AppendInvalid, AppendContended, Return, Results, IInv, CallOK
  <2>2. UNCHANGED <<store, lock, issued, acked>>
    BY <1>2 DEF AppendInvalid, AppendContended
  <2>3. \A d \in Callers : CallOK(d)'
    BY <2>1, <2>2 DEF IInv, CallOK, Pending, Pcs
  <2> QED
    BY <1>1, <2>1, <2>2, <2>3 DEF IInv
<1>3. ASSUME NEW c \in Callers, AppendLock(c)
      PROVE  IInv'
  <2>1. /\ DOMAIN call' = Callers /\ \A d \in Callers \ {c} : call'[d] = call[d]
        /\ call'[c] = [pc |-> "tip", event |-> NoEvent, outcome |-> "none"]
    BY <1>0, <1>3 DEF AppendLock
  <2>2. UNCHANGED <<store, issued, acked>> /\ lock = NoCaller /\ lock' = c
        /\ issued < MaxAppends
    BY <1>3 DEF AppendLock
  <2>3. \A d \in Callers : CallOK(d)'
    BY <2>1, <2>2 DEF IInv, CallOK, Pending, Pcs, Results
  <2> QED
    BY <1>1, <2>1, <2>2, <2>3
<1>4. ASSUME NEW c \in Callers, AppendReadTip(c)
      PROVE  IInv'
  <2> DEFINE e == NewEvent
  <2>1. /\ DOMAIN call' = Callers /\ \A d \in Callers \ {c} : call'[d] = call[d]
        /\ DOMAIN call'[c] = DOMAIN call[c] /\ call'[c].outcome = call[c].outcome
        /\ call'[c].pc = "set" /\ call'[c].event = e
    BY <1>0, <1>4 DEF AppendReadTip, IInv, CallOK
  <2>2. UNCHANGED <<store, lock, acked>> /\ issued' = issued + 1 /\ call[c].pc = "tip"
    BY <1>4 DEF AppendReadTip
  <2>3. issued < MaxAppends /\ lock = c
    BY <2>2, OneAppender DEF IInv, CallOK
  <2>4. Fresh(e, store, issued + 1)
    <3>1. /\ DOMAIN e = EventFields
          /\ e.event_id = issued + 1
          /\ e.sequence = TipSequence + 1
          /\ e.previous_hash = TipHash
          /\ e.hash = canonical_hash(e)
      BY DEF NewEvent, EventFields, canonical_hash
    <3> HIDE DEF e
    <3>2. e.sequence = Len(store) /\ Len(store) < issued + 1
      BY <1>0, <3>1, TipIsLast DEF StoreOK
    <3>3. \A i \in 1..Len(store) : store[i].event_id # issued + 1
      BY <1>0 DEF StoreOK
    <3> QED
      BY <1>0, <3>1, <3>2, <3>3, TipIsLast DEF Fresh
  <2> HIDE DEF e
  <2>5. StoreOK(store, issued)' /\ AckedOK(store)'
    BY <1>0, <2>2 DEF StoreOK, IsSeq, AckedOK
  <2>6. \A d \in Callers : CallOK(d)'
    <3>1. CallOK(c)'
      BY <2>1, <2>2, <2>3, <2>4 DEF IInv, CallOK, Pending, Pcs, Results
    <3>2. ASSUME NEW d \in Callers \ {c} PROVE CallOK(d)'
      <4>1. call[d].pc = "idle"
        BY <2>2, OneAppender
      <4> QED
        BY <2>1, <2>2, <2>3, <4>1 DEF IInv, CallOK, Pending, Pcs
    <3> QED
      BY <3>1, <3>2
  <2> QED
    BY <1>0, <2>1, <2>2, <2>3, <2>5, <2>6 DEF IInv
<1>5. ASSUME NEW c \in Callers, AppendReadTipFails(c)
      PROVE  IInv'
  <2>1. /\ DOMAIN call' = Callers /\ \A d \in Callers \ {c} : call'[d] = call[d]
        /\ call[c].pc = "tip" /\ call'[c].pc = "idle"
        /\ DOMAIN call'[c] = DOMAIN call[c]
        /\ call'[c].outcome \in Results
    BY <1>0, <1>5 DEF AppendReadTipFails, Return, Results, IInv, CallOK
  <2>2. UNCHANGED <<store, issued, acked>> /\ lock' = NoCaller /\ lock = c
    BY <1>5, <2>1, OneAppender DEF AppendReadTipFails
  <2>3. \A d \in Callers : CallOK(d)'
    BY <2>1, <2>2 DEF IInv, CallOK, Pending, Pcs
  <2> QED
    BY <1>1, <2>1, <2>2, <2>3
\* The store accesses of a pending event.
<1>6. ASSUME NEW c \in Callers, AppendSet(c) \/ AppendSetRaises(c) \/ AppendRetryFails(c)
      PROVE  IInv'
  <2>1. Pending(c) /\ lock = c /\ \A d \in Callers \ {c} : call[d].pc = "idle"
    BY <1>6, OneAppender DEF AppendSet, AppendSetRaises, AppendRetryFails, Pending
  <2>2. /\ store' \in {store, Put(call[c].event)}
        /\ acked' \in {acked, acked \cup {call[c].event}}
        /\ acked' # acked => store' = Put(call[c].event)
        /\ issued' = issued
    BY <1>6 DEF AppendSet, AppendSetRaises, AppendRetryFails
  <2>3. /\ DOMAIN call' = Callers /\ \A d \in Callers \ {c} : call'[d] = call[d]
        /\ DOMAIN call'[c] = DOMAIN call[c] /\ call'[c].event = call[c].event
        /\ call'[c].outcome \in Results
        /\ \/ call'[c].pc = "idle" /\ lock' = NoCaller
           \/ call'[c].pc = "retry" /\ lock' = lock
    BY <1>0, <1>6 DEF AppendSet, AppendSetRaises, AppendRetryFails, Return, Goto,
                      Results, IInv, CallOK
  <2>4. /\ StoreOK(store, issued)' /\ AckedOK(store)'
        /\ Fresh(call[c].event, store', issued) \/ Landed(call[c].event, store')
    BY <2>1, <2>2, AfterPut
  <2>5. \A d \in Callers : CallOK(d)'
    <3>1. CallOK(c)'
      BY <2>1, <2>2, <2>3, <2>4 DEF IInv, CallOK, Pending, Pcs
    <3>2. ASSUME NEW d \in Callers \ {c} PROVE CallOK(d)'
      BY <2>1, <2>3 DEF IInv, CallOK, Pending, Pcs
    <3> QED
      BY <3>1, <3>2
  <2> QED
    BY <1>0, <2>1, <2>2, <2>3, <2>4, <2>5 DEF IInv
<1>7. ASSUME Restart
      PROVE  IInv'
  <2>1. /\ call' = [c \in Callers |-> Idle] /\ lock' = NoCaller
        /\ UNCHANGED <<issued, acked>>
    BY <1>7 DEF Restart
  <2>2. \A d \in Callers : CallOK(d)'
    BY <2>1 DEF CallOK, Pending, Idle, Pcs, Results
  <2>3. StoreOK(store, issued)' /\ AckedOK(store)'
    <3>1. CASE store' = store
      BY <1>0, <2>1, <3>1 DEF StoreOK, IsSeq, AckedOK
    <3>2. CASE store' # store
      <4>1. PICK c \in Callers : Pending(c) /\ store' = Put(call[c].event)
        BY <1>7, <3>2 DEF Restart, Pending
      <4> QED
        BY <2>1, <4>1, AfterPut
    <3> QED
      BY <3>1, <3>2
  <2> QED
    BY <1>0, <2>1, <2>2, <2>3 DEF IInv
<1>8. ASSUME UNCHANGED <<store, lock, call, issued, acked>>
      PROVE  IInv'
  BY <1>1, <1>8 DEF IInv, CallOK, Pending
<1> QED
  <2>1. CASE UNCHANGED vars
    BY <1>8, <2>1 DEF vars
  <2>2. ASSUME NEW r \in Readers, ReadBegin(r) \/ ReadStep(r) \/ ReadEnd(r)
        PROVE  IInv'
    BY <1>8, <2>2 DEF ReadBegin, ReadStep, ReadTip, ReadRange, ReadScan, ReadFails, ReadEnd
  <2> QED
    BY <1>2, <1>3, <1>4, <1>5, <1>6, <1>7, <2>1, <2>2 DEF Next, AppendStep

----------------------------------------------------------------------------
(* Safety. *)

\* Every reachable state satisfies the inductive invariant.
THEOREM AlwaysIInv == ASSUME MaxAppends <= ScanLimit PROVE Spec => []IInv
<1>1. IInv /\ [Next]_vars => IInv'
  BY StepIInv
<1> QED
  BY <1>1, InitIInv, PTL DEF Spec

\* The state of the Ledger is typed and its store has no gap.
THEOREM TypeCorrect == ASSUME MaxAppends <= ScanLimit PROVE Spec => []TypeOK
<1>1. IInv => TypeOK
  <2> SUFFICES ASSUME IInv PROVE TypeOK
    OBVIOUS
  <2>1. IsSeq(store) /\ Len(store) \in Nat /\ StoreOK(store, issued) /\ issued \in Nat
    BY AppendIsSeq, LedgerAssumption DEF IInv, StoreOK
  <2>2. \A i \in 1..Len(store) :
          /\ DOMAIN store[i] = EventFields
          /\ store[i].event_id \in 1..issued
          /\ store[i].sequence \in Nat
    BY <2>1 DEF StoreOK
  <2>3. ASSUME NEW c \in Callers, call[c].pc \in {"set", "retry"}
        PROVE  /\ DOMAIN call[c].event = EventFields
               /\ call[c].event.event_id \in 1..issued
               /\ call[c].event.sequence \in 0..Len(store)
    <3>1. CASE Fresh(call[c].event, store, issued)
      BY <2>1, <3>1 DEF Fresh
    <3>2. CASE Landed(call[c].event, store)
      <4>1. Len(store) \in 1..Len(store) /\ call[c].event = store[Len(store)]
        BY <3>2 DEF Landed
      <4> QED
        BY <2>1, <4>1 DEF StoreOK
    <3> QED
      BY <2>3, <3>1, <3>2 DEF IInv, CallOK, Pending
  <2> QED
    BY <2>1, <2>2, <2>3 DEF IInv, TypeOK, CallOK, Pcs, Results, IsSeq
<1> QED
  BY <1>1, AlwaysIInv, PTL

\* The hash chain verifies from the genesis sentinel to the newest event, and
\* no event is stored twice, at every moment of every append.
THEOREM ChainCorrect == ASSUME MaxAppends <= ScanLimit PROVE Spec => []ChainIntact
<1>1. IInv => ChainIntact
  <2> SUFFICES ASSUME IInv PROVE ChainIntact
    OBVIOUS
  <2>1. Len(store) \in Nat /\ StoreOK(store, issued)
    BY AppendIsSeq DEF IInv, StoreOK
  <2>2. ValidChain(store)
    BY <2>1 DEF StoreOK, ValidChain
  <2> QED
    BY <2>1, <2>2 DEF StoreOK, ChainIntact
<1> QED
  BY <1>1, AlwaysIInv, PTL

\* What append() has returned a number for stays stored at that number.
THEOREM AckedCorrect == ASSUME MaxAppends <= ScanLimit PROVE Spec => []AckedEventsStay
<1>1. IInv => AckedEventsStay
  BY DEF IInv, AckedOK, AckedEventsStay
<1> QED
  BY <1>1, AlwaysIInv, PTL

----------------------------------------------------------------------------
(* Ledger implements LedgerLog. *)

\* How the abstract state of one call is read off the detailed one.
LEMMA CallStateOf ==
  ASSUME NEW c \in Callers
  PROVE  CallState[c] =
           IF call[c].pc # "idle" THEN LoggedOrOpen(c)
           ELSE IF call[c].outcome \in {"none", "ok"} THEN call[c].outcome ELSE "error"
BY DEF CallState

\* A step of thread c that changes no other call, while the store stays or
\* the others are idle, changes the abstract state at c only.
LEMMA OnlyCallerMoves ==
  ASSUME NEW c \in Callers, \A d \in Callers \ {c} : call'[d] = call[d],
         store' = store \/ \A d \in Callers \ {c} : call[d].pc = "idle"
  PROVE  CallState' = [CallState EXCEPT ![c] = CallState'[c]]
BY DEF CallState, LoggedOrOpen

\* A new key at the end of the store is one more event at the end of the log.
LEMMA AppendGrows ==
  ASSUME IsSeq(store), NEW e, store' = Append(store, e)
  PROVE  Log!GrowsByOne
BY AppendIsSeq DEF Log!GrowsByOne

\* Where the event of a call stands: behind the log, or its newest event.
LEMMA PendingState ==
  ASSUME IInv, NEW c \in Callers, Pending(c)
  PROVE  LET e == call[c].event IN
         \/ /\ CallState[c] = "logged" /\ e.sequence < Len(store)
            /\ Put(e) = store /\ Landed(e, store)
         \/ /\ CallState[c] = "open" /\ e.sequence = Len(store)
            /\ Put(e) = Append(store, e)
<1> DEFINE e == call[c].event
<1>1. /\ StoreOK(store, issued) /\ AckedOK(store) /\ issued \in Nat
      /\ Fresh(e, store, issued) \/ Landed(e, store)
      /\ IsSeq(store) /\ Len(store) \in Nat
  BY LedgerAssumption, AppendIsSeq DEF IInv, CallOK, StoreOK
<1>2. CallState[c] = IF Len(store) > e.sequence THEN "logged" ELSE "open"
  BY CallStateOf DEF Pending, LoggedOrOpen
<1> HIDE DEF e
<1>3. /\ e.sequence \in Nat /\ e.sequence < Len(Put(e))
      /\ \/ Put(e) = store /\ Landed(e, Put(e))
         \/ Put(e) = Append(store, e) /\ Fresh(e, store, issued)
  BY <1>1, PutOK
<1>4. CASE Put(e) = store /\ Landed(e, Put(e))
  BY <1>1, <1>2, <1>3, <1>4 DEF e
<1>5. CASE Put(e) = Append(store, e) /\ Fresh(e, store, issued)
  BY <1>1, <1>2, <1>5 DEF Fresh, e
<1> QED
  BY <1>3, <1>4, <1>5

\* The initial states map to initial states of LedgerLog.
THEOREM InitRefines == Init => Log!Init
BY LedgerAssumption DEF Init, Log!Init, CallState, Idle

\* Every step of the Ledger is a step of LedgerLog, or changes nothing there.
THEOREM StepRefines ==
  ASSUME IInv, IInv', [Next]_vars
  PROVE  [Log!Next]_(Log!vars)
<1> USE LedgerAssumption
<1>0. DOMAIN call = Callers /\ (\A c \in Callers : CallOK(c)) /\ IsSeq(store)
  BY DEF IInv, StoreOK
<1>1. ASSUME NEW c \in Callers, AppendInvalid(c) \/ AppendContended(c)
      PROVE  Log!Refuse(c)
  <2>1. /\ \A d \in Callers \ {c} : call'[d] = call[d]
        /\ call[c].pc = "idle" /\ call'[c].pc = "idle" /\ store' = store
        /\ call[c].outcome \in Results
        /\ call'[c].outcome \in {"serialization_error", "sequence_error"}
    BY <1>0, <1>1 DEF AppendInvalid, AppendContended, Return, CallOK
  <2>2. CallState' = [CallState EXCEPT ![c] = CallState'[c]]
    BY <2>1, OnlyCallerMoves
  <2>3. CallState[c] \in {"none", "ok", "error"} /\ CallState'[c] = "error"
    BY <2>1 DEF CallState, Results
  <2> QED
    BY <2>1, <2>2, <2>3 DEF Log!Refuse, Log!Ended
<1>2. ASSUME NEW c \in Callers, AppendLock(c)
      PROVE  Log!Open(c)
  <2>1. /\ \A d \in Callers \ {c} : call'[d] = call[d]
        /\ call[c].pc = "idle" /\ call'[c].pc = "tip" /\ store' = store
        /\ call[c].outcome \in Results
    BY <1>0, <1>2 DEF AppendLock, CallOK
  <2>2. CallState' = [CallState EXCEPT ![c] = CallState'[c]]
    BY <2>1, OnlyCallerMoves
  <2>3. CallState[c] \in {"none", "ok", "error"} /\ CallState'[c] = "open"
    BY <2>1 DEF CallState, LoggedOrOpen, Results
  <2> QED
    BY <2>1, <2>2, <2>3 DEF Log!Open, Log!Ended
<1>3. ASSUME NEW c \in Callers, AppendReadTip(c)
      PROVE  UNCHANGED Log!vars
  <2>1. /\ \A d \in Callers \ {c} : call'[d] = call[d]
        /\ call[c].pc = "tip" /\ call'[c].pc = "set" /\ store' = store
        /\ call'[c].event = NewEvent
    BY <1>0, <1>3 DEF AppendReadTip, CallOK
  <2>2. CallState' = [CallState EXCEPT ![c] = CallState'[c]]
    BY <2>1, OnlyCallerMoves
  <2>3. CallState[c] = "open"
    BY <2>1 DEF CallState, LoggedOrOpen
  <2>4. CallState'[c] = "open"
    <3>1. issued' = issued + 1 /\ issued \in Nat /\ StoreOK(store, issued)
      BY <1>3 DEF AppendReadTip, IInv
    <3>2. call'[c].event.event_id = issued + 1
      BY <2>1 DEF NewEvent
    <3>3. ~Landed(call'[c].event, store')
      <4>1. Landed(call'[c].event, store') =>
              Len(store) \in 1..Len(store) /\ call'[c].event = store[Len(store)]
        BY <2>1 DEF Landed
      <4> QED
        BY <2>1, <3>1, <3>2, <4>1 DEF StoreOK
    <3>4. Fresh(call'[c].event, store', issued')
      BY <1>3, <2>1, <3>3 DEF IInv, CallOK, Pending
    <3>5. Len(store') \in Nat /\ call'[c].event.sequence = Len(store')
      BY <1>0, <2>1, <3>4, AppendIsSeq DEF Fresh
    <3> QED
      BY <2>1, <3>5 DEF CallState, LoggedOrOpen
  <2>5. CallState'[c] = CallState[c]
    BY <2>3, <2>4
  <2> QED
    BY <2>1, <2>2, <2>5 DEF Log!vars, CallState
<1>4. ASSUME NEW c \in Callers, AppendReadTipFails(c)
      PROVE  Log!Fail(c)
  <2>1. /\ \A d \in Callers \ {c} : call'[d] = call[d]
        /\ call[c].pc = "tip" /\ call'[c].pc = "idle" /\ store' = store
        /\ call'[c].outcome = "connection_error"
    BY <1>0, <1>4 DEF AppendReadTipFails, Return, CallOK
  <2>2. CallState' = [CallState EXCEPT ![c] = CallState'[c]]
    BY <2>1, OnlyCallerMoves
  <2>3. CallState[c] = "open" /\ CallState'[c] = "error"
    BY <2>1 DEF CallState, LoggedOrOpen
  <2> QED
    BY <2>1, <2>2, <2>3 DEF Log!Fail
<1>5. ASSUME NEW c \in Callers, AppendSet(c)
      PROVE  Log!Succeed(c)
  <2>1. /\ \A d \in Callers \ {c} : call'[d] = call[d]
        /\ Pending(c) /\ call'[c].pc = "idle" /\ call'[c].outcome = "ok"
        /\ store' = Put(call[c].event)
        /\ \A d \in Callers \ {c} : call[d].pc = "idle"
    BY <1>0, <1>5, OneAppender DEF AppendSet, Return, CallOK, Pending
  <2>2. CallState' = [CallState EXCEPT ![c] = CallState'[c]]
    BY <2>1, OnlyCallerMoves
  <2>3. CallState'[c] = "ok"
    BY <2>1 DEF CallState
  <2>4. \/ CallState[c] = "logged" /\ store' = store
        \/ CallState[c] = "open" /\ Log!GrowsByOne
    BY <1>0, <2>1, PendingState, AppendGrows
  <2> QED
    BY <2>2, <2>3, <2>4 DEF Log!Succeed
<1>6. ASSUME NEW c \in Callers, AppendSetRaises(c)
      PROVE  Log!Log(c) \/ UNCHANGED Log!vars
  <2>1. /\ \A d \in Callers \ {c} : call'[d] = call[d]
        /\ Pending(c) /\ call'[c].pc = "retry" /\ call'[c].event = call[c].event
        /\ store' \in {store, Put(call[c].event)}
        /\ \A d \in Callers \ {c} : call[d].pc = "idle"
    BY <1>0, <1>6, OneAppender DEF AppendSetRaises, Goto, CallOK, Pending
  <2>2. CallState' = [CallState EXCEPT ![c] = CallState'[c]]
    BY <2>1, OnlyCallerMoves
  <2>3. CASE store' = store
    <3>1. CallState'[c] = CallState[c]
      BY <2>1, <2>3 DEF CallState, LoggedOrOpen, Pending
    <3> QED
      BY <2>2, <2>3, <3>1 DEF Log!vars, CallState
  <2>4. CASE store' # store
    <3>1. CallState[c] = "open" /\ Log!GrowsByOne
          /\ call[c].event.sequence = Len(store) /\ store' = Append(store, call[c].event)
      BY <1>0, <2>1, <2>4, PendingState, AppendGrows
    <3>2. Len(store) \in Nat /\ Len(store') = Len(store) + 1
      BY <1>0, <3>1, AppendIsSeq
    <3>3. CallState'[c] = "logged"
      BY <2>1, <3>1, <3>2 DEF CallState, LoggedOrOpen
    <3> QED
      BY <2>2, <3>1, <3>3 DEF Log!Log
  <2> QED
    BY <2>3, <2>4
<1>7. ASSUME NEW c \in Callers, AppendRetryFails(c)
      PROVE  Log!Fail(c)
  <2>1. /\ \A d \in Callers \ {c} : call'[d] = call[d]
        /\ Pending(c) /\ call'[c].pc = "idle" /\ call'[c].outcome = "connection_error"
        /\ store' \in {store, Put(call[c].event)}
        /\ \A d \in Callers \ {c} : call[d].pc = "idle"
    BY <1>0, <1>7, OneAppender DEF AppendRetryFails, Return, CallOK, Pending
  <2>2. CallState' = [CallState EXCEPT ![c] = CallState'[c]]
    BY <2>1, OnlyCallerMoves
  <2>3. CallState'[c] = "error"
    BY <2>1 DEF CallState
  <2>4. \/ CallState[c] \in {"open", "logged"} /\ store' = store
        \/ CallState[c] = "open" /\ Log!GrowsByOne
    BY <1>0, <2>1, PendingState, AppendGrows
  <2> QED
    BY <2>2, <2>3, <2>4 DEF Log!Fail
<1>8. ASSUME Restart
      PROVE  Log!Restart
  <2>1. CallState' = [c \in Callers |-> "none"]
    BY <1>8 DEF Restart, CallState, Idle
  <2>2. CASE store' = store
    BY <2>1, <2>2 DEF Log!Restart
  <2>3. CASE store' # store
    <3>1. PICK c \in Callers : Pending(c) /\ store' = Put(call[c].event)
      BY <1>8, <2>3 DEF Restart, Pending
    <3>2. CallState[c] = "open" /\ Log!GrowsByOne
      BY <1>0, <2>3, <3>1, PendingState, AppendGrows
    <3> QED
      BY <2>1, <3>2 DEF Log!Restart
  <2> QED
    BY <2>2, <2>3
<1>9. ASSUME UNCHANGED <<store, call>>
      PROVE  UNCHANGED Log!vars
  BY <1>9 DEF Log!vars, CallState, LoggedOrOpen
<1> QED
  <2>1. CASE UNCHANGED vars
    BY <1>9, <2>1 DEF vars
  <2>2. ASSUME NEW r \in Readers, ReadBegin(r) \/ ReadStep(r) \/ ReadEnd(r)
        PROVE  UNCHANGED Log!vars
    BY <1>9, <2>2 DEF ReadBegin, ReadStep, ReadTip, ReadRange, ReadScan, ReadFails, ReadEnd
  <2>3. ASSUME NEW c \in Callers,
               \/ AppendInvalid(c) \/ AppendContended(c) \/ AppendLock(c)
               \/ AppendStep(c)
        PROVE  [Log!Next]_(Log!vars)
    BY <1>1, <1>2, <1>3, <1>4, <1>5, <1>6, <1>7, <2>3 DEF AppendStep, Log!Next
  <2> QED
    BY <1>8, <2>1, <2>2, <2>3 DEF Next, Log!Next

\* The Ledger keeps the promise of LedgerLog, for any number of callers,
\* readers, failures and restarts.
THEOREM PromiseKept == ASSUME MaxAppends <= ScanLimit PROVE Spec => KeepsPromise
<1>1. IInv /\ IInv' /\ [Next]_vars => [Log!Next]_(Log!vars)
  BY StepRefines
<1> QED
  BY <1>1, InitRefines, AlwaysIInv, PTL DEF Spec, KeepsPromise, Log!Spec

----------------------------------------------------------------------------
(* The lock-free readers. *)

RdFields == {"pc", "op", "start", "last", "known", "events"}

\* What a reader knows: the acknowledged events it must return lie below the
\* tip it has read, and what it returns is a piece of the chain.
ReadOK(r) ==
  LET rd == reading[r] IN
  /\ DOMAIN rd = RdFields
  /\ rd.pc \in {"idle", "tip", "range", "scan", "done", "error"}
  /\ rd.op \in {"read_since", "verify_chain"}
  /\ rd.start \in Nat
  /\ rd.known \subseteq acked
  /\ rd.pc \in {"tip", "range", "scan"} => rd.events = <<>>
  /\ rd.pc \in {"range", "scan"} =>
       /\ rd.last \in Int /\ rd.last < Len(store)
       /\ \A e \in rd.known : e.sequence <= rd.last
  /\ rd.pc = "scan" => rd.start <= rd.last
  /\ rd.pc = "done" =>
       /\ ValidChain(rd.events)
       /\ \A e \in rd.known :
            LET i == e.sequence - rd.start + 1 IN
            i >= 1 => i <= Len(rd.events) /\ rd.events[i] = e

RInv == DOMAIN reading = Readers /\ \A r \in Readers : ReadOK(r)

\* The log only grows, and so does what has been acknowledged.
LEMMA LogGrows ==
  ASSUME IInv, [Next]_vars
  PROVE  Len(store) \in Nat /\ Len(store') >= Len(store) /\ acked \subseteq acked'
<1> USE LedgerAssumption
<1>1. IsSeq(store) /\ Len(store) \in Nat
  BY AppendIsSeq DEF IInv, StoreOK
<1>2. ASSUME NEW c \in Callers, Pending(c)
      PROVE  Len(Put(call[c].event)) >= Len(store)
  BY <1>1, <1>2, PendingState, AppendIsSeq
<1>3. store' = store \/ \E c \in Callers : Pending(c) /\ store' = Put(call[c].event)
  BY DEF Next, vars, AppendStep, AppendInvalid, AppendContended, AppendLock,
         AppendReadTip, AppendReadTipFails, AppendSet, AppendSetRaises,
         AppendRetryFails, Restart, Pending, ReadBegin, ReadStep, ReadTip, ReadRange,
         ReadScan, ReadFails, ReadEnd
<1>4. acked \subseteq acked'
  BY DEF Next, vars, AppendStep, AppendInvalid, AppendContended, AppendLock,
         AppendReadTip, AppendReadTipFails, AppendSet, AppendSetRaises,
         AppendRetryFails, Restart, ReadBegin, ReadStep, ReadTip, ReadRange,
         ReadScan, ReadFails, ReadEnd
<1> QED
  BY <1>1, <1>2, <1>3, <1>4

\* A scan of a range below the tip is a piece of the chain and holds the
\* acknowledged events of that range.
LEMMA ScanIsChain ==
  ASSUME IInv, MaxAppends <= ScanLimit,
         NEW start \in Nat, NEW last \in Int, start <= last, last < Len(store)
  PROVE  /\ ValidChain(scan(start, last))
         /\ \A e \in acked :
              e.sequence >= start /\ e.sequence <= last =>
                LET i == e.sequence - start + 1 IN
                /\ i \in 1..Len(scan(start, last))
                /\ scan(start, last)[i] = e
<1> DEFINE s == scan(start, last)
<1>1. /\ IsSeq(store) /\ Len(store) \in Nat /\ Len(store) <= ScanLimit
      /\ StoreOK(store, issued)
  BY LedgerAssumption, AppendIsSeq DEF IInv, StoreOK
<1>2. s = SubSeq(store, start + 1, last + 1)
  BY <1>1, LedgerAssumption DEF scan
<1>3. \A i \in start + 1..last + 1 : store[i] \in {store[j] : j \in DOMAIN store}
  BY <1>1, LenProperties DEF IsSeq
<1>4. /\ Len(s) = last - start + 1
      /\ \A i \in 1..last - start + 1 : s[i] = store[start + i]
  <2>1. /\ Len(s) = IF start + 1 <= last + 1 THEN (last + 1) - (start + 1) + 1 ELSE 0
        /\ \A i \in 1..(last + 1) - (start + 1) + 1 : s[i] = store[(start + 1) + i - 1]
    BY <1>2, <1>3, SubSeqProperties
  <2> QED
    BY <2>1
<1> HIDE DEF s
<1>5. ValidChain(s)
  <2> SUFFICES ASSUME NEW i \in 1..Len(s)
               PROVE  /\ s[i].hash = canonical_hash(s[i])
                      /\ IF i = 1
                         THEN s[i].sequence = 0 => s[i].previous_hash = Genesis
                         ELSE s[i].previous_hash = s[i - 1].hash
    BY DEF ValidChain
  <2>1. start + i \in 1..Len(store) /\ s[i] = store[start + i] /\ i \in Nat
    BY <1>1, <1>4
  <2>2. i # 1 => s[i - 1] = store[start + i - 1] /\ start + i # 1
    BY <1>4
  <2> QED
    BY <1>1, <2>1, <2>2 DEF StoreOK
<1>6. ASSUME NEW e \in acked, e.sequence >= start, e.sequence <= last
      PROVE  e.sequence - start + 1 \in 1..Len(s) /\ s[e.sequence - start + 1] = e
  <2>1. e.sequence \in Nat /\ store[e.sequence + 1] = e
    BY DEF IInv, AckedOK
  <2>2. e.sequence - start + 1 \in 1..last - start + 1
        /\ start + (e.sequence - start + 1) = e.sequence + 1
    BY <1>6, <2>1
  <2> QED
    BY <1>4, <2>1, <2>2
<1> QED
  BY <1>5, <1>6 DEF s

\* What a read has seen stays true of the growing store: no step of an append
\* or of a reader leaves the readers' invariant.
THEOREM StepRInv ==
  ASSUME MaxAppends <= ScanLimit, IInv, RInv, [Next]_vars
  PROVE  RInv'
<1> USE LedgerAssumption
<1>0. /\ Len(store) \in Nat /\ Len(store') >= Len(store) /\ acked \subseteq acked'
      /\ DOMAIN reading = Readers /\ \A r \in Readers : ReadOK(r)
  BY LogGrows DEF RInv
<1>1. ASSUME reading' = reading
      PROVE  RInv'
  <2>1. Len(store') \in Int
    <3>1. IInv'
      BY StepIInv
    <3> QED
      BY <3>1, AppendIsSeq DEF IInv, StoreOK
  <2>2. ASSUME NEW r \in Readers
        PROVE  ReadOK(r)'
    BY <1>0, <1>1, <2>1 DEF ReadOK
  <2> QED
    BY <1>0, <1>1, <2>2 DEF RInv
<1>2. ASSUME Restart
      PROVE  RInv'
  BY <1>2 DEF Restart, RInv, ReadOK, NoRead, RdFields
<1>3. ASSUME NEW r \in Readers, ReadBegin(r) \/ ReadStep(r) \/ ReadEnd(r)
      PROVE  RInv'
  <2>0. DOMAIN reading' = Readers /\ (\A q \in Readers \ {r} : reading'[q] = reading[q])
        /\ UNCHANGED <<store, acked>>
    BY <1>0, <1>3 DEF ReadBegin, ReadStep, ReadTip, ReadRange, ReadScan, ReadFails, ReadEnd
  <2> SUFFICES ReadOK(r)'
    BY <1>0, <2>0 DEF RInv, ReadOK
  <2>1. CASE ReadBegin(r)
    BY <1>0, <2>0, <2>1 DEF ReadBegin, ReadOK, NoRead, RdFields
  <2>2. CASE ReadTip(r)
    <3>1. TipSequence = Len(store) - 1
      BY TipIsLast
    <3>2. \A e \in reading[r].known : e.sequence \in Nat /\ e.sequence <= TipSequence
      BY <1>0, <3>1 DEF ReadOK, IInv, AckedOK
    <3>3. ValidChain(<<>>)
      BY DEF ValidChain
    <3> QED
      BY <1>0, <2>0, <2>2, <3>1, <3>2, <3>3 DEF ReadTip, ReadOK, RdFields
  <2>3. CASE ReadRange(r)
    BY <1>0, <2>0, <2>3 DEF ReadRange, ReadOK, RdFields
  <2>4. CASE ReadScan(r)
    <3> DEFINE rd == reading[r]
               s == scan(rd.start, rd.last)
    <3>1. /\ rd.start \in Nat /\ rd.last \in Int /\ rd.start <= rd.last
          /\ rd.last < Len(store) /\ rd.known \subseteq acked
          /\ \A e \in rd.known : e.sequence \in Nat /\ e.sequence <= rd.last
      BY <1>0, <2>4 DEF ReadScan, ReadOK, IInv, AckedOK
    <3>2. /\ ValidChain(s)
          /\ \A e \in acked :
               e.sequence >= rd.start /\ e.sequence <= rd.last =>
                 LET i == e.sequence - rd.start + 1 IN i \in 1..Len(s) /\ s[i] = e
      BY <3>1, ScanIsChain
    <3>3. /\ DOMAIN reading'[r] = RdFields
          /\ reading'[r].pc = "done" /\ reading'[r].events = s
          /\ reading'[r].op = rd.op /\ reading'[r].start = rd.start
          /\ reading'[r].known = rd.known
      BY <1>0, <2>4 DEF ReadScan, ReadOK, RdFields
    <3>4. rd.op \in {"read_since", "verify_chain"}
      BY <1>0 DEF ReadOK
    <3> HIDE DEF s, rd
    <3>5. \A e \in rd.known :
            LET i == e.sequence - rd.start + 1 IN
            i >= 1 => i <= Len(s) /\ s[i] = e
      BY <3>1, <3>2
    <3> QED
      BY <1>0, <2>0, <3>1, <3>2, <3>3, <3>4, <3>5 DEF ReadOK
  <2>5. CASE ReadFails(r)
    BY <1>0, <2>0, <2>5 DEF ReadFails, ReadOK, RdFields
  <2>6. CASE ReadEnd(r)
    BY <1>0, <2>0, <2>6 DEF ReadEnd, ReadOK, NoRead, RdFields
  <2> QED
    BY <1>3, <2>1, <2>2, <2>3, <2>4, <2>5, <2>6 DEF ReadStep
<1> QED
  <2>1. CASE UNCHANGED vars
    BY <1>1, <2>1 DEF vars
  <2>2. ASSUME NEW c \in Callers,
               \/ AppendInvalid(c) \/ AppendContended(c) \/ AppendLock(c)
               \/ AppendStep(c)
        PROVE  reading' = reading
    BY <2>2 DEF AppendStep, AppendInvalid, AppendContended, AppendLock, AppendReadTip,
                AppendReadTipFails, AppendSet, AppendSetRaises, AppendRetryFails
  <2> QED
    BY <1>1, <1>2, <1>3, <2>1, <2>2 DEF Next

\* A lock-free read returns a verifying piece of the chain with everything
\* acknowledged before it began, whatever appends interleave with it.
THEOREM ReadersCorrect == ASSUME MaxAppends <= ScanLimit PROVE Spec => []ReadersSeeAcked
<1>1. Init => RInv
  BY DEF Init, RInv, ReadOK, NoRead, RdFields
<1>2. IInv /\ RInv /\ [Next]_vars => RInv'
  BY StepRInv
<1>3. RInv => ReadersSeeAcked
  BY DEF RInv, ReadOK, ReadersSeeAcked
<1> QED
  BY <1>1, <1>2, <1>3, AlwaysIInv, PTL DEF Spec

=============================================================================
