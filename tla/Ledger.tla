------------------------------- MODULE Ledger -------------------------------
(***************************************************************************)
(* FMWK-001, the Ledger: LedgerClient (api.py) over ImmudbStore (store.py).*)
(*                                                                         *)
(* Threads of one kernel process call append(); other threads call         *)
(* read_since() and verify_chain(), which take no lock.  Every access to   *)
(* immudb is a step of its own, so appends and reads interleave between    *)
(* the accesses.  The process may be killed between any two steps; immudb  *)
(* keeps what was set.                                                     *)
(*                                                                         *)
(* The keys of the store are the sequence numbers 0, 1, ...  append()      *)
(* never sets a key above the number of keys present, so the store is a    *)
(* sequence: key n is store[n + 1].                                        *)
(*                                                                         *)
(* SHA-256 is taken to be collision free: the hash of an event is the      *)
(* record of the fields it covers.                                         *)
(***************************************************************************)
EXTENDS Integers, Sequences

CONSTANTS
  Callers,      \* threads that call append()
  Readers,      \* threads that call read_since() or verify_chain()
  NoCaller,     \* the lock is free
  NoEvent,      \* no event is being written
  Genesis,      \* GENESIS_PREVIOUS_HASH, the hash of the empty ledger
  ScanLimit,    \* the "limit" every immudb scan is called with (1000)
  MaxAppends    \* bound on the number of event ids handed out

ASSUME LedgerAssumption ==
  /\ ScanLimit \in Nat \ {0}
  /\ MaxAppends \in Nat
  /\ NoCaller \notin Callers

VARIABLES
  store,    \* what immudb holds, in key order
  lock,     \* ImmudbStore._lock: the thread inside append(), or NoCaller
  call,     \* call[c]: where append() stands for thread c, and its outcome
  reading,  \* reading[r]: where read_since()/verify_chain() stands for r
  issued,   \* number of event ids new_id() has handed out
  acked     \* history: the events whose sequence number append() returned

vars == <<store, lock, call, reading, issued, acked>>

----------------------------------------------------------------------------
(* Store accesses and the hash chain. *)

\* canonical_hash(): covers every field of the event but the hash itself.
canonical_hash(e) ==
  [event_id |-> e.event_id, sequence |-> e.sequence,
   previous_hash |-> e.previous_hash]

\* ImmudbStore.get_count(): a scan from key 0, cut off at the scan limit.
get_count == IF Len(store) <= ScanLimit THEN Len(store) ELSE ScanLimit

\* Mutant: the tip is taken at key count instead of count - 1.
TipSequenceMutant == get_count

\* LedgerClient._get_tip_unlocked(): sequence and hash of the event at key
\* count - 1.  Its two accesses are one step: what is stored below the count
\* does not change between them, so they see the tip of the first.
TipSequence == IF get_count = 0 THEN -1 ELSE store[get_count].sequence
TipHash == IF get_count = 0 THEN Genesis ELSE store[get_count].hash

\* The event append() builds on the current tip, with a new event id.
NewEvent ==
  LET body == [event_id |-> issued + 1, sequence |-> TipSequence + 1,
               previous_hash |-> TipHash]
  IN  [event_id |-> body.event_id, sequence |-> body.sequence,
       previous_hash |-> body.previous_hash, hash |-> canonical_hash(body)]

\* Mutant: a retried set adds the event again instead of setting its key.
PutMutant(e) == Append(store, e)

\* immudb set(): a new key is added, an existing one gets a new value.
Put(e) ==
  IF e.sequence = Len(store)
  THEN Append(store, e)
  ELSE [store EXCEPT ![e.sequence + 1] = e]

\* Mutant: the end of the range is exclusive.
scanMutant(start, end) == SubSeq(store, start + 1, end)

\* ImmudbStore.scan(start, end): the keys in [start, end] among the first
\* ScanLimit keys from start on.
scan(start, end) ==
  LET last == IF end - start + 1 <= ScanLimit THEN end ELSE start + ScanLimit - 1
  IN  SubSeq(store, start + 1, last + 1)

\* walk_chain(): hashes, links, and the genesis sentinel for sequence 0.
ValidChain(events) ==
  \A i \in 1..Len(events) :
    /\ events[i].hash = canonical_hash(events[i])
    /\ IF i = 1
       THEN events[i].sequence = 0 => events[i].previous_hash = Genesis
       ELSE events[i].previous_hash = events[i - 1].hash

----------------------------------------------------------------------------
Idle == [pc |-> "idle", event |-> NoEvent, outcome |-> "none"]
NoRead == [pc |-> "idle", op |-> "read_since", start |-> 0, last |-> -1,
           known |-> {}, events |-> <<>>]

Init ==
  /\ store = <<>>
  /\ lock = NoCaller
  /\ call = [c \in Callers |-> Idle]
  /\ reading = [r \in Readers |-> NoRead]
  /\ issued = 0
  /\ acked = {}

\* append() returns or raises for thread c.
Return(c, outcome) ==
  call' = [call EXCEPT ![c].pc = "idle", ![c].outcome = outcome]

Goto(c, label) == call' = [call EXCEPT ![c].pc = label]

(***************************************************************************)
(* append(event_data): validation comes before the lock, the lock is never *)
(* waited for, and the finally clause releases it on every path.           *)
(***************************************************************************)
AppendInvalid(c) ==
  /\ call[c].pc = "idle"
  /\ Return(c, "serialization_error")
  /\ UNCHANGED <<store, lock, reading, issued, acked>>

AppendContended(c) ==
  /\ call[c].pc = "idle"
  /\ lock # NoCaller
  /\ Return(c, "sequence_error")
  /\ UNCHANGED <<store, lock, reading, issued, acked>>

\* Mutant: the lock is not looked at.
AppendLockMutant(c) ==
  /\ call[c].pc = "idle"
  /\ issued < MaxAppends
  /\ lock' = c
  /\ call' = [call EXCEPT ![c] = [pc |-> "tip", event |-> NoEvent, outcome |-> "none"]]
  /\ UNCHANGED <<store, reading, issued, acked>>

AppendLock(c) ==
  /\ call[c].pc = "idle"
  /\ issued < MaxAppends
  /\ lock = NoCaller
  /\ lock' = c
  /\ call' = [call EXCEPT ![c] = [pc |-> "tip", event |-> NoEvent, outcome |-> "none"]]
  /\ UNCHANGED <<store, reading, issued, acked>>

AppendReadTip(c) ==
  /\ call[c].pc = "tip"
  /\ call' = [call EXCEPT ![c].pc = "set", ![c].event = NewEvent]
  /\ issued' = issued + 1
  /\ UNCHANGED <<store, lock, reading, acked>>

\* Mutant: the lock is kept when reading the tip raises.
AppendReadTipFailsMutant(c) ==
  /\ call[c].pc = "tip"
  /\ Return(c, "connection_error")
  /\ UNCHANGED <<store, lock, reading, issued, acked>>

\* get_count() or get() raises; there is no retry on reads.
AppendReadTipFails(c) ==
  /\ call[c].pc = "tip"
  /\ Return(c, "connection_error")
  /\ lock' = NoCaller
  /\ UNCHANGED <<store, reading, issued, acked>>

\* store.set() gets through, at the first attempt or at the retry.
AppendSet(c) ==
  /\ call[c].pc \in {"set", "retry"}
  /\ store' = Put(call[c].event)
  /\ acked' = acked \cup {call[c].event}
  /\ Return(c, "ok")
  /\ lock' = NoCaller
  /\ UNCHANGED <<reading, issued>>

\* Mutant: the lock is released before the sleep and the retry, as the
\* docstring of set() has it.
AppendSetRaisesMutant(c) ==
  /\ call[c].pc = "set"
  /\ store' \in {store, Put(call[c].event)}
  /\ Goto(c, "retry")
  /\ lock' = NoCaller
  /\ UNCHANGED <<reading, issued, acked>>

\* The first set raises.  The value may have reached immudb all the same,
\* when it is the answer that was lost.
AppendSetRaises(c) ==
  /\ call[c].pc = "set"
  /\ store' \in {store, Put(call[c].event)}
  /\ Goto(c, "retry")
  /\ UNCHANGED <<lock, reading, issued, acked>>

\* Reconnecting or the second set raises: append() gives up.
AppendRetryFails(c) ==
  /\ call[c].pc = "retry"
  /\ store' \in {store, Put(call[c].event)}
  /\ Return(c, "connection_error")
  /\ lock' = NoCaller
  /\ UNCHANGED <<reading, issued, acked>>

----------------------------------------------------------------------------
(* read_since(n) and verify_chain(start): lock free, three store accesses. *)

\* Called with the tip not yet read; "known" is what had been acknowledged.
ReadBegin(r) ==
  /\ reading[r].pc = "idle"
  /\ \E op \in {"read_since", "verify_chain"}, start \in 0..MaxAppends :
       reading' = [reading EXCEPT ![r] = [NoRead EXCEPT !.pc = "tip", !.op = op,
                                          !.start = start, !.known = acked]]
  /\ UNCHANGED <<store, lock, call, issued, acked>>

\* The tip both operations read first.  read_since(start - 1) beyond the tip
\* is a LedgerSequenceError; at the tip it, and verify_chain() of an empty
\* ledger, return without a range read.
ReadTip(r) ==
  LET rd == reading[r]
      beyond == rd.op = "read_since" /\ rd.start - 1 > TipSequence
      empty == \/ rd.op = "read_since" /\ rd.start - 1 = TipSequence
               \/ rd.op = "verify_chain" /\ TipSequence < 0
  IN  /\ rd.pc = "tip"
      /\ reading' = [reading EXCEPT
           ![r].pc = IF beyond THEN "error" ELSE IF empty THEN "done" ELSE "range",
           ![r].last = TipSequence]
      /\ UNCHANGED <<store, lock, call, issued, acked>>

\* read_range(start, last) reads the tip again and checks its bounds.
ReadRange(r) ==
  LET rd == reading[r]
      bad == rd.start > TipSequence \/ rd.last > TipSequence \/ rd.start > rd.last
  IN  /\ rd.pc = "range"
      /\ reading' = [reading EXCEPT ![r].pc = IF bad THEN "error" ELSE "scan"]
      /\ UNCHANGED <<store, lock, call, issued, acked>>

ReadScan(r) ==
  /\ reading[r].pc = "scan"
  /\ reading' = [reading EXCEPT ![r].pc = "done",
                                ![r].events = scan(reading[r].start, reading[r].last)]
  /\ UNCHANGED <<store, lock, call, issued, acked>>

\* Any of the accesses raises LedgerConnectionError.
ReadFails(r) ==
  /\ reading[r].pc \in {"tip", "range", "scan"}
  /\ reading' = [reading EXCEPT ![r].pc = "error"]
  /\ UNCHANGED <<store, lock, call, issued, acked>>

\* The caller takes the result.
ReadEnd(r) ==
  /\ reading[r].pc \in {"done", "error"}
  /\ reading' = [reading EXCEPT ![r] = NoRead]
  /\ UNCHANGED <<store, lock, call, issued, acked>>

----------------------------------------------------------------------------
\* The process is killed and started again: threads and lock are gone, a
\* set that was on its way may or may not have arrived.
Restart ==
  /\ store' \in {store} \cup
       {Put(call[c].event) : c \in {d \in Callers : call[d].pc \in {"set", "retry"}}}
  /\ lock' = NoCaller
  /\ call' = [c \in Callers |-> Idle]
  /\ reading' = [r \in Readers |-> NoRead]
  /\ UNCHANGED <<issued, acked>>

AppendStep(c) ==
  \/ AppendReadTip(c) \/ AppendReadTipFails(c)
  \/ AppendSet(c) \/ AppendSetRaises(c) \/ AppendRetryFails(c)

ReadStep(r) == ReadTip(r) \/ ReadRange(r) \/ ReadScan(r) \/ ReadFails(r)

Next ==
  \/ \E c \in Callers :
       AppendInvalid(c) \/ AppendContended(c) \/ AppendLock(c) \/ AppendStep(c)
  \/ \E r \in Readers : ReadBegin(r) \/ ReadStep(r) \/ ReadEnd(r)
  \/ Restart

\* A thread inside append() or a read keeps running: every step is one call
\* to immudb that answers or raises, and nothing waits for a lock.
Fairness ==
  /\ \A c \in Callers : WF_vars(AppendStep(c))
  /\ \A r \in Readers : WF_vars(ReadStep(r))

Spec == Init /\ [][Next]_vars /\ Fairness

----------------------------------------------------------------------------
(* Properties. *)

EventFields == {"event_id", "sequence", "previous_hash", "hash"}

\* Types.  A pending write aims at a key that exists or is the next free one:
\* the store has no gaps.
TypeOK ==
  /\ lock \in Callers \cup {NoCaller}
  /\ issued \in 0..MaxAppends
  /\ store \in Seq({store[i] : i \in DOMAIN store})
  /\ \A i \in 1..Len(store) :
       /\ DOMAIN store[i] = EventFields
       /\ store[i].event_id \in 1..issued
       /\ store[i].sequence \in Nat
  /\ DOMAIN call = Callers
  /\ \A c \in Callers :
       /\ DOMAIN call[c] = {"pc", "event", "outcome"}
       /\ call[c].pc \in {"idle", "tip", "set", "retry"}
       /\ call[c].outcome \in {"none", "ok", "serialization_error",
                               "sequence_error", "connection_error"}
       /\ call[c].pc \in {"set", "retry"} =>
            /\ DOMAIN call[c].event = EventFields
            /\ call[c].event.event_id \in 1..issued
            /\ call[c].event.sequence \in 0..Len(store)

\* At every moment, with an append between any two of its steps, the stored
\* events are numbered without gaps, no event is stored twice, and the hash
\* chain verifies from the genesis sentinel to the newest event
\* (D4 IN-001 postconditions 3 to 6).
ChainIntact ==
  /\ ValidChain(store)
  /\ \A i \in 1..Len(store) :
       /\ store[i].sequence = i - 1
       /\ \A j \in 1..Len(store) : store[i].event_id = store[j].event_id => i = j

\* An event whose sequence number append() has returned stays what is stored
\* at that number, whatever other callers, failures and restarts follow
\* (D4 IN-001 postconditions 2 and 6, durability and no fork).
AckedEventsStay ==
  \A e \in acked : e.sequence < Len(store) /\ store[e.sequence + 1] = e

\* What a lock-free read returns while appends go on: a piece of the chain
\* that verifies, and in it every event acknowledged before the read began
\* from the requested number on.  verify_chain() raises no false alarm.
ReadersSeeAcked ==
  \A r \in Readers :
    LET rd == reading[r] IN
    rd.pc = "done" =>
      /\ ValidChain(rd.events)
      /\ \A e \in rd.known :
           LET i == e.sequence - rd.start + 1 IN
           i >= 1 => i <= Len(rd.events) /\ rd.events[i] = e

\* Whichever store access raises, append() gives the lock back: it is never
\* held for ever.
LockReleased == (lock # NoCaller) ~> (lock = NoCaller)

\* The refinement mapping to LedgerLog: a call is "logged" once its event is
\* in the store.
LoggedOrOpen(c) ==
  IF call[c].pc \in {"set", "retry"} /\ Len(store) > call[c].event.sequence
  THEN "logged" ELSE "open"

CallState ==
  [c \in Callers |->
     IF call[c].pc # "idle" THEN LoggedOrOpen(c)
     ELSE IF call[c].outcome \in {"none", "ok"} THEN call[c].outcome ELSE "error"]

Log == INSTANCE LedgerLog WITH log <- store, state <- CallState

\* The Ledger keeps the promise of LedgerLog: an append-only log to which each
\* append() adds at most one event, present whenever the call succeeds.
KeepsPromise == Log!Spec

=============================================================================
