--------------------------- MODULE DispatchProofs ---------------------------
(***************************************************************************)
(* What holds of the dispatchers for every deployment: types, answers      *)
(* before "read", the depth of relayed work, and that an item is worked on *)
(* by one dispatcher at a time.                                            *)
(***************************************************************************)
EXTENDS Dispatch, SequenceTheorems, TLAPS

----------------------------------------------------------------------------
(* What steps make of the table *)

\* What an item keeps for good.
SameWork(item, old) ==
  item.type = old.type /\ item.from = old.from /\ item.depth = old.depth /\ item.reply = old.reply

\* Items are changed or added, never taken away.
Kept ==
  /\ items' \in Seq(Items)
  /\ DOMAIN items \subseteq DOMAIN items'
  /\ \A i \in DOMAIN items : SameWork(items'[i], items[i])

\* An item of the table is an item.
LEMMA ItemType ==
  ASSUME TypeOK, NEW i \in DOMAIN items
  PROVE  items[i] \in Items
BY LenProperties DEF TypeOK

\* A step that writes one row keeps the work of every item.
LEMMA SetItem ==
  ASSUME TypeOK, NEW i \in DOMAIN items, NEW item \in Items, SameWork(item, items[i]),
         Becomes(i, item)
  PROVE  Kept /\ DOMAIN items' = DOMAIN items
<1>1. /\ items \in [1 .. Len(items) -> Items]
      /\ Len(items) \in Nat
  BY LenProperties DEF TypeOK
<1>2. items' \in [1 .. Len(items) -> Items]
  BY <1>1 DEF Becomes
<1>3. items' \in Seq(Items)
  BY <1>1, <1>2, SeqDef
<1> QED
  BY <1>1, <1>2, <1>3 DEF Becomes, Kept, SameWork

\* A step that may write every row, and no work, keeps the work of every item.
LEMMA SetAll ==
  ASSUME TypeOK, NEW F, F \in [DOMAIN items -> Items], items' = F,
         \A i \in DOMAIN items : SameWork(F[i], items[i])
  PROVE  Kept /\ DOMAIN items' = DOMAIN items
<1>1. DOMAIN items = 1 .. Len(items) /\ Len(items) \in Nat
  BY LenProperties DEF TypeOK
<1>2. items' \in Seq(Items)
  BY <1>1, SeqDef
<1> QED
  BY <1>1, <1>2 DEF Kept

\* A new item stands behind the others, which stay as they are.
LEMMA AddItem ==
  ASSUME TypeOK, NEW item \in Items, items' = Append(items, item)
  PROVE  /\ Kept
         /\ DOMAIN items' = 1 .. Len(items) + 1
         /\ DOMAIN items = 1 .. Len(items)
         /\ Len(items) \in Nat
         /\ \A i \in DOMAIN items : items'[i] = items[i]
         /\ items'[Len(items) + 1] = item
<1>1. items \in Seq(Items)
  BY DEF TypeOK
<1>2. /\ items' \in Seq(Items)
      /\ Len(items) \in Nat
      /\ Len(items') = Len(items) + 1
      /\ DOMAIN items = 1 .. Len(items)
      /\ DOMAIN items' = 1 .. Len(items')
      /\ \A i \in 1 .. Len(items) : items'[i] = items[i]
      /\ items'[Len(items) + 1] = item
  BY <1>1, AppendProperties, LenProperties
<1> QED
  BY <1>2 DEF Kept, SameWork

\* A step that leaves the table alone keeps the work of every item.
LEMMA KeepAll == ASSUME TypeOK, UNCHANGED items PROVE Kept /\ DOMAIN items' = DOMAIN items
BY DEF Kept, SameWork, TypeOK

----------------------------------------------------------------------------
(* Types of items *)

\* A full lease and an empty one are leases.
LEMMA Leases == MaxLease \in Over .. MaxLease /\ 0 \in Over .. MaxLease
BY WorkQueueAssumption DEF Over

\* The operations on a row give a row for the same work.
LEMMA RowTypes ==
  ASSUME NEW item \in Items, NEW w \in Workers, NEW to \in SUBSET Recipients,
         NEW status \in {"sent", "read", "complete"}, NEW n \in Nat
  PROVE  /\ \A row \in {claim_item(item, w, MaxLease), renew_claim(item, w, MaxLease),
                        release_claim(item, w), Free(item), expire_claim(item), Older(item),
                        [item EXCEPT !.to = to], [item EXCEPT !.status = status],
                        [item EXCEPT !.retries = n]} :
              row \in Items /\ SameWork(row, item)
<1> USE WorkQueueAssumption, Leases DEF Items, SameWork, Over
<1>1. Free(item) \in Items /\ SameWork(Free(item), item)
  BY DEF Free
<1>2. claim_item(item, w, MaxLease) \in Items /\ SameWork(claim_item(item, w, MaxLease), item)
  BY DEF claim_item
<1>3. renew_claim(item, w, MaxLease) \in Items /\ SameWork(renew_claim(item, w, MaxLease), item)
  BY DEF renew_claim
<1>4. release_claim(item, w) \in Items /\ SameWork(release_claim(item, w), item)
  BY <1>1 DEF release_claim
<1>5. expire_claim(item) \in Items /\ SameWork(expire_claim(item), item)
  <2> DEFINE free == Free(item)
  <2> HIDE DEF free
  <2>1. free \in Items /\ SameWork(free, item)
    BY <1>1 DEF free
  <2>2. expire_claim(item) = [free EXCEPT !.retries = free.retries + 1]
    BY DEF expire_claim, free
  <2> QED
    BY <2>1, <2>2
<1>6. Older(item) \in Items /\ SameWork(Older(item), item)
  BY DEF Older
<1>7. [item EXCEPT !.to = to] \in Items /\ SameWork([item EXCEPT !.to = to], item)
  OBVIOUS
<1>8. [item EXCEPT !.status = status] \in Items /\ SameWork([item EXCEPT !.status = status], item)
  OBVIOUS
<1>9. [item EXCEPT !.retries = n] \in Items /\ SameWork([item EXCEPT !.retries = n], item)
  OBVIOUS
<1> QED
  BY <1>1, <1>2, <1>3, <1>4, <1>5, <1>6, <1>7, <1>8, <1>9

\* An answer or a comment is an item, no deeper than one below its parent.
LEMMA ReplyType ==
  ASSUME NEW type \in {"prompt", "results"}, NEW w \in Workers, NEW to \in SUBSET Recipients,
         NEW parent \in Items, NEW id \in Nat
  PROVE  NewReply(type, w, to, parent, id) \in Items
BY WorkQueueAssumption DEF NewReply, ReplyDepth, Items, Over

\* Recipients of an item are workers or people, however they are set.
LEMMA RecipientTypes ==
  ASSUME NEW item \in Items, NEW to \in SUBSET Recipients
  PROVE  RecipientsOf(item, to) \in SUBSET Recipients
BY DEF RecipientsOf, Items, Recipients

----------------------------------------------------------------------------
(* Types *)

\* Steps that leave the table alone.
LEMMA QuietTypes ==
  ASSUME TypeOK, NEW d \in Dispatchers,
         \/ StartPass(d) \/ ListItems(d) \/ ListingDone(d) \/ PassDone(d) \/ ClaimRefused(d)
         \/ RunSucceeds(d) \/ RunFails(d) \/ RecordSelect(d) \/ Restart(d) \/ Crash(d)
  PROVE  Kept /\ TypeOK'
<1> USE DEF progress, selected, Goto, Kept, Places, Inside, Holding
<1>1. CASE StartPass(d)
  <2>1. Kept /\ DOMAIN items' = DOMAIN items
    BY <1>1, KeepAll DEF StartPass
  <2> QED
    BY <1>1, <2>1 DEF StartPass, TypeOK
<1>2. CASE ListItems(d)
  <2>1. Kept /\ DOMAIN items' = DOMAIN items
    BY <1>2, KeepAll DEF ListItems
  <2>2. \A i \in DOMAIN items : items[i].retries \in Nat
    BY ItemType DEF Items
  <2>3. PICK w \in left[d] :
          /\ worker' = [worker EXCEPT ![d] = w]
          /\ left' = [left EXCEPT ![d] = @ \ {w}]
          /\ todo' = [todo EXCEPT ![d] = {[id |-> i, retries |-> items[i].retries] :
                                            i \in {j \in DOMAIN items : claimable(items[j], w)}}]
    BY <1>2 DEF ListItems
  <2>4. todo' \in [Dispatchers -> SUBSET [id : DOMAIN items, retries : Nat]]
    BY <2>2, <2>3 DEF TypeOK
  <2>5. w \in Workers /\ left' \in [Dispatchers -> SUBSET Workers]
    BY <2>3 DEF TypeOK
  <2> QED
    BY <1>2, <2>1, <2>3, <2>4, <2>5 DEF ListItems, TypeOK
<1>3. CASE ListingDone(d)
  <2>1. Kept /\ DOMAIN items' = DOMAIN items
    BY <1>3, KeepAll DEF ListingDone
  <2> QED
    BY <1>3, <2>1 DEF ListingDone, TypeOK, NoWorker
<1>4. CASE PassDone(d)
  <2>1. Kept /\ DOMAIN items' = DOMAIN items
    BY <1>4, KeepAll DEF PassDone
  <2> QED
    BY <1>4, <2>1 DEF PassDone, TypeOK
<1>5. CASE ClaimRefused(d)
  <2>1. Kept /\ DOMAIN items' = DOMAIN items
    BY <1>5, KeepAll DEF ClaimRefused
  <2> QED
    BY <1>5, <2>1 DEF ClaimRefused, TypeOK
<1>6. CASE RunSucceeds(d)
  <2>1. Kept /\ DOMAIN items' = DOMAIN items
    BY <1>6, KeepAll DEF RunSucceeds
  <2>2. Job(d) \in Items /\ deployment.routes \subseteq SUBSET Recipients
    BY <1>6, ItemType, DispatchAssumption DEF RunSucceeds, TypeOK, Job
  <2>3. PICK to \in deployment.routes : route' = [route EXCEPT ![d] = RecipientsOf(Job(d), to)]
    BY <1>6 DEF RunSucceeds
  <2>4. RecipientsOf(Job(d), to) \in SUBSET Recipients
    BY <2>2, RecipientTypes
  <2> QED
    BY <1>6, <2>1, <2>3, <2>4 DEF RunSucceeds, TypeOK
<1>7. CASE RunFails(d)
  <2>1. Kept /\ DOMAIN items' = DOMAIN items
    BY <1>7, KeepAll DEF RunFails
  <2> QED
    BY <1>7, <2>1 DEF RunFails, TypeOK
<1>8. CASE RecordSelect(d)
  <2>1. Kept /\ DOMAIN items' = DOMAIN items
    BY <1>8, KeepAll DEF RecordSelect
  <2>2. Job(d) \in Items
    BY <1>8, ItemType DEF RecordSelect, Selecting, TypeOK, Job
  <2>3. PICK at \in {"human", "delivered", "failed"} : Goto(d, at, Selecting[at])
    BY <1>8 DEF RecordSelect, Selecting
  <2>4. Selecting[at] \in {"human2", "delivered2", "failed2"}
    BY DEF Selecting
  <2>5. counted' \in [Dispatchers -> Nat]
    BY <1>8, <2>2 DEF RecordSelect, TypeOK, Items
  <2> QED
    BY <1>8, <2>1, <2>3, <2>4, <2>5 DEF RecordSelect, TypeOK
<1>9. CASE Restart(d)
  <2>1. Kept /\ DOMAIN items' = DOMAIN items
    BY <1>9, KeepAll DEF Restart
  <2> QED
    BY <1>9, <2>1 DEF Restart, TypeOK
<1>10. CASE Crash(d)
  <2>1. Kept /\ DOMAIN items' = DOMAIN items
    BY <1>10, KeepAll DEF Crash
  <2> QED
    BY <1>10, <2>1, DispatchAssumption DEF Crash, Fault, NoWorker, TypeOK
<1> QED
  BY <1>1, <1>2, <1>3, <1>4, <1>5, <1>6, <1>7, <1>8, <1>9, <1>10

\* A process inside an item has one of the table, and a worker.
LEMMA JobType ==
  ASSUME TypeOK, NEW d \in Dispatchers, pc[d] \in Inside
  PROVE  job[d] \in DOMAIN items /\ Job(d) \in Items /\ worker[d] \in Workers
BY ItemType DEF TypeOK, Job

\* Steps that change the item a process is inside.
LEMMA JobTypes ==
  ASSUME TypeOK, NEW d \in Dispatchers,
         \/ ReleaseAny(d) \/ Renew(d) \/ MarkRead(d) \/ ReleaseDelivered(d)
         \/ RecordUpdate(d) \/ ReleaseFailed(d) \/ DeliveryRaises(d)
  PROVE  Kept /\ TypeOK'
<1> USE DEF progress, selected, Goto, Places, Inside, Holding
<1>1. job[d] \in DOMAIN items /\ Job(d) \in Items /\ worker[d] \in Workers
  BY JobType DEF ReleaseAny, Renew, MarkRead, ReleaseDelivered, RecordUpdate, Recording,
                 ReleaseFailed, DeliveryRaises
<1>2. Job(d) = items[job[d]]
  BY DEF Job
<1>3. 0 \in Nat
  OBVIOUS
<1>4. CASE ReleaseAny(d)
  <2> DEFINE row == Free(Job(d))
  <2>1. row \in Items /\ SameWork(row, items[job[d]])
    BY <1>1, <1>2, <1>3, RowTypes
  <2>2. Becomes(job[d], row)
    BY <1>4 DEF ReleaseAny
  <2>3. Kept /\ DOMAIN items' = DOMAIN items
    BY <1>1, <2>1, <2>2, SetItem
  <2> QED
    BY <1>4, <2>3 DEF ReleaseAny, TypeOK, Kept
<1>5. CASE Renew(d)
  <2> DEFINE row == renew_claim(Job(d), worker[d], MaxLease)
  <2>1. row \in Items /\ SameWork(row, items[job[d]])
    BY <1>1, <1>2, <1>3, RowTypes
  <2>2. Becomes(job[d], row)
    BY <1>5 DEF Renew
  <2>3. Kept /\ DOMAIN items' = DOMAIN items
    BY <1>1, <2>1, <2>2, SetItem
  <2> QED
    BY <1>5, <2>3 DEF Renew, TypeOK, Kept
<1>6. CASE MarkRead(d)
  <2> DEFINE row == [Job(d) EXCEPT !.status = "read"]
  <2>1. row \in Items /\ SameWork(row, items[job[d]])
    BY <1>1, <1>2, <1>3, RowTypes
  <2>2. Becomes(job[d], row)
    BY <1>6 DEF MarkRead
  <2>3. Kept /\ DOMAIN items' = DOMAIN items
    BY <1>1, <2>1, <2>2, SetItem
  <2> QED
    BY <1>6, <2>3 DEF MarkRead, TypeOK, Kept
<1>7. CASE ReleaseDelivered(d)
  <2> DEFINE row == release_claim(Job(d), worker[d])
  <2>1. row \in Items /\ SameWork(row, items[job[d]])
    BY <1>1, <1>2, <1>3, RowTypes
  <2>2. Becomes(job[d], row)
    BY <1>7 DEF ReleaseDelivered
  <2>3. Kept /\ DOMAIN items' = DOMAIN items
    BY <1>1, <2>1, <2>2, SetItem
  <2> QED
    BY <1>7, <2>3 DEF ReleaseDelivered, TypeOK, Kept
<1>8. CASE ReleaseFailed(d)
  <2> DEFINE row == release_claim(Job(d), worker[d])
  <2>1. row \in Items /\ SameWork(row, items[job[d]])
    BY <1>1, <1>2, <1>3, RowTypes
  <2>2. Becomes(job[d], row)
    BY <1>8 DEF ReleaseFailed
  <2>3. Kept /\ DOMAIN items' = DOMAIN items
    BY <1>1, <2>1, <2>2, SetItem
  <2> QED
    BY <1>8, <2>3 DEF ReleaseFailed, TypeOK, Kept
<1>9. CASE RecordUpdate(d)
  <2> DEFINE n == IF pc[d] = "failed2" THEN counted[d] + 1 ELSE counted[d]
             row == [Job(d) EXCEPT !.retries = n]
  <2>1. n \in Nat
    BY DEF TypeOK
  <2> HIDE DEF n
  <2>2. row \in Items /\ SameWork(row, items[job[d]])
    BY <1>1, <1>2, <2>1, RowTypes
  <2>3. Becomes(job[d], row)
    BY <1>9 DEF RecordUpdate, n
  <2>4. Kept /\ DOMAIN items' = DOMAIN items
    BY <1>1, <2>2, <2>3, SetItem
  <2>5. PICK at \in {"human2", "delivered2", "failed2"} : Goto(d, at, Recording[at])
    BY <1>9 DEF RecordUpdate, Recording
  <2>6. Recording[at] \in {"unclaim", "release", "giveback"}
    BY DEF Recording
  <2> QED
    BY <1>9, <2>4, <2>5, <2>6 DEF RecordUpdate, TypeOK, Kept
<1>10. CASE DeliveryRaises(d)
  <2>1. Kept /\ DOMAIN items' = DOMAIN items
    <3> DEFINE row == release_claim(Job(d), worker[d])
    <3>1. row \in Items /\ SameWork(row, items[job[d]])
      BY <1>1, <1>2, <1>3, RowTypes
    <3>2. CASE UNCHANGED items
      BY <3>2, KeepAll
    <3>3. CASE Becomes(job[d], row)
      BY <1>1, <3>1, <3>3, SetItem
    <3> QED
      BY <1>10, <3>2, <3>3 DEF DeliveryRaises
  <2> QED
    BY <1>10, <2>1, DispatchAssumption DEF DeliveryRaises, Fault, TypeOK, Kept
<1> QED
  BY <1>4, <1>5, <1>6, <1>7, <1>8, <1>9, <1>10

\* Steps that change an item which a process, or somebody else, finds in the table.
LEMMA RowStepTypes ==
  ASSUME TypeOK,
         \/ \E d \in Dispatchers : MarkNeedsHuman(d) \/ Claim(d)
         \/ SetStatus \/ RouteItem
  PROVE  Kept /\ TypeOK'
<1> USE DEF progress, selected, Goto, Places, Inside, Holding
<1>1. ASSUME NEW d \in Dispatchers, MarkNeedsHuman(d) PROVE Kept /\ TypeOK'
  <2>1. PICK s \in todo[d] :
          /\ Becomes(s.id, [items[s.id] EXCEPT !.to = {"human"}])
          /\ job' = [job EXCEPT ![d] = s.id]
          /\ todo' = [todo EXCEPT ![d] = @ \ {s}]
    BY <1>1 DEF MarkNeedsHuman
  <2>2. s.id \in DOMAIN items /\ worker[d] \in Workers
    BY <1>1 DEF MarkNeedsHuman, TypeOK
  <2> DEFINE row == [items[s.id] EXCEPT !.to = {"human"}]
  <2>3. items[s.id] \in Items /\ {"human"} \in SUBSET Recipients
    BY <2>2, ItemType DEF Recipients
  <2>4. row \in Items /\ SameWork(row, items[s.id])
    BY <2>3 DEF Items, SameWork
  <2>5. Kept /\ DOMAIN items' = DOMAIN items
    BY <2>1, <2>2, <2>4, SetItem
  <2>6. s.id \in Nat
    BY <2>2, LenProperties DEF TypeOK
  <2> QED
    BY <1>1, <2>1, <2>2, <2>5, <2>6 DEF MarkNeedsHuman, TypeOK, Kept
<1>2. ASSUME NEW d \in Dispatchers, Claim(d) PROVE Kept /\ TypeOK'
  <2>1. PICK s \in todo[d] :
          /\ Becomes(s.id, claim_item(items[s.id], worker[d], MaxLease))
          /\ job' = [job EXCEPT ![d] = s.id]
          /\ todo' = [todo EXCEPT ![d] = @ \ {s}]
    BY <1>2 DEF Claim
  <2>2. s.id \in DOMAIN items /\ worker[d] \in Workers
    BY <1>2 DEF Claim, TypeOK
  <2> DEFINE row == claim_item(items[s.id], worker[d], MaxLease)
  <2>3. items[s.id] \in Items
    BY <2>2, ItemType
  <2>4. row \in Items /\ SameWork(row, items[s.id])
    BY <2>2, <2>3, Leases DEF Items, SameWork, claim_item
  <2>5. Kept /\ DOMAIN items' = DOMAIN items
    BY <2>1, <2>2, <2>4, SetItem
  <2>6. s.id \in Nat
    BY <2>2, LenProperties DEF TypeOK
  <2> QED
    BY <1>2, <2>1, <2>2, <2>5, <2>6 DEF Claim, TypeOK, Kept
<1>3. CASE SetStatus
  <2>1. PICK i \in DOMAIN items, s \in deployment.statuses : Becomes(i, [items[i] EXCEPT !.status = s])
    BY <1>3 DEF SetStatus
  <2>2. items[i] \in Items /\ s \in {"sent", "read", "complete"}
    BY ItemType, DispatchAssumption DEF TypeOK
  <2>3. [items[i] EXCEPT !.status = s] \in Items /\ SameWork([items[i] EXCEPT !.status = s], items[i])
    BY <2>2 DEF Items, SameWork
  <2>4. Kept /\ DOMAIN items' = DOMAIN items
    BY <2>1, <2>3, SetItem
  <2> QED
    BY <1>3, <2>4 DEF SetStatus, TypeOK, Kept
<1>4. CASE RouteItem
  <2>1. PICK i \in DOMAIN items, to \in deployment.targets : Becomes(i, [items[i] EXCEPT !.to = to])
    BY <1>4 DEF RouteItem
  <2>2. items[i] \in Items /\ to \in SUBSET Recipients
    BY ItemType, DispatchAssumption DEF TypeOK
  <2>3. [items[i] EXCEPT !.to = to] \in Items /\ SameWork([items[i] EXCEPT !.to = to], items[i])
    BY <2>2 DEF Items, SameWork
  <2>4. Kept /\ DOMAIN items' = DOMAIN items
    BY <2>1, <2>3, SetItem
  <2> QED
    BY <1>4, <2>4 DEF RouteItem, TypeOK, Kept
<1> QED
  BY <1>1, <1>2, <1>3, <1>4

\* Steps that change every item.
LEMMA TableTypes ==
  ASSUME TypeOK, (\E d \in Dispatchers : ExpireClaims(d)) \/ Tick
  PROVE  Kept /\ TypeOK'
<1> USE DEF progress, selected, Goto, Places, Inside, Holding
<1>1. \A i \in DOMAIN items : /\ items[i] \in Items
                              /\ expire_claim(items[i]) \in Items /\ Older(items[i]) \in Items
                              /\ SameWork(expire_claim(items[i]), items[i])
                              /\ SameWork(Older(items[i]), items[i])
  <2> SUFFICES ASSUME NEW i \in DOMAIN items
               PROVE /\ items[i] \in Items
                     /\ expire_claim(items[i]) \in Items /\ Older(items[i]) \in Items
                     /\ SameWork(expire_claim(items[i]), items[i])
                     /\ SameWork(Older(items[i]), items[i])
    OBVIOUS
  <2>1. items[i] \in Items
    BY ItemType
  <2>2. Free(items[i]) \in Items /\ SameWork(Free(items[i]), items[i])
    BY <2>1, Leases, WorkQueueAssumption DEF Free, Items, SameWork
  <2>3. expire_claim(items[i]) = [Free(items[i]) EXCEPT !.retries = Free(items[i]).retries + 1]
    BY DEF expire_claim
  <2>4. expire_claim(items[i]) \in Items /\ SameWork(expire_claim(items[i]), items[i])
    BY <2>2, <2>3 DEF Items, SameWork
  <2>5. Older(items[i]) \in Items /\ SameWork(Older(items[i]), items[i])
    BY <2>1, Leases, WorkQueueAssumption DEF Older, Items, SameWork, Over
  <2> QED
    BY <2>1, <2>4, <2>5
<1>2. ASSUME NEW d \in Dispatchers, ExpireClaims(d) PROVE Kept /\ TypeOK'
  <2> DEFINE F == [i \in DOMAIN items |-> IF i \in expired[d] THEN expire_claim(items[i]) ELSE items[i]]
  <2>1. F \in [DOMAIN items -> Items] /\ \A i \in DOMAIN items : SameWork(F[i], items[i])
    BY <1>1 DEF SameWork
  <2>2. items' = F
    BY <1>2 DEF ExpireClaims
  <2> HIDE DEF F
  <2>3. Kept /\ DOMAIN items' = DOMAIN items
    BY <2>1, <2>2, SetAll
  <2>4. deployment.serves[d] \in SUBSET Workers
    BY DispatchAssumption DEF TypeOK
  <2> QED
    BY <1>2, <2>3, <2>4 DEF ExpireClaims, TypeOK, Kept
<1>3. CASE Tick
  <2> DEFINE F == [i \in DOMAIN items |-> Older(items[i])]
  <2>1. F \in [DOMAIN items -> Items] /\ \A i \in DOMAIN items : SameWork(F[i], items[i])
    BY <1>1
  <2>2. items' = F
    BY <1>3 DEF Tick
  <2> HIDE DEF F
  <2>3. Kept /\ DOMAIN items' = DOMAIN items
    BY <2>1, <2>2, SetAll
  <2> QED
    BY <1>3, <2>3 DEF Tick, TypeOK, Kept
<1> QED
  BY <1>2, <1>3

\* Steps that add an item.
LEMMA AddTypes ==
  ASSUME TypeOK, NEW d \in Dispatchers, CreateResult(d) \/ Comment(d)
  PROVE  Kept /\ TypeOK'
<1> USE DEF progress, selected, Goto, Places, Inside, Holding
<1>1. job[d] \in DOMAIN items /\ Job(d) \in Items /\ worker[d] \in Workers
  BY JobType DEF CreateResult, Comment
<1>2. job[d] \in Nat /\ route[d] \in SUBSET Recipients /\ {Job(d).from} \in SUBSET Recipients
  BY <1>1 DEF TypeOK, Items, Recipients
<1>3. CASE CreateResult(d)
  <2> DEFINE item == NewReply("results", worker[d], route[d], Job(d), job[d])
  <2>1. item \in Items
    BY <1>1, <1>2, ReplyType
  <2>2. items' = Append(items, item)
    BY <1>3 DEF CreateResult
  <2> HIDE DEF item
  <2>3. Kept
    BY <2>1, <2>2, AddItem
  <2> QED
    BY <1>3, <2>3 DEF CreateResult, TypeOK, Kept
<1>4. CASE Comment(d)
  <2> DEFINE item == NewReply("prompt", worker[d], {Job(d).from}, Job(d), job[d])
  <2>1. item \in Items
    BY <1>1, <1>2, ReplyType
  <2>2. items' = Append(items, item)
    BY <1>4 DEF Comment
  <2> HIDE DEF item
  <2>3. Kept
    BY <2>1, <2>2, AddItem
  <2> QED
    BY <1>4, <2>3 DEF Comment, TypeOK, Kept
<1> QED
  BY <1>3, <1>4

\* No step breaks a type or changes the work of an item.
LEMMA NextTypes == ASSUME TypeOK, [Next]_vars PROVE Kept /\ TypeOK'
<1>1. CASE UNCHANGED vars
  BY <1>1, KeepAll DEF vars, TypeOK
<1> QED
  BY <1>1, QuietTypes, JobTypes, RowStepTypes, TableTypes, AddTypes DEF Next, Work

\* The types hold at the start.
LEMMA InitTypes == Init => TypeOK
<1> SUFFICES ASSUME Init PROVE TypeOK
  OBVIOUS
<1>1. /\ deployment.work \in Seq(Items)
      /\ deployment.faults \in Nat
      /\ deployment \in Deployments
  BY DispatchAssumption DEF Init
<1> QED
  BY <1>1 DEF Init, TypeOK, Places, Inside, Holding, NoWorker

\* A dispatcher that is inside an item works for a worker and names an item of
\* the table, in every deployment.
THEOREM TypeCorrect == Spec => []TypeOK
<1>1. TypeOK /\ [Next]_vars => TypeOK'
  BY NextTypes
<1> QED
  BY <1>1, InitTypes, PTL DEF Spec

----------------------------------------------------------------------------
(* What steps do to processes inside an item, and to routes and statuses *)

\* From the claim to the last word on an item.
Bound == Holding \cup {"comment"}

\* Two records are read at the place where the process stands.
LEMMA Records ==
  /\ DOMAIN Selecting = {"human", "delivered", "failed"}
  /\ DOMAIN Recording = {"human2", "delivered2", "failed2"}
  /\ Selecting.human = "human2" /\ Selecting.delivered = "delivered2" /\ Selecting.failed = "failed2"
  /\ Recording.human2 = "unclaim" /\ Recording.delivered2 = "release" /\ Recording.failed2 = "giveback"
BY DEF Selecting, Recording

\* Only a claim binds a process to an item, and only the answer brings it to
\* mark the item read.
LEMMA ProcessSteps ==
  ASSUME TypeOK, [Next]_vars, NEW d \in Dispatchers
  PROVE  /\ pc'[d] \in Bound => (pc[d] \in Bound /\ job'[d] = job[d]) \/ Claim(d)
         /\ pc'[d] = "markread" => (pc[d] = "markread" /\ job'[d] = job[d]) \/ CreateResult(d)
<1> DEFINE Goal ==
      /\ pc'[d] \in Bound => (pc[d] \in Bound /\ job'[d] = job[d]) \/ Claim(d)
      /\ pc'[d] = "markread" => (pc[d] = "markread" /\ job'[d] = job[d]) \/ CreateResult(d)
<1> USE DEF TypeOK, Goto, Bound, Holding
<1>1. CASE UNCHANGED vars \/ SetStatus \/ RouteItem \/ Tick
  BY <1>1 DEF vars, SetStatus, RouteItem, Tick
<1>2. ASSUME NEW e \in Dispatchers,
             StartPass(e) \/ ExpireClaims(e) \/ ListItems(e) \/ ListingDone(e) \/ PassDone(e)
      PROVE  Goal
  BY <1>2 DEF StartPass, ExpireClaims, ListItems, ListingDone, PassDone
<1>3. ASSUME NEW e \in Dispatchers,
             MarkNeedsHuman(e) \/ ReleaseAny(e) \/ Claim(e) \/ ClaimRefused(e) \/ Renew(e)
      PROVE  Goal
  <2>1. CASE Claim(e)
    <3>1. CASE e = d
      BY <2>1, <3>1 DEF Claim
    <3>2. CASE e # d
      BY <2>1, <3>2 DEF Claim
    <3> QED
      BY <3>1, <3>2
  <2>2. CASE MarkNeedsHuman(e) \/ ReleaseAny(e)
    BY <2>2 DEF MarkNeedsHuman, ReleaseAny
  <2>3. CASE ClaimRefused(e) \/ Renew(e)
    BY <2>3 DEF ClaimRefused, Renew
  <2> QED
    BY <1>3, <2>1, <2>2, <2>3
<1>4. ASSUME NEW e \in Dispatchers, RunSucceeds(e) \/ RunFails(e) \/ MarkRead(e) \/ ReleaseDelivered(e)
      PROVE  Goal
  BY <1>4 DEF RunSucceeds, RunFails, MarkRead, ReleaseDelivered
<1>5. ASSUME NEW e \in Dispatchers, CreateResult(e)
      PROVE  Goal
  <2>1. CASE e = d
    BY <1>5, <2>1 DEF CreateResult
  <2>2. CASE e # d
    BY <1>5, <2>2 DEF CreateResult
  <2> QED
    BY <2>1, <2>2
<1>6. ASSUME NEW e \in Dispatchers, RecordSelect(e)
      PROVE  Goal
  <2>1. PICK at \in DOMAIN Selecting : Goto(e, at, Selecting[at])
    BY <1>6 DEF RecordSelect
  <2> QED
    BY <1>6, <2>1, Records DEF RecordSelect
<1>7. ASSUME NEW e \in Dispatchers, RecordUpdate(e)
      PROVE  Goal
  <2>1. PICK at \in DOMAIN Recording : Goto(e, at, Recording[at])
    BY <1>7 DEF RecordUpdate
  <2> QED
    BY <1>7, <2>1, Records DEF RecordUpdate
<1>8. ASSUME NEW e \in Dispatchers,
             ReleaseFailed(e) \/ Comment(e) \/ Restart(e) \/ Crash(e) \/ DeliveryRaises(e)
      PROVE  Goal
  BY <1>8 DEF ReleaseFailed, Comment, Restart, Crash, DeliveryRaises
<1> QED
  BY <1>1, <1>2, <1>3, <1>4, <1>5, <1>6, <1>7, <1>8 DEF Next, Work

SameRoute(row, item) == row.status = item.status /\ row.to = item.to

\* How the status or the recipients of an item may change.
Touched(i) ==
  \/ SameRoute(items'[i], items[i])
  \/ items'[i].status = items[i].status /\ items'[i].to \in deployment.targets \cup {{"human"}}
  \/ items'[i].to = items[i].to /\ items'[i].status \in deployment.statuses
  \/ /\ items'[i].to = items[i].to /\ items'[i].status = "read"
     /\ \E d \in Dispatchers : pc[d] = "markread" /\ job[d] = i

\* How an item comes about.
Posted(item) ==
  \E d \in Dispatchers, type \in {"prompt", "results"}, to \in SUBSET Recipients :
    pc[d] \in Bound /\ item = NewReply(type, worker[d], to, Job(d), job[d])

\* The operations on claims and counts leave status and recipients alone.
LEMMA ClaimRoutes ==
  ASSUME NEW item \in Items, NEW w, NEW n
  PROVE  \A row \in {claim_item(item, w, MaxLease), renew_claim(item, w, MaxLease),
                      release_claim(item, w), Free(item), expire_claim(item), Older(item),
                      [item EXCEPT !.retries = n]} :
           SameRoute(row, item)
BY DEF Items, SameRoute, claim_item, renew_claim, release_claim, Free, expire_claim, Older

\* What a step may do to the rows of the table: each is touched in a known
\* way, and a new one is posted by a dispatcher.
LEMMA RowSteps ==
  ASSUME TypeOK, [Next]_vars
  PROVE  /\ deployment' = deployment
         /\ \A i \in DOMAIN items : Touched(i)
         /\ \A i \in DOMAIN items' \ DOMAIN items : Posted(items'[i])
<1> DEFINE Goal == /\ deployment' = deployment
                   /\ \A i \in DOMAIN items : Touched(i)
                   /\ \A i \in DOMAIN items' \ DOMAIN items : Posted(items'[i])
<1>1. ASSUME UNCHANGED items, deployment' = deployment PROVE Goal
  BY <1>1 DEF Touched, SameRoute
<1>2. ASSUME NEW i \in DOMAIN items, NEW row, Becomes(i, row), SameRoute(row, items[i]),
             deployment' = deployment
      PROVE  Goal
  BY <1>2 DEF Becomes, Touched, SameRoute
<1>3. CASE UNCHANGED vars
  BY <1>1, <1>3 DEF vars
<1>4. ASSUME NEW d \in Dispatchers,
             \/ StartPass(d) \/ ListItems(d) \/ ListingDone(d) \/ PassDone(d) \/ ClaimRefused(d)
             \/ RunSucceeds(d) \/ RunFails(d) \/ RecordSelect(d) \/ Restart(d) \/ Crash(d)
      PROVE  Goal
  BY <1>1, <1>4 DEF StartPass, ListItems, ListingDone, PassDone, ClaimRefused, RunSucceeds,
                    RunFails, RecordSelect, Restart, Crash
<1>5. ASSUME NEW d \in Dispatchers, pc[d] \in Inside
      PROVE  job[d] \in DOMAIN items /\ Job(d) \in Items /\ Job(d) = items[job[d]]
  BY <1>5, JobType DEF Job
<1>6. ASSUME NEW d \in Dispatchers, ReleaseAny(d) PROVE Goal
  <2>1. pc[d] \in Inside /\ deployment' = deployment /\ Becomes(job[d], Free(Job(d)))
    BY <1>6 DEF ReleaseAny, Goto, Inside, Holding
  <2>2. SameRoute(Free(Job(d)), items[job[d]])
    BY <1>5, <2>1, ClaimRoutes
  <2> QED
    BY <1>2, <1>5, <2>1, <2>2
<1>7. ASSUME NEW d \in Dispatchers, Renew(d) PROVE Goal
  <2>1. pc[d] \in Inside /\ deployment' = deployment /\ Becomes(job[d], renew_claim(Job(d), worker[d], MaxLease))
    BY <1>7 DEF Renew, Goto, Inside, Holding
  <2>2. SameRoute(renew_claim(Job(d), worker[d], MaxLease), items[job[d]])
    BY <1>5, <2>1, ClaimRoutes
  <2> QED
    BY <1>2, <1>5, <2>1, <2>2
<1>8. ASSUME NEW d \in Dispatchers, ReleaseDelivered(d) PROVE Goal
  <2>1. pc[d] \in Inside /\ deployment' = deployment /\ Becomes(job[d], release_claim(Job(d), worker[d]))
    BY <1>8 DEF ReleaseDelivered, Goto, Inside, Holding
  <2>2. SameRoute(release_claim(Job(d), worker[d]), items[job[d]])
    BY <1>5, <2>1, ClaimRoutes
  <2> QED
    BY <1>2, <1>5, <2>1, <2>2
<1>9. ASSUME NEW d \in Dispatchers, ReleaseFailed(d) PROVE Goal
  <2>1. pc[d] \in Inside /\ deployment' = deployment /\ Becomes(job[d], release_claim(Job(d), worker[d]))
    BY <1>9 DEF ReleaseFailed, Goto, Inside, Holding
  <2>2. SameRoute(release_claim(Job(d), worker[d]), items[job[d]])
    BY <1>5, <2>1, ClaimRoutes
  <2> QED
    BY <1>2, <1>5, <2>1, <2>2
<1>10. ASSUME NEW d \in Dispatchers, RecordUpdate(d) PROVE Goal
  <2>1. pc[d] \in Inside /\ deployment' = deployment /\ Becomes(job[d], [Job(d) EXCEPT !.retries = IF pc[d] = "failed2" THEN counted[d] + 1 ELSE counted[d]])
    BY <1>10 DEF RecordUpdate, Recording, Goto, Inside, Holding
  <2>2. SameRoute([Job(d) EXCEPT !.retries = IF pc[d] = "failed2" THEN counted[d] + 1 ELSE counted[d]], items[job[d]])
    BY <1>5, <2>1, ClaimRoutes
  <2> QED
    BY <1>2, <1>5, <2>1, <2>2
<1>11. ASSUME NEW d \in Dispatchers, DeliveryRaises(d) PROVE Goal
  <2>1. CASE UNCHANGED items
    BY <1>1, <1>11, <2>1 DEF DeliveryRaises
  <2>2. CASE pc[d] = "release" /\ Becomes(job[d], release_claim(Job(d), worker[d]))
    <3>1. pc[d] \in Inside /\ deployment' = deployment
      BY <1>11, <2>2 DEF DeliveryRaises, Inside, Holding
    <3>2. SameRoute(release_claim(Job(d), worker[d]), items[job[d]])
      BY <1>5, <3>1, ClaimRoutes
    <3> QED
      BY <1>2, <1>5, <2>2, <3>1, <3>2
  <2> QED
    BY <1>11, <2>1, <2>2 DEF DeliveryRaises
<1>12. ASSUME NEW d \in Dispatchers, Claim(d) PROVE Goal
  <2>1. PICK s \in todo[d] : Becomes(s.id, claim_item(items[s.id], worker[d], MaxLease))
    BY <1>12 DEF Claim
  <2>2. s.id \in DOMAIN items
    BY DEF TypeOK
  <2>3. SameRoute(claim_item(items[s.id], worker[d], MaxLease), items[s.id])
    BY <2>2, ItemType, ClaimRoutes
  <2> QED
    BY <1>2, <1>12, <2>1, <2>2, <2>3 DEF Claim
<1>13. ASSUME NEW d \in Dispatchers, ExpireClaims(d) PROVE Goal
  <2>1. \A i \in DOMAIN items : SameRoute(expire_claim(items[i]), items[i])
    BY ItemType, ClaimRoutes
  <2> QED
    BY <1>13, <2>1 DEF ExpireClaims, Touched, SameRoute
<1>14. CASE Tick
  <2>1. \A i \in DOMAIN items : SameRoute(Older(items[i]), items[i])
    BY ItemType, ClaimRoutes
  <2> QED
    BY <1>14, <2>1 DEF Tick, Touched
<1>15. ASSUME NEW d \in Dispatchers, MarkNeedsHuman(d) PROVE Goal
  <2>1. PICK s \in todo[d] : Becomes(s.id, [items[s.id] EXCEPT !.to = {"human"}])
    BY <1>15 DEF MarkNeedsHuman
  <2>2. s.id \in DOMAIN items
    BY DEF TypeOK
  <2>3. items[s.id] \in Items
    BY <2>2, ItemType
  <2> QED
    BY <1>15, <2>1, <2>2, <2>3 DEF MarkNeedsHuman, Becomes, Touched, SameRoute, Items
<1>16. ASSUME NEW d \in Dispatchers, MarkRead(d) PROVE Goal
  <2>1. pc[d] = "markread" /\ deployment' = deployment /\ Becomes(job[d], [Job(d) EXCEPT !.status = "read"])
    BY <1>16 DEF MarkRead, Goto
  <2>2. pc[d] \in Inside
    BY <2>1 DEF Inside, Holding
  <2> QED
    BY <1>5, <2>1, <2>2 DEF Becomes, Touched, SameRoute, Items
<1>17. CASE SetStatus
  <2>1. PICK i \in DOMAIN items, s \in deployment.statuses : Becomes(i, [items[i] EXCEPT !.status = s])
    BY <1>17 DEF SetStatus
  <2>2. items[i] \in Items
    BY ItemType
  <2> QED
    BY <1>17, <2>1, <2>2 DEF SetStatus, Becomes, Touched, SameRoute, Items
<1>18. CASE RouteItem
  <2>1. PICK i \in DOMAIN items, to \in deployment.targets : Becomes(i, [items[i] EXCEPT !.to = to])
    BY <1>18 DEF RouteItem
  <2>2. items[i] \in Items
    BY ItemType
  <2> QED
    BY <1>18, <2>1, <2>2 DEF RouteItem, Becomes, Touched, SameRoute, Items
<1>19. ASSUME NEW d \in Dispatchers, CreateResult(d) PROVE Goal
  <2> DEFINE item == NewReply("results", worker[d], route[d], Job(d), job[d])
  <2>1. pc[d] \in Inside /\ pc[d] \in Bound
    BY <1>19 DEF CreateResult, Goto, Inside, Bound, Holding
  <2>2. worker[d] \in Workers /\ job[d] \in Nat /\ route[d] \in SUBSET Recipients
    BY <1>5, <2>1, JobType DEF TypeOK, Items, Recipients
  <2>3. item \in Items
    BY <1>5, <2>1, <2>2, ReplyType
  <2>4. Posted(item)
    BY <2>1, <2>2 DEF Posted
  <2>5. items' = Append(items, item) /\ deployment' = deployment
    BY <1>19 DEF CreateResult
  <2> HIDE DEF item
  <2>6. /\ \A i \in DOMAIN items : items'[i] = items[i]
        /\ \A i \in DOMAIN items' \ DOMAIN items : items'[i] = item
    BY <2>3, <2>5, AddItem
  <2> QED
    BY <2>4, <2>5, <2>6 DEF Touched, SameRoute
<1>20. ASSUME NEW d \in Dispatchers, Comment(d) PROVE Goal
  <2> DEFINE item == NewReply("prompt", worker[d], {Job(d).from}, Job(d), job[d])
  <2>1. pc[d] \in Inside /\ pc[d] \in Bound
    BY <1>20 DEF Comment, Goto, Inside, Bound, Holding
  <2>2. worker[d] \in Workers /\ job[d] \in Nat /\ {Job(d).from} \in SUBSET Recipients
    BY <1>5, <2>1, JobType DEF TypeOK, Items, Recipients
  <2>3. item \in Items
    BY <1>5, <2>1, <2>2, ReplyType
  <2>4. Posted(item)
    BY <2>1, <2>2 DEF Posted
  <2>5. items' = Append(items, item) /\ deployment' = deployment
    BY <1>20 DEF Comment
  <2> HIDE DEF item
  <2>6. /\ \A i \in DOMAIN items : items'[i] = items[i]
        /\ \A i \in DOMAIN items' \ DOMAIN items : items'[i] = item
    BY <2>3, <2>5, AddItem
  <2> QED
    BY <2>4, <2>5, <2>6 DEF Touched, SameRoute
<1> QED
  BY <1>3, <1>4, <1>6, <1>7, <1>8, <1>9, <1>10, <1>11, <1>12, <1>13, <1>14, <1>15, <1>16, <1>17, <1>18, <1>19, <1>20 DEF Next, Work

----------------------------------------------------------------------------
(* No silent reads *)

\* An answer remains one.
LEMMA AnswersStay ==
  ASSUME Kept, NEW i, Answered(i)
  PROVE  Answered(i)'
BY DEF Answered, Kept, SameWork

\* A process that is about to mark an item read has answered it.
AnsweredFirst ==
  /\ NoSilentRead
  /\ \A d \in Dispatchers : pc[d] = "markread" => Answered(job[d])

\* At the start no item is read and no process is about to mark one.
LEMMA InitAnswered == Init => AnsweredFirst
BY DispatchAssumption DEF Init, AnsweredFirst, NoSilentRead

\* The item of deliver_result() has an answer from then on.
LEMMA ResultAnswers ==
  ASSUME TypeOK, NEW d \in Dispatchers, CreateResult(d)
  PROVE  Answered(job[d])' /\ job' = job
<1> DEFINE item == NewReply("results", worker[d], route[d], Job(d), job[d])
<1>1. job[d] \in Nat /\ Job(d) \in Items /\ worker[d] \in Workers /\ route[d] \in SUBSET Recipients
  BY JobType DEF CreateResult, Goto, Inside, Holding, TypeOK
<1>2. item \in Items
  BY <1>1, ReplyType
<1>3. item.reply = job[d] /\ item.type = "results"
  BY DEF NewReply
<1>4. items' = Append(items, item) /\ job' = job
  BY DEF CreateResult, progress
<1> HIDE DEF item
<1>5. Len(items) + 1 \in DOMAIN items' /\ items'[Len(items) + 1] = item
  BY <1>2, <1>4, AddItem
<1> QED
  BY <1>3, <1>4, <1>5 DEF Answered

\* No step leaves an item read that has no answer.
LEMMA NextAnswered == ASSUME TypeOK, AnsweredFirst, [Next]_vars PROVE AnsweredFirst'
<1>1. Kept
  BY NextTypes
<1>2. ASSUME NEW d \in Dispatchers, pc'[d] = "markread" PROVE Answered(job[d])'
  <2>1. CASE pc[d] = "markread" /\ job'[d] = job[d]
    BY <1>1, <2>1, AnswersStay DEF AnsweredFirst
  <2>2. CASE CreateResult(d)
    BY <2>2, ResultAnswers
  <2> QED
    BY <1>2, <2>1, <2>2, ProcessSteps
<1>3. ASSUME OnlyDispatchersRead', NEW i \in DOMAIN items', items'[i].status = "read"
      PROVE  Answered(i)'
  <2>1. i \in DOMAIN items
    <3>1. ASSUME Posted(items'[i]) PROVE items'[i].status = "sent"
      BY <3>1 DEF Posted, NewReply
    <3> QED
      BY <1>3, <3>1, RowSteps
  <2>2. "read" \notin deployment.statuses
    BY <1>3, RowSteps DEF OnlyDispatchersRead
  <2>3. Touched(i)
    BY <2>1, RowSteps
  <2>4. items[i].status = "read" \/ \E d \in Dispatchers : pc[d] = "markread" /\ job[d] = i
    BY <1>3, <2>2, <2>3 DEF Touched, SameRoute
  <2>5. Answered(i)
    BY <2>1, <2>2, <2>4 DEF AnsweredFirst, NoSilentRead, OnlyDispatchersRead
  <2> QED
    BY <1>1, <2>5, AnswersStay
<1> QED
  BY <1>2, <1>3 DEF AnsweredFirst, NoSilentRead

\* Whatever crashes and failing calls cut a delivery into pieces, an item that a
\* dispatcher has marked read has an answer.
THEOREM ReadCorrect == Spec => []NoSilentRead
<1>1. Init => TypeOK /\ AnsweredFirst
  BY InitTypes, InitAnswered
<1>2. TypeOK /\ AnsweredFirst /\ [Next]_vars => (TypeOK /\ AnsweredFirst)'
  BY NextTypes, NextAnswered
<1>3. AnsweredFirst => NoSilentRead
  BY DEF AnsweredFirst
<1> QED
  BY <1>1, <1>2, <1>3, PTL DEF Spec

----------------------------------------------------------------------------
(* The depth of relayed work *)

OnlyHumansTargeted == deployment.targets \subseteq {{"human"}}

\* Work below the limit is all that a dispatcher takes on.
DepthsOK ==
  /\ RelaysBounded
  /\ OnlyHumansTargeted => \A d \in Dispatchers : pc[d] \in Bound => Job(d).depth < MaxDepth
  /\ \A i \in DOMAIN items : items[i].reply # 0 => items[i].reply \in DOMAIN items

\* Items that people post have depth 0.
LEMMA InitDepths == Init => DepthsOK
BY DispatchAssumption, WorkQueueAssumption DEF Init, DepthsOK, RelaysBounded, Bound, Holding

\* A person is no agent.
LEMMA NoAgents == Agents({"human"}) = {}
BY DEF Agents

\* A dispatcher works only on items below the limit of depth.
LEMMA ClaimDepth ==
  ASSUME TypeOK, NEW d \in Dispatchers, Claim(d)
  PROVE  Job(d)'.depth < MaxDepth
<1>1. PICK s \in todo[d] :
        ~Exhausted(d, s) /\ job' = [job EXCEPT ![d] = s.id]
  BY DEF Claim
<1>2. s.id \in DOMAIN items /\ job'[d] = s.id
  BY <1>1 DEF TypeOK
<1>3. items[s.id].depth < MaxDepth
  BY <1>1, <1>2, ItemType, WorkQueueAssumption DEF Exhausted, Items
<1>4. Kept
  BY RowStepTypes
<1> QED
  BY <1>2, <1>3, <1>4 DEF Kept, SameWork, Job

\* No step posts an item past the limit of depth.
LEMMA NextDepths == ASSUME TypeOK, DepthsOK, [Next]_vars PROVE DepthsOK'
<1>1. Kept /\ TypeOK'
  BY NextTypes
<1>2. deployment' = deployment
  BY RowSteps
<1>3. ASSUME OnlyHumansTargeted, NEW d \in Dispatchers, pc'[d] \in Bound
      PROVE  Job(d)'.depth < MaxDepth
  <2>1. CASE pc[d] \in Bound /\ job'[d] = job[d]
    <3>1. job[d] \in DOMAIN items
      BY <2>1, JobType DEF Bound, Inside
    <3> QED
      BY <1>1, <1>3, <2>1, <3>1 DEF Kept, SameWork, Job, DepthsOK
  <2>2. CASE Claim(d)
    BY <2>2, ClaimDepth
  <2> QED
    BY <1>3, <2>1, <2>2, ProcessSteps
<1>4. ASSUME NEW i \in DOMAIN items' \ DOMAIN items
      PROVE  /\ items'[i].reply \in DOMAIN items
             /\ OnlyHumansTargeted =>
                  /\ items'[i].depth <= MaxDepth
                  /\ Agents(items'[i].to) # {} => items'[i].depth > items[items'[i].reply].depth
  <2>1. PICK d \in Dispatchers, type \in {"prompt", "results"}, to \in SUBSET Recipients :
          pc[d] \in Bound /\ items'[i] = NewReply(type, worker[d], to, Job(d), job[d])
    BY <1>4, RowSteps DEF Posted
  <2>2. job[d] \in DOMAIN items /\ Job(d) \in Items /\ Job(d) = items[job[d]]
    BY <2>1, JobType DEF Bound, Inside, Job
  <2>3. /\ items'[i].reply = job[d] /\ items'[i].to = to
        /\ items'[i].depth = IF Agents(to) # {} THEN Job(d).depth + 1 ELSE Job(d).depth
    BY <2>1 DEF NewReply, ReplyDepth
  <2>4. Job(d).depth \in Nat /\ MaxDepth \in Nat
    BY <2>2, WorkQueueAssumption DEF Items
  <2>5. OnlyHumansTargeted => Job(d).depth < MaxDepth
    BY <2>1 DEF DepthsOK
  <2> QED
    BY <2>2, <2>3, <2>4, <2>5
<1>5. ASSUME NEW i \in DOMAIN items
      PROVE  /\ items'[i].reply # 0 => items'[i].reply \in DOMAIN items
             /\ OnlyHumansTargeted =>
                  /\ items'[i].depth <= MaxDepth
                  /\ items'[i].reply # 0 /\ Agents(items'[i].to) # {} =>
                       items'[i].depth > items[items'[i].reply].depth
  <2>1. SameWork(items'[i], items[i])
    BY <1>1 DEF Kept
  <2>2. ASSUME OnlyHumansTargeted, Agents(items'[i].to) # {} PROVE Agents(items[i].to) # {}
    BY <2>2, RowSteps, NoAgents DEF Touched, SameRoute, OnlyHumansTargeted
  <2> QED
    BY <2>1, <2>2 DEF DepthsOK, RelaysBounded, OnlyHumansTargeted, SameWork
<1>6. \A i \in DOMAIN items : items'[i].depth = items[i].depth /\ i \in DOMAIN items'
  BY <1>1 DEF Kept, SameWork
<1>7. RelaysBounded'
  BY <1>2, <1>4, <1>5, <1>6 DEF RelaysBounded, OnlyHumansTargeted
<1>8. \A i \in DOMAIN items' : items'[i].reply # 0 => items'[i].reply \in DOMAIN items'
  BY <1>4, <1>5, <1>6
<1> QED
  BY <1>2, <1>3, <1>7, <1>8 DEF DepthsOK, OnlyHumansTargeted

\* Answers and comments that dispatchers send to agents by name get deeper at each
\* step and never past MaxDepth, with any number of workers and any routes; of what
\* is routed to "any" it says nothing.
THEOREM RelayCorrect == Spec => []RelaysBounded
<1>1. Init => TypeOK /\ DepthsOK
  BY InitTypes, InitDepths
<1>2. TypeOK /\ DepthsOK /\ [Next]_vars => (TypeOK /\ DepthsOK)'
  BY NextTypes, NextDepths
<1>3. DepthsOK => RelaysBounded
  BY DEF DepthsOK
<1> QED
  BY <1>1, <1>2, <1>3, PTL DEF Spec

----------------------------------------------------------------------------
(* One dispatcher at a time, and one answer *)

Holds(d, i) == pc[d] \in Holding /\ job[d] = i

\* Not handed to a person.
Delegated(i) == items[i].to # {"human"}

\* From mark_needs_human() to its release.
Marking == {"human", "human2", "unclaim"}

\* Up to the answer.
Answering == {"running", "deliver"}

Replies(i) == {j \in DOMAIN items : items[j].reply = i /\ items[j].type = "results"}

\* A process serves its own workers.
Serving ==
  \A d \in Dispatchers :
    /\ left[d] \subseteq deployment.serves[d]
    /\ pc[d] \in Inside \cup {"items"} => worker[d] \in deployment.serves[d]

\* Who holds an item has its claim, with a lease that outlasts the next interval
\* or is about to be renewed; no claim is left behind, and no expiry has picked
\* a claim that is in use.
Leased(i) ==
  /\ \A d \in Dispatchers : Holds(d, i) =>
       /\ items[i].holder = worker[d]
       /\ items[i].lease > 0
       /\ pc[d] = "running" => d \in due \/ items[i].lease > 1
  /\ \A d, e \in Dispatchers : Holds(d, i) /\ Holds(e, i) => d = e
  /\ items[i].holder # "nobody" => \E d \in Dispatchers : Holds(d, i)
  /\ \A d \in Dispatchers : i \notin expired[d]

\* An answered item is no longer offered, or is about to be marked read.
Settled(i) ==
  /\ Answered(i) => items[i].status # "sent" \/ \E d \in Dispatchers : pc[d] = "markread" /\ job[d] = i
  /\ \A d \in Dispatchers : pc[d] \in Answering /\ job[d] = i => ~Answered(i)
  /\ \A j, k \in Replies(i) : j = k

Undivided ==
  /\ Serving
  /\ Undisturbed =>
       /\ \A d \in Dispatchers : pc[d] \in Marking => ~Delegated(job[d])
       /\ \A i \in DOMAIN items : Delegated(i) => Leased(i) /\ Settled(i)

\* At the start nothing is claimed and nothing is answered.
LEMMA InitUndivided == Init => Undivided
<1> SUFFICES ASSUME Init PROVE Undivided
  OBVIOUS
<1>1. \A d \in Dispatchers : pc[d] = "asleep" /\ left[d] = {} /\ expired[d] = {}
  BY DEF Init
<1>2. \A i \in DOMAIN items : items[i].holder = "nobody" /\ items[i].reply = 0
  BY DispatchAssumption DEF Init
<1>3. \A i \in DOMAIN items : i # 0
  <2>1. items \in Seq(Items)
    BY DispatchAssumption DEF Init
  <2> QED
    BY <2>1, LenProperties
<1>4. ASSUME NEW i \in DOMAIN items PROVE Replies(i) = {} /\ ~Answered(i)
  BY <1>2, <1>3 DEF Replies, Answered
<1>5. ASSUME NEW i \in DOMAIN items PROVE Leased(i) /\ Settled(i)
  BY <1>1, <1>2, <1>4 DEF Leased, Settled, Holds, Holding, Answering
<1> QED
  BY <1>1, <1>5 DEF Undivided, Serving, Inside, Holding, Marking

\* What brings a process to mark an item, to answer it, and past marking it read.
LEMMA ProcessMoves ==
  ASSUME TypeOK, [Next]_vars, NEW d \in Dispatchers
  PROVE  /\ pc'[d] \in Marking => (pc[d] \in Marking /\ job'[d] = job[d]) \/ MarkNeedsHuman(d)
         /\ pc'[d] \in Answering => (pc[d] \in Answering /\ job'[d] = job[d]) \/ Claim(d)
         /\ pc[d] = "markread" => (pc'[d] = "markread" /\ job'[d] = job[d]) \/ MarkRead(d) \/ Fault
<1> DEFINE Goal ==
      /\ pc'[d] \in Marking => (pc[d] \in Marking /\ job'[d] = job[d]) \/ MarkNeedsHuman(d)
      /\ pc'[d] \in Answering => (pc[d] \in Answering /\ job'[d] = job[d]) \/ Claim(d)
      /\ pc[d] = "markread" => (pc'[d] = "markread" /\ job'[d] = job[d]) \/ MarkRead(d) \/ Fault
<1> USE DEF TypeOK, Goto, Marking, Answering
<1>1. CASE UNCHANGED vars \/ SetStatus \/ RouteItem \/ Tick
  BY <1>1 DEF vars, SetStatus, RouteItem, Tick
<1>2. ASSUME NEW e \in Dispatchers,
             StartPass(e) \/ ExpireClaims(e) \/ ListItems(e) \/ ListingDone(e) \/ PassDone(e)
      PROVE  Goal
  BY <1>2 DEF StartPass, ExpireClaims, ListItems, ListingDone, PassDone
<1>3. ASSUME NEW e \in Dispatchers, Claim(e) PROVE Goal
  <2>1. CASE e = d
    BY <1>3, <2>1 DEF Claim
  <2>2. CASE e # d
    BY <1>3, <2>2 DEF Claim
  <2> QED
    BY <2>1, <2>2
<1>4. ASSUME NEW e \in Dispatchers, MarkNeedsHuman(e) PROVE Goal
  <2>1. CASE e = d
    BY <1>4, <2>1 DEF MarkNeedsHuman
  <2>2. CASE e # d
    BY <1>4, <2>2 DEF MarkNeedsHuman
  <2> QED
    BY <2>1, <2>2
<1>5. ASSUME NEW e \in Dispatchers, MarkRead(e) PROVE Goal
  <2>1. CASE e = d
    BY <1>5, <2>1 DEF MarkRead
  <2>2. CASE e # d
    BY <1>5, <2>2 DEF MarkRead
  <2> QED
    BY <2>1, <2>2
<1>6. ASSUME NEW e \in Dispatchers, ReleaseAny(e) \/ ClaimRefused(e) \/ Renew(e) PROVE Goal
  BY <1>6 DEF ReleaseAny, ClaimRefused, Renew
<1>7. ASSUME NEW e \in Dispatchers,
             RunSucceeds(e) \/ RunFails(e) \/ CreateResult(e) \/ ReleaseDelivered(e)
      PROVE  Goal
  BY <1>7 DEF RunSucceeds, RunFails, CreateResult, ReleaseDelivered
<1>8. ASSUME NEW e \in Dispatchers, RecordSelect(e)
      PROVE  Goal
  <2>1. PICK at \in DOMAIN Selecting : Goto(e, at, Selecting[at])
    BY <1>8 DEF RecordSelect
  <2> QED
    BY <1>8, <2>1, Records DEF RecordSelect
<1>9. ASSUME NEW e \in Dispatchers, RecordUpdate(e)
      PROVE  Goal
  <2>1. PICK at \in DOMAIN Recording : Goto(e, at, Recording[at])
    BY <1>9 DEF RecordUpdate
  <2> QED
    BY <1>9, <2>1, Records DEF RecordUpdate
<1>10. ASSUME NEW e \in Dispatchers, ReleaseFailed(e) \/ Comment(e) \/ Restart(e) PROVE Goal
  BY <1>10 DEF ReleaseFailed, Comment, Restart
<1>11. ASSUME NEW e \in Dispatchers, Crash(e) \/ DeliveryRaises(e) PROVE Goal
  <2>1. Fault
    BY <1>11 DEF Crash, DeliveryRaises
  <2> QED
    BY <1>11, <2>1 DEF Crash, DeliveryRaises
<1> QED
  BY <1>1, <1>2, <1>3, <1>4, <1>5, <1>6, <1>7, <1>8, <1>9, <1>10, <1>11 DEF Next, Work

\* A process turns to workers it serves and to no others.
LEMMA NextServing == ASSUME TypeOK, Serving, [Next]_vars PROVE Serving'
<1> DEFINE Goal == \A d \in Dispatchers :
                     /\ left'[d] \subseteq deployment.serves[d]
                     /\ pc'[d] \in Inside \cup {"items"} => worker'[d] \in deployment.serves[d]
<1> USE DEF TypeOK, Serving, Goto, Inside, Holding, progress
<1>1. ASSUME UNCHANGED vars \/ SetStatus \/ RouteItem \/ Tick PROVE Goal
  BY <1>1 DEF vars, SetStatus, RouteItem, Tick
<1>2. ASSUME NEW e \in Dispatchers,
             StartPass(e) \/ ExpireClaims(e) \/ ListItems(e) \/ ListingDone(e) \/ PassDone(e)
      PROVE  Goal
  <2>1. CASE ListItems(e)
    <3>1. PICK w \in left[e] : worker' = [worker EXCEPT ![e] = w] /\ left' = [left EXCEPT ![e] = @ \ {w}]
      BY <2>1 DEF ListItems
    <3> QED
      BY <2>1, <3>1 DEF ListItems
  <2>2. CASE ExpireClaims(e)
    BY <2>2 DEF ExpireClaims
  <2>3. CASE StartPass(e) \/ ListingDone(e) \/ PassDone(e)
    BY <2>3 DEF StartPass, ListingDone, PassDone
  <2> QED
    BY <1>2, <2>1, <2>2, <2>3
<1>3. ASSUME NEW e \in Dispatchers,
             MarkNeedsHuman(e) \/ ReleaseAny(e) \/ Claim(e) \/ ClaimRefused(e) \/ Renew(e)
      PROVE  Goal
  BY <1>3 DEF MarkNeedsHuman, ReleaseAny, Claim, ClaimRefused, Renew
<1>4. ASSUME NEW e \in Dispatchers,
             RunSucceeds(e) \/ RunFails(e) \/ CreateResult(e) \/ MarkRead(e) \/ ReleaseDelivered(e)
      PROVE  Goal
  BY <1>4 DEF RunSucceeds, RunFails, CreateResult, MarkRead, ReleaseDelivered
<1>5. ASSUME NEW e \in Dispatchers, RecordSelect(e)
      PROVE  Goal
  <2>1. PICK at \in DOMAIN Selecting : Goto(e, at, Selecting[at])
    BY <1>5 DEF RecordSelect
  <2> QED
    BY <1>5, <2>1, Records DEF RecordSelect
<1>6. ASSUME NEW e \in Dispatchers, RecordUpdate(e)
      PROVE  Goal
  <2>1. PICK at \in DOMAIN Recording : Goto(e, at, Recording[at])
    BY <1>6 DEF RecordUpdate
  <2> QED
    BY <1>6, <2>1, Records DEF RecordUpdate
<1>7. ASSUME NEW e \in Dispatchers,
             ReleaseFailed(e) \/ Comment(e) \/ Restart(e) \/ Crash(e) \/ DeliveryRaises(e)
      PROVE  Goal
  BY <1>7 DEF ReleaseFailed, Comment, Restart, Crash, DeliveryRaises
<1> HIDE DEF Goal, TypeOK, Serving, Goto, Inside, Holding, progress
<1>8. Goal
  BY <1>1, <1>2, <1>3, <1>4, <1>5, <1>6, <1>7 DEF Next, Work
<1> QED
  BY <1>8, RowSteps DEF Goal, Serving

\* The steps that leave an item's claim with whoever has it.
LEMMA LeaseKept ==
  ASSUME NEW i, Leased(i),
         items'[i].holder = items[i].holder, items'[i].lease = items[i].lease,
         \A e \in Dispatchers : Holds(e, i) => pc'[e] \in Holding /\ job'[e] = i,
         \A e \in Dispatchers : pc'[e] \in Holding /\ job'[e] = i =>
           /\ Holds(e, i) /\ worker'[e] = worker[e]
           /\ pc'[e] = "running" => pc[e] = "running" /\ (e \in due => e \in due'),
         \A e \in Dispatchers : i \notin expired'[e]
  PROVE  Leased(i)'
BY DEF Leased, Holds

\* A claim in use is neither free nor stale.
LEMMA InUse ==
  ASSUME TypeOK, NEW i \in DOMAIN items, Leased(i)
  PROVE  /\ ~Stale(items[i])
         /\ Unclaimed(items[i]) => \A d \in Dispatchers : ~Holds(d, i)
<1>1. items[i] \in Items
  BY ItemType
<1>2. ASSUME NEW d \in Dispatchers, Holds(d, i)
      PROVE  items[i].holder # "nobody" /\ items[i].lease > 0
  <2>1. worker[d] \in Workers
    BY <1>2 DEF TypeOK, Holds, Inside
  <2> QED
    BY <1>2, <2>1, WorkQueueAssumption DEF Leased
<1>3. ~Stale(items[i])
  BY <1>1, <1>2 DEF Stale, Leased, Items, Over
<1> QED
  BY <1>1, <1>2, <1>3 DEF Unclaimed, Items, Over

\* Steps that touch no claim.
LEMMA QuietLeases ==
  ASSUME TypeOK, NEW i \in DOMAIN items, Leased(i), NEW d \in Dispatchers,
         \/ StartPass(d) \/ ListItems(d) \/ ListingDone(d) \/ PassDone(d) \/ ClaimRefused(d)
         \/ RunSucceeds(d) \/ RunFails(d) \/ RecordSelect(d) \/ Restart(d)
  PROVE  Leased(i)'
<1> USE DEF TypeOK, Goto, Holds, Holding, progress, selected
<1>1. items' = items
  BY DEF StartPass, ListItems, ListingDone, PassDone, ClaimRefused, RunSucceeds, RunFails,
         RecordSelect, Restart
<1>2. \A e \in Dispatchers : i \notin expired'[e]
  <2>1. CASE StartPass(d)
    BY <2>1, InUse DEF StartPass, Leased
  <2>2. CASE ~StartPass(d)
    BY <2>2 DEF Leased, ListItems, ListingDone, PassDone, ClaimRefused, RunSucceeds, RunFails,
                RecordSelect, Restart
  <2> QED
    BY <2>1, <2>2
<1> DEFINE Keeps == \A e \in Dispatchers :
      /\ Holds(e, i) => pc'[e] \in Holding /\ job'[e] = i
      /\ pc'[e] \in Holding /\ job'[e] = i =>
           /\ Holds(e, i) /\ worker'[e] = worker[e]
           /\ pc'[e] = "running" => pc[e] = "running" /\ (e \in due => e \in due')
<1>3. Keeps
  <2>1. ASSUME StartPass(d) \/ ListItems(d) \/ ListingDone(d) \/ PassDone(d) \/ ClaimRefused(d) \/ Restart(d)
        PROVE  Keeps
    BY <2>1 DEF StartPass, ListItems, ListingDone, PassDone, ClaimRefused, Restart
  <2>2. ASSUME RunSucceeds(d) \/ RunFails(d)
        PROVE  Keeps
    BY <2>2 DEF RunSucceeds, RunFails
  <2>3. ASSUME RecordSelect(d)
        PROVE  Keeps
    <3>1. PICK at \in DOMAIN Selecting : Goto(d, at, Selecting[at])
      BY <2>3 DEF RecordSelect
    <3> QED
      BY <2>3, <3>1, Records DEF RecordSelect
  <2> QED
    BY <2>1, <2>2, <2>3
<1> QED
  BY <1>1, <1>2, <1>3, LeaseKept

\* Only the row of its item is touched, by a process inside it.
LEMMA JobLeases ==
  ASSUME TypeOK, NEW i \in DOMAIN items, Leased(i), NEW d \in Dispatchers,
         \/ Renew(d) \/ MarkRead(d) \/ ReleaseDelivered(d) \/ RecordUpdate(d) \/ ReleaseFailed(d),
         MaxLease > 1
  PROVE  Leased(i)'
<1> USE DEF Goto, Holding, progress, selected
<1>1. /\ pc[d] \in Inside /\ job[d] \in DOMAIN items /\ Job(d) = items[job[d]] /\ Job(d) \in Items
      /\ worker[d] \in Workers
  BY JobType DEF Renew, MarkRead, ReleaseDelivered, RecordUpdate, Recording, ReleaseFailed, Inside, Job
<1>2. expired' = expired /\ worker' = worker
  BY DEF TypeOK, Renew, MarkRead, ReleaseDelivered, RecordUpdate, ReleaseFailed
<1>3. \A e \in Dispatchers : i \notin expired'[e]
  BY <1>2 DEF Leased
<1> DEFINE Keeps == \A e \in Dispatchers :
      /\ Holds(e, i) => pc'[e] \in Holding /\ job'[e] = i
      /\ pc'[e] \in Holding /\ job'[e] = i =>
           /\ Holds(e, i) /\ worker'[e] = worker[e]
           /\ pc'[e] = "running" => pc[e] = "running" /\ (e \in due => e \in due')
<1>4. ASSUME MarkRead(d) PROVE Leased(i)'
  <2>1. items'[i].holder = items[i].holder /\ items'[i].lease = items[i].lease
    BY <1>1, <1>4 DEF MarkRead, Becomes, Items
  <2>2. Keeps
    BY <1>4 DEF MarkRead, TypeOK, Holds
  <2> QED
    BY <1>3, <2>1, <2>2, LeaseKept
<1>5. ASSUME RecordUpdate(d) PROVE Leased(i)'
  <2> DEFINE n == IF pc[d] = "failed2" THEN counted[d] + 1 ELSE counted[d]
  <2>1. Becomes(job[d], [Job(d) EXCEPT !.retries = n])
    BY <1>5 DEF RecordUpdate
  <2> HIDE DEF n
  <2>2. items'[i].holder = items[i].holder /\ items'[i].lease = items[i].lease
    BY <1>1, <2>1 DEF Becomes, Items
  <2>3. PICK at \in DOMAIN Recording : Goto(d, at, Recording[at])
    BY <1>5 DEF RecordUpdate
  <2>4. Keeps
    BY <1>5, <2>3, Records DEF RecordUpdate, TypeOK, Holds
  <2> QED
    BY <1>3, <2>2, <2>4, LeaseKept
<1>6. ASSUME Renew(d) PROVE Leased(i)'
  <2>1. /\ items' = [items EXCEPT ![job[d]] = renew_claim(Job(d), worker[d], MaxLease)]
        /\ pc' = pc /\ job' = job /\ due' = due \ {d} /\ pc[d] = "running"
    BY <1>6 DEF Renew, Becomes
  <2>2. CASE job[d] = i
    <3>1. items[i].holder = worker[d]
      BY <2>1, <2>2 DEF Leased, Holds
    <3>2. items'[i] = [items[i] EXCEPT !.lease = MaxLease]
      BY <1>1, <2>1, <2>2, <3>1 DEF renew_claim
    <3>3. items'[i].holder = items[i].holder /\ items'[i].lease = MaxLease
      BY <1>1, <2>2, <3>2 DEF Items
    <3>4. MaxLease > 0
      BY WorkQueueAssumption
    <3> QED
      BY <1>2, <1>3, <2>1, <3>3, <3>4 DEF Leased, Holds
  <2>3. CASE job[d] # i
    <3>1. items'[i] = items[i]
      BY <2>1, <2>3
    <3>2. Keeps
      BY <1>2, <2>1, <2>3 DEF Holds
    <3> QED
      BY <1>3, <3>1, <3>2, LeaseKept
  <2> QED
    BY <2>2, <2>3
<1>7. ASSUME pc[d] \in Holding, pc'[d] \notin Holding,
             \A e \in Dispatchers : e # d => pc'[e] = pc[e] /\ job'[e] = job[e],
             Becomes(job[d], release_claim(Job(d), worker[d])), due' = due
      PROVE  Leased(i)'
  <2>1. \A e \in Dispatchers : Holds(e, i)' <=> (e # d /\ Holds(e, i))
    BY <1>7 DEF TypeOK, Holds
  <2>2. CASE job[d] = i
    <3>1. items[i].holder = worker[d] /\ \A e \in Dispatchers : Holds(e, i) => e = d
      BY <1>7, <2>2 DEF Leased, Holds
    <3>2. items'[i] = Free(items[i])
      BY <1>1, <1>7, <2>2, <3>1 DEF release_claim, Becomes
    <3>3. items'[i].holder = "nobody"
      BY <1>1, <2>2, <3>2 DEF Free, Items
    <3> QED
      BY <1>3, <2>1, <3>1, <3>3 DEF Leased
  <2>3. CASE job[d] # i
    <3>1. items'[i] = items[i]
      BY <1>7, <2>3 DEF Becomes
    <3>2. Keeps
      BY <1>2, <1>7, <2>1, <2>3 DEF Holds, TypeOK
    <3> QED
      BY <1>3, <3>1, <3>2, LeaseKept
  <2> QED
    BY <2>2, <2>3
<1>8. ASSUME ReleaseDelivered(d) PROVE Leased(i)'
  <2>1. /\ pc[d] = "release" /\ pc' = [pc EXCEPT ![d] = "items"] /\ job' = [job EXCEPT ![d] = 0]
        /\ Becomes(job[d], release_claim(Job(d), worker[d])) /\ due' = due
    BY <1>8 DEF ReleaseDelivered
  <2>2. pc'[d] \notin Holding /\ \A e \in Dispatchers : e # d => pc'[e] = pc[e] /\ job'[e] = job[e]
    BY <2>1 DEF TypeOK
  <2> QED
    BY <1>7, <2>1, <2>2
<1>9. ASSUME ReleaseFailed(d) PROVE Leased(i)'
  <2>1. /\ pc[d] = "giveback" /\ pc' = [pc EXCEPT ![d] = "comment"] /\ job' = job
        /\ Becomes(job[d], release_claim(Job(d), worker[d])) /\ due' = due
    BY <1>9 DEF ReleaseFailed
  <2>2. pc'[d] \notin Holding /\ \A e \in Dispatchers : e # d => pc'[e] = pc[e] /\ job'[e] = job[e]
    BY <2>1 DEF TypeOK
  <2> QED
    BY <1>7, <2>1, <2>2
<1> QED
  BY <1>4, <1>5, <1>6, <1>8, <1>9

\* A claim binds the process to an item that nobody holds.
LEMMA ClaimLeases ==
  ASSUME TypeOK, NEW i \in DOMAIN items, Leased(i), NEW d \in Dispatchers, Claim(d), MaxLease > 1
  PROVE  Leased(i)'
<1> USE DEF Goto, Holding, progress, selected
<1>1. PICK s \in todo[d] :
        /\ can_claim(items[s.id])
        /\ Becomes(s.id, claim_item(items[s.id], worker[d], MaxLease))
        /\ job' = [job EXCEPT ![d] = s.id]
  BY DEF Claim
<1>2. /\ s.id \in DOMAIN items /\ items[s.id] \in Items /\ worker[d] \in Workers
      /\ pc[d] = "items" /\ pc'[d] = "running" /\ job'[d] = s.id
      /\ \A e \in Dispatchers : e # d => pc'[e] = pc[e] /\ job'[e] = job[e]
      /\ worker' = worker /\ expired' = expired /\ due' = due
  BY <1>1, ItemType DEF Claim, TypeOK
<1>3. \A e \in Dispatchers : i \notin expired'[e]
  BY <1>2 DEF Leased
<1>4. CASE s.id = i
  <2>1. \A e \in Dispatchers : ~Holds(e, i)
    BY <1>1, <1>4, InUse DEF can_claim
  <2>2. \A e \in Dispatchers : Holds(e, i)' <=> e = d
    BY <1>2, <1>4, <2>1 DEF Holds
  <2>3. items'[i].holder = worker[d] /\ items'[i].lease = MaxLease
    BY <1>1, <1>2, <1>4 DEF claim_item, Becomes, Items
  <2>4. MaxLease > 0
    BY WorkQueueAssumption
  <2> QED
    BY <1>2, <1>3, <2>2, <2>3, <2>4 DEF Leased
<1>5. CASE s.id # i
  <2>1. items'[i] = items[i]
    BY <1>1, <1>5 DEF Becomes
  <2>2. \A e \in Dispatchers : (pc'[e] \in Holding /\ job'[e] = i) <=> Holds(e, i)
    BY <1>2, <1>5 DEF Holds
  <2>3. \A e \in Dispatchers : Holds(e, i) => pc'[e] = pc[e]
    BY <1>2 DEF Holds
  <2> QED
    BY <1>2, <1>3, <2>1, <2>2, <2>3, LeaseKept
<1> QED
  BY <1>4, <1>5

\* Nobody has picked the claims in use for expiry.
LEMMA ExpiryLeases ==
  ASSUME TypeOK, NEW i \in DOMAIN items, Leased(i), NEW d \in Dispatchers, ExpireClaims(d)
  PROVE  Leased(i)'
<1>1. i \notin expired[d] /\ \A e \in Dispatchers : i \notin expired[e]
  BY DEF Leased
<1>2. items'[i] = items[i]
  BY <1>1 DEF ExpireClaims
<1>3. \A e \in Dispatchers : i \notin expired'[e]
  BY <1>1 DEF ExpireClaims, TypeOK
<1>4. \A e \in Dispatchers : (pc'[e] \in Holding /\ job'[e] = i) <=> Holds(e, i)
  BY DEF ExpireClaims, TypeOK, Goto, Holding, Holds
<1>5. \A e \in Dispatchers : Holds(e, i) => pc'[e] = pc[e]
  BY DEF ExpireClaims, TypeOK, Goto, Holding, Holds
<1> QED
  BY <1>2, <1>3, <1>4, <1>5, LeaseKept DEF ExpireClaims

\* Items that are handed to a person are none that is delegated.
LEMMA MarkingLeases ==
  ASSUME TypeOK, NEW i \in DOMAIN items, Leased(i), NEW d \in Dispatchers,
         MarkNeedsHuman(d) \/ ReleaseAny(d), Delegated(i), items'[i].to # {"human"},
         pc[d] \in Marking => ~Delegated(job[d])
  PROVE  Leased(i)'
<1> USE DEF Goto, Holding, progress, selected
<1>1. \A e \in Dispatchers : i \notin expired'[e]
  BY DEF MarkNeedsHuman, ReleaseAny, Leased
<1>2. items'[i] = items[i]
  <2>1. CASE MarkNeedsHuman(d)
    <3>1. PICK s \in todo[d] : Becomes(s.id, [items[s.id] EXCEPT !.to = {"human"}])
      BY <2>1 DEF MarkNeedsHuman
    <3>2. s.id \in DOMAIN items /\ items[s.id] \in Items
      BY ItemType DEF TypeOK
    <3> QED
      BY <3>1, <3>2 DEF Becomes, Items
  <2>2. CASE ReleaseAny(d)
    BY <2>2 DEF ReleaseAny, Becomes, Marking
  <2> QED
    BY <2>1, <2>2
<1>3. \A e \in Dispatchers :
        /\ (pc'[e] \in Holding /\ job'[e] = i) <=> Holds(e, i)
        /\ Holds(e, i) => pc'[e] = pc[e]
  <2>1. PICK n : /\ job' = [job EXCEPT ![d] = n]
                 /\ pc[d] \in {"items", "unclaim"}
                 /\ \E to \in {"human", "items"} : pc' = [pc EXCEPT ![d] = to]
    BY DEF MarkNeedsHuman, ReleaseAny
  <2> QED
    BY <2>1 DEF Holds, TypeOK
<1>4. worker' = worker /\ due' = due
  BY DEF MarkNeedsHuman, ReleaseAny
<1> QED
  BY <1>1, <1>2, <1>3, <1>4, LeaseKept

\* A new item leaves the leases of the others alone.
LEMMA AddLeases ==
  ASSUME TypeOK, NEW i \in DOMAIN items, Leased(i), NEW d \in Dispatchers, CreateResult(d) \/ Comment(d)
  PROVE  Leased(i)'
<1> USE DEF Goto, Holding, progress, selected
<1>1. pc[d] \in Inside
  BY DEF CreateResult, Comment, Inside
<1>2. /\ job[d] \in Nat /\ route[d] \in SUBSET Recipients /\ {Job(d).from} \in SUBSET Recipients
      /\ Job(d) \in Items /\ worker[d] \in Workers
  BY <1>1, JobType DEF TypeOK, Items, Recipients
<1>3. PICK type \in {"prompt", "results"}, to \in SUBSET Recipients :
        items' = Append(items, NewReply(type, worker[d], to, Job(d), job[d]))
  BY <1>2 DEF CreateResult, Comment
<1>4. items'[i] = items[i]
  BY <1>2, <1>3, ReplyType, AddItem
<1>5. expired' = expired /\ worker' = worker /\ due' = due
  BY DEF CreateResult, Comment
<1>6. \A e \in Dispatchers :
        /\ (pc'[e] \in Holding /\ job'[e] = i) <=> Holds(e, i)
        /\ pc'[e] = "running" => pc[e] = "running"
  BY DEF CreateResult, Comment, Holds, TypeOK
<1> QED
  BY <1>4, <1>5, <1>6, LeaseKept DEF Leased

\* A change of status by people leaves the claim alone.
LEMMA StatusLeases ==
  ASSUME TypeOK, NEW i \in DOMAIN items, Leased(i), SetStatus
  PROVE  Leased(i)'
<1>1. PICK j \in DOMAIN items, s \in deployment.statuses : Becomes(j, [items[j] EXCEPT !.status = s])
  BY DEF SetStatus
<1>2. items[i] \in Items /\ items[j] \in Items
  BY ItemType
<1>3. items'[i].holder = items[i].holder /\ items'[i].lease = items[i].lease
  BY <1>1, <1>2 DEF Becomes, Items
<1>4. pc' = pc /\ worker' = worker /\ job' = job /\ expired' = expired /\ due' = due
  BY DEF SetStatus, progress, selected
<1> QED
  BY <1>3, <1>4, LeaseKept DEF Leased, Holds

\* An interval passes only when every lease in use has another to go, and then
\* each of them is due.
LEMMA TickLeases ==
  ASSUME TypeOK, NEW i \in DOMAIN items, Leased(i), Tick, Serving, Undisturbed
  PROVE  Leased(i)'
<1>1. /\ items'[i] = Older(items[i]) /\ items[i] \in Items
      /\ pc' = pc /\ worker' = worker /\ job' = job /\ expired' = expired
  BY ItemType DEF Tick, progress, selected
<1>2. items'[i].holder = items[i].holder /\ (items[i].lease > 1 => items'[i].lease > 0)
  BY <1>1 DEF Older, Items, Over
<1>3. ASSUME NEW d \in Dispatchers, Holds(d, i)
      PROVE  items[i].lease > 1 /\ d \in due'
  <2>1. pc[d] = "running" /\ due = {}
    BY <1>3 DEF Tick, Holds
  <2>2. worker[d] \in deployment.watched
    BY <2>1 DEF Serving, Undisturbed, Inside, Holding
  <2> QED
    BY <1>3, <2>1, <2>2 DEF Tick, Leased, Watched
<1> QED
  BY <1>1, <1>2, <1>3 DEF Leased, Holds

\* An item that is added is nobody's, and has no answer yet.
LEMMA AddedItems ==
  ASSUME TypeOK, DepthsOK, [Next]_vars, NEW i \in DOMAIN items' \ DOMAIN items
  PROVE  Leased(i)' /\ Settled(i)'
<1>1. Posted(items'[i])
  BY RowSteps
<1>2. items'[i].holder = "nobody"
  BY <1>1 DEF Posted, NewReply
<1>3. \A e \in Dispatchers : ~(pc'[e] \in Bound /\ job'[e] = i)
  <2> SUFFICES ASSUME NEW e \in Dispatchers, pc'[e] \in Bound PROVE job'[e] # i
    OBVIOUS
  <2>1. CASE pc[e] \in Bound /\ job'[e] = job[e]
    BY <2>1, JobType DEF Bound, Inside
  <2>2. CASE Claim(e)
    <3>1. PICK s \in todo[e] : job' = [job EXCEPT ![e] = s.id]
      BY <2>2 DEF Claim
    <3> QED
      BY <3>1 DEF TypeOK
  <2> QED
    BY <2>1, <2>2, ProcessSteps
<1>4. \A e \in Dispatchers : i \notin expired'[e]
  <2>1. \A e \in Dispatchers : expired'[e] \subseteq DOMAIN items
    <3>1. CASE \E d \in Dispatchers : StartPass(d)
      BY <3>1 DEF StartPass, TypeOK
    <3>2. CASE \E d \in Dispatchers : ExpireClaims(d) \/ Crash(d)
      BY <3>2 DEF ExpireClaims, Crash, TypeOK
    <3>3. CASE UNCHANGED expired
      BY <3>3 DEF TypeOK
    <3>4. UNCHANGED expired \/ \E d \in Dispatchers : StartPass(d) \/ ExpireClaims(d) \/ Crash(d)
      BY DEF Next, Work, vars, selected, ListItems, ListingDone, PassDone, MarkNeedsHuman, ReleaseAny,
             Claim, ClaimRefused, Renew, RunSucceeds, RunFails, CreateResult, MarkRead,
             ReleaseDelivered, DeliveryRaises, RecordSelect, RecordUpdate, ReleaseFailed, Comment,
             Restart, SetStatus, RouteItem, Tick
    <3> QED
      BY <3>1, <3>2, <3>3, <3>4
  <2> QED
    BY <2>1
<1>5. Leased(i)'
  BY <1>2, <1>3, <1>4 DEF Leased, Holds, Bound
<1>6. \A j \in DOMAIN items' : items'[j].reply # i
  <2> SUFFICES ASSUME NEW j \in DOMAIN items' PROVE items'[j].reply # i
    OBVIOUS
  <2>1. i # 0
    BY NextTypes, LenProperties DEF Kept
  <2>2. CASE j \in DOMAIN items
    BY <2>1, <2>2, NextTypes DEF Kept, SameWork, DepthsOK
  <2>3. CASE j \notin DOMAIN items
    <3>1. PICK d \in Dispatchers, type \in {"prompt", "results"}, to \in SUBSET Recipients :
            pc[d] \in Bound /\ items'[j] = NewReply(type, worker[d], to, Job(d), job[d])
      BY <2>3, RowSteps DEF Posted
    <3>2. items'[j].reply = job[d] /\ job[d] \in DOMAIN items
      BY <3>1, JobType DEF NewReply, Bound, Inside
    <3> QED
      BY <3>2
  <2> QED
    BY <2>2, <2>3
<1>7. Replies(i)' = {} /\ ~Answered(i)'
  BY <1>6 DEF Replies, Answered
<1>8. Settled(i)'
  BY <1>7 DEF Settled
<1> QED
  BY <1>5, <1>8

\* Undisturbed, no process dies and nobody routes an item.
LEMMA Calm ==
  ASSUME TypeOK, [Next]_vars, Undisturbed'
  PROVE  Undisturbed /\ ~Fault /\ ~RouteItem
<1>1. deployment' = deployment
  BY RowSteps
<1>2. faults \in Nat
  BY DispatchAssumption DEF TypeOK
<1>3. ~Fault
  BY <1>2 DEF Fault, Undisturbed
<1>4. faults' = faults
  BY <1>3 DEF Next, Work, vars, selected, StartPass, ExpireClaims, ListItems, ListingDone, PassDone,
              MarkNeedsHuman, ReleaseAny, Claim, ClaimRefused, Renew, RunSucceeds, RunFails,
              CreateResult, MarkRead, ReleaseDelivered, DeliveryRaises, RecordSelect, RecordUpdate,
              ReleaseFailed, Comment, Crash, Restart, SetStatus, RouteItem, Tick
<1>5. Undisturbed
  BY <1>1, <1>4 DEF Undisturbed
<1> QED
  BY <1>3, <1>5 DEF RouteItem, Undisturbed

\* Undisturbed, no step loses the lease of an item in use, leaves a claim
\* behind, or lets a second process in.
LEMMA NextLeases ==
  ASSUME TypeOK, [Next]_vars, Undisturbed, ~Fault, ~RouteItem, Serving, MaxLease > 1,
         NEW i \in DOMAIN items, Delegated(i), Leased(i), items'[i].to # {"human"},
         \A d \in Dispatchers : pc[d] \in Marking => ~Delegated(job[d])
  PROVE  Leased(i)'
<1>1. CASE UNCHANGED vars
  <2>1. items' = items /\ pc' = pc /\ worker' = worker /\ job' = job /\ expired' = expired /\ due' = due
    BY <1>1 DEF vars, progress, selected
  <2> QED
    BY <2>1, LeaseKept DEF Leased, Holds
<1>2. ASSUME NEW d \in Dispatchers,
             \/ StartPass(d) \/ ListItems(d) \/ ListingDone(d) \/ PassDone(d) \/ ClaimRefused(d)
             \/ RunSucceeds(d) \/ RunFails(d) \/ RecordSelect(d) \/ Restart(d)
      PROVE  Leased(i)'
  BY <1>2, QuietLeases
<1>3. ASSUME NEW d \in Dispatchers,
             Renew(d) \/ MarkRead(d) \/ ReleaseDelivered(d) \/ RecordUpdate(d) \/ ReleaseFailed(d)
      PROVE  Leased(i)'
  BY <1>3, JobLeases
<1>4. ASSUME NEW d \in Dispatchers, Claim(d) PROVE Leased(i)'
  BY <1>4, ClaimLeases
<1>5. ASSUME NEW d \in Dispatchers, ExpireClaims(d) PROVE Leased(i)'
  BY <1>5, ExpiryLeases
<1>6. ASSUME NEW d \in Dispatchers, MarkNeedsHuman(d) \/ ReleaseAny(d) PROVE Leased(i)'
  BY <1>6, MarkingLeases
<1>7. ASSUME NEW d \in Dispatchers, CreateResult(d) \/ Comment(d) PROVE Leased(i)'
  BY <1>7, AddLeases
<1>8. ASSUME NEW d \in Dispatchers, Crash(d) \/ DeliveryRaises(d) PROVE Leased(i)'
  BY <1>8 DEF Crash, DeliveryRaises
<1> QED
  BY <1>1, <1>2, <1>3, <1>4, <1>5, <1>6, <1>7, <1>8, StatusLeases, TickLeases DEF Next, Work

\* Answers are added by CreateResult alone, to the item at hand.
LEMMA NewReplies ==
  ASSUME TypeOK, [Next]_vars, NEW i \in DOMAIN items
  PROVE  \/ Replies(i)' = Replies(i)
         \/ \E d \in Dispatchers : /\ CreateResult(d) /\ job[d] = i
                                   /\ Replies(i)' = Replies(i) \cup {Len(items) + 1}
<1> DEFINE Goal == \/ Replies(i)' = Replies(i)
                   \/ \E d \in Dispatchers : /\ CreateResult(d) /\ job[d] = i
                                             /\ Replies(i)' = Replies(i) \cup {Len(items) + 1}
<1>1. ASSUME DOMAIN items' = DOMAIN items PROVE Goal
  BY <1>1, NextTypes DEF Replies, Kept, SameWork
<1>2. ASSUME NEW d \in Dispatchers, CreateResult(d) \/ Comment(d) PROVE Goal
  <2>1. pc[d] \in Inside
    BY <1>2 DEF CreateResult, Comment, Goto, Inside, Holding
  <2>2. /\ job[d] \in Nat /\ route[d] \in SUBSET Recipients /\ {Job(d).from} \in SUBSET Recipients
        /\ Job(d) \in Items /\ worker[d] \in Workers
    BY <2>1, JobType DEF TypeOK, Items, Recipients
  <2>3. PICK type \in {"prompt", "results"}, to \in SUBSET Recipients :
          /\ items' = Append(items, NewReply(type, worker[d], to, Job(d), job[d]))
          /\ type = "results" => CreateResult(d)
    BY <1>2, <2>2 DEF CreateResult, Comment
  <2> DEFINE item == NewReply(type, worker[d], to, Job(d), job[d])
  <2>4. item \in Items /\ item.reply = job[d] /\ item.type = type
    <3>1. item \in Items
      BY <2>2, ReplyType
    <3> QED
      BY <3>1 DEF NewReply
  <2>5. items' = Append(items, item)
    BY <2>3
  <2> HIDE DEF item
  <2>6. /\ DOMAIN items' = (DOMAIN items) \cup {Len(items) + 1}
        /\ \A j \in DOMAIN items : items'[j] = items[j]
        /\ items'[Len(items) + 1] = item
    BY <2>4, <2>5, AddItem
  <2>7. CASE type = "results" /\ job[d] = i
    <3>1. Replies(i)' = Replies(i) \cup {Len(items) + 1}
      BY <2>4, <2>6, <2>7 DEF Replies
    <3> QED
      BY <2>3, <2>7, <3>1
  <2>8. CASE ~(type = "results" /\ job[d] = i)
    BY <2>4, <2>6, <2>8 DEF Replies
  <2> QED
    BY <2>7, <2>8
<1>3. \/ DOMAIN items' = DOMAIN items
      \/ \E d \in Dispatchers : CreateResult(d) \/ Comment(d)
  <2>1. CASE UNCHANGED items
    BY <2>1
  <2>2. ASSUME NEW d \in Dispatchers,
               \/ ReleaseAny(d) \/ Renew(d) \/ MarkRead(d) \/ ReleaseDelivered(d)
               \/ RecordUpdate(d) \/ ReleaseFailed(d) \/ DeliveryRaises(d)
               \/ ExpireClaims(d) \/ MarkNeedsHuman(d) \/ Claim(d)
        PROVE  DOMAIN items' = DOMAIN items
    BY <2>2 DEF ReleaseAny, Renew, MarkRead, ReleaseDelivered, RecordUpdate, ReleaseFailed,
                DeliveryRaises, ExpireClaims, MarkNeedsHuman, Claim, Becomes
  <2>3. ASSUME SetStatus \/ RouteItem \/ Tick PROVE DOMAIN items' = DOMAIN items
    BY <2>3 DEF SetStatus, RouteItem, Tick, Becomes
  <2>4. \/ UNCHANGED items
        \/ \E d \in Dispatchers :
             \/ ReleaseAny(d) \/ Renew(d) \/ MarkRead(d) \/ ReleaseDelivered(d)
             \/ RecordUpdate(d) \/ ReleaseFailed(d) \/ DeliveryRaises(d)
             \/ ExpireClaims(d) \/ MarkNeedsHuman(d) \/ Claim(d)
             \/ CreateResult(d) \/ Comment(d)
        \/ SetStatus \/ RouteItem \/ Tick
    BY DEF Next, Work, vars, StartPass, ListItems, ListingDone, PassDone, ClaimRefused, RunSucceeds,
           RunFails, RecordSelect, Crash, Restart
  <2> QED
    BY <2>1, <2>2, <2>3, <2>4
<1> QED
  BY <1>1, <1>2, <1>3

\* An item is answered when there is a result for it.
LEMMA AnsweredReplies == ASSUME NEW i PROVE (Answered(i) <=> Replies(i) # {}) /\ (Answered(i)' <=> Replies(i)' # {})
BY DEF Answered, Replies

\* What a claim takes has no answer.
LEMMA ClaimUnanswered ==
  ASSUME TypeOK, NEW i \in DOMAIN items, Leased(i), Settled(i), NEW d \in Dispatchers,
         Claim(d), job'[d] = i
  PROVE  ~Answered(i)
<1>1. PICK s \in todo[d] : can_claim(items[s.id]) /\ job' = [job EXCEPT ![d] = s.id]
  BY DEF Claim
<1>2. s.id = i
  BY <1>1 DEF TypeOK
<1>3. items[i].status = "sent" /\ \A e \in Dispatchers : ~Holds(e, i)
  BY <1>1, <1>2, InUse DEF can_claim
<1> QED
  BY <1>3 DEF Settled, Holds, Holding

\* Undisturbed, no step answers an item twice, or offers one that is answered.
LEMMA NextSettled ==
  ASSUME TypeOK, [Next]_vars, Undisturbed, ~Fault,
         NEW i \in DOMAIN items, Leased(i), Settled(i)
  PROVE  Settled(i)'
<1>1. CASE Replies(i)' = Replies(i)
  <2>1. Answered(i)' <=> Answered(i)
    BY <1>1, AnsweredReplies
  <2>2. ASSUME Answered(i), items'[i].status = "sent"
        PROVE  \E d \in Dispatchers : pc'[d] = "markread" /\ job'[d] = i
    <3>1. items[i].status = "sent"
      BY <2>2, RowSteps DEF Touched, SameRoute, Undisturbed
    <3>2. PICK d \in Dispatchers : pc[d] = "markread" /\ job[d] = i
      BY <2>2, <3>1 DEF Settled
    <3>3. ~MarkRead(d)
      <4> SUFFICES ASSUME MarkRead(d) PROVE FALSE
        OBVIOUS
      <4>1. items[i] \in Items
        BY ItemType
      <4>2. items'[i].status = "read"
        BY <3>2, <4>1 DEF MarkRead, Becomes, Job, Items
      <4> QED
        BY <2>2, <4>2
    <3> QED
      BY <3>2, <3>3, ProcessMoves
  <2>3. ASSUME NEW d \in Dispatchers, pc'[d] \in Answering, job'[d] = i
        PROVE  ~Answered(i)
    <3>1. CASE pc[d] \in Answering /\ job'[d] = job[d]
      BY <2>3, <3>1 DEF Settled
    <3>2. CASE Claim(d)
      BY <2>3, <3>2, ClaimUnanswered
    <3> QED
      BY <2>3, <3>1, <3>2, ProcessMoves
  <2>4. \A j, k \in Replies(i)' : j = k
    BY <1>1 DEF Settled
  <2> QED
    BY <2>1, <2>2, <2>3, <2>4 DEF Settled
<1>2. ASSUME NEW d \in Dispatchers, CreateResult(d), job[d] = i, Replies(i)' = Replies(i) \cup {Len(items) + 1}
      PROVE  Settled(i)'
  <2>1. pc[d] = "deliver" /\ pc'[d] = "markread" /\ job' = job
    BY <1>2 DEF CreateResult, Goto, TypeOK, progress
  <2>2. Replies(i) = {}
    BY <1>2, <2>1, AnsweredReplies DEF Settled, Answering
  <2>3. \A e \in Dispatchers : e # d => ~Holds(e, i)
    BY <1>2, <2>1 DEF Leased, Holds, Holding
  <2>4. \A e \in Dispatchers : e # d => pc'[e] = pc[e]
    BY <1>2 DEF CreateResult, Goto, TypeOK
  <2>5. \A e \in Dispatchers : ~(pc'[e] \in Answering /\ job'[e] = i)
    BY <2>1, <2>3, <2>4 DEF Answering, Holds, Holding
  <2> QED
    BY <1>2, <2>1, <2>2, <2>5 DEF Settled
<1> QED
  BY <1>1, <1>2, NewReplies

\* No step leaves the invariant, if a lease outlasts the interval of the
\* watchdog.
LEMMA NextUndivided ==
  ASSUME TypeOK, DepthsOK, Undivided, [Next]_vars, MaxLease > 1
  PROVE  Undivided'
<1>1. Serving'
  BY NextServing DEF Undivided
<1> SUFFICES ASSUME Undisturbed'
             PROVE  /\ \A d \in Dispatchers : pc'[d] \in Marking => ~Delegated(job[d])'
                    /\ \A i \in DOMAIN items' : Delegated(i)' => Leased(i)' /\ Settled(i)'
  BY <1>1 DEF Undivided
<1>2. Undisturbed /\ ~Fault /\ ~RouteItem
  BY Calm
<1>3. ASSUME NEW i \in DOMAIN items, ~Delegated(i) PROVE ~Delegated(i)'
  BY <1>2, <1>3, RowSteps DEF Touched, SameRoute, Undisturbed, Delegated
<1>4. ASSUME NEW d \in Dispatchers, pc'[d] \in Marking PROVE ~Delegated(job[d])'
  <2>1. CASE pc[d] \in Marking /\ job'[d] = job[d]
    <3>1. job[d] \in DOMAIN items /\ ~Delegated(job[d])
      BY <1>2, <2>1, JobType DEF Undivided, Marking, Inside
    <3>2. items'[job[d]].to = {"human"}
      BY <1>3, <3>1 DEF Delegated
    <3> QED
      BY <2>1, <3>2 DEF Delegated
  <2>2. CASE MarkNeedsHuman(d)
    <3>1. PICK s \in todo[d] : /\ Becomes(s.id, [items[s.id] EXCEPT !.to = {"human"}])
                               /\ job' = [job EXCEPT ![d] = s.id]
      BY <2>2 DEF MarkNeedsHuman
    <3>2. s.id \in DOMAIN items /\ items[s.id] \in Items /\ job'[d] = s.id
      BY <3>1, ItemType DEF TypeOK
    <3> QED
      BY <3>1, <3>2 DEF Becomes, Delegated, Items
  <2> QED
    BY <1>4, <2>1, <2>2, ProcessMoves
<1>5. ASSUME NEW i \in DOMAIN items', Delegated(i)' PROVE Leased(i)' /\ Settled(i)'
  <2>1. CASE i \notin DOMAIN items
    BY <1>5, <2>1, AddedItems
  <2>2. CASE i \in DOMAIN items
    <3>1. Delegated(i) /\ items'[i].to # {"human"}
      BY <1>3, <1>5, <2>2 DEF Delegated
    <3>2. Leased(i) /\ Settled(i) /\ Serving
      BY <1>2, <2>2, <3>1 DEF Undivided
    <3>3. \A d \in Dispatchers : pc[d] \in Marking => ~Delegated(job[d])
      BY <1>2 DEF Undivided
    <3>4. Leased(i)'
      BY <1>2, <2>2, <3>1, <3>2, <3>3, NextLeases
    <3>5. Settled(i)'
      BY <1>2, <2>2, <3>2, NextSettled
    <3> QED
      BY <3>4, <3>5
  <2> QED
    BY <2>1, <2>2
<1> QED
  BY <1>4, <1>5

\* Undisturbed, one dispatcher at a time works on an item and answers it once,
\* whatever the dispatchers, workers, routes and items, if a lease is longer than
\* the interval of the watchdog: the shortest of the profiles, 120 seconds, is two.
THEOREM WorkCorrect == ASSUME MaxLease > 1 PROVE Spec => []WorkedOnOnce
<1>1. Init => TypeOK /\ DepthsOK /\ Undivided
  BY InitTypes, InitDepths, InitUndivided
<1>2. TypeOK /\ DepthsOK /\ Undivided /\ [Next]_vars => (TypeOK /\ DepthsOK /\ Undivided)'
  BY NextTypes, NextDepths, NextUndivided
<1>3. Undivided => WorkedOnOnce
  BY DEF Undivided, WorkedOnOnce, Delegated, Leased, Settled, Holds, Replies
<1> QED
  BY <1>1, <1>2, <1>3, PTL DEF Spec


=============================================================================
