----------------------------- MODULE WorkQueue -----------------------------
(***************************************************************************)
(* workspace.py: the items of the work queue, each a row of the table      *)
(* "items", and what the operations on claims, results and routes make of  *)
(* an item.  Every SQL statement with its commit is a transaction; an      *)
(* operation of several statements is several steps of Dispatch.           *)
(*                                                                         *)
(* A lease is the time it has left: lease_expires_at > now is lease > 0,   *)
(* and < now is lease = Over.  An item's place in the sequence of all      *)
(* items is its id; "reply" is reply_to, 0 for none.                       *)
(***************************************************************************)
EXTENDS Integers, Sequences

CONSTANTS
  Workers,    \* the worker names
  MaxDepth,   \* max_depth of every item (DEFAULT_MAX_DEPTH, and inherited)
  MaxLease    \* the longest lease, in renewals of the watchdog

ASSUME WorkQueueAssumption ==
  /\ MaxDepth \in Nat
  /\ MaxLease \in Nat \ {0}
  /\ Workers \intersect {"human", "any", "nobody"} = {}

Recipients == Workers \cup {"human", "any"}

Over == -1

Items == [type : {"prompt", "results"}, from : Workers \cup {"human"}, to : SUBSET Recipients,
          status : {"sent", "read", "complete"}, holder : Workers \cup {"nobody"},
          lease : Over .. MaxLease, retries : Nat, depth : Nat, reply : Nat]

Free(item) == [item EXCEPT !.holder = "nobody", !.lease = 0]

\* The claim in the row is none, or one whose lease has run out.
Unclaimed(item) == item.holder = "nobody" \/ item.lease <= 0

\* get_claimable_items(worker) lists the item.
claimable(item, worker) ==
  item.status = "sent" /\ {worker, "any"} \intersect item.to # {} /\ Unclaimed(item)

\* The WHERE clause of claim_item(): it does not look at the recipients.
can_claim(item) == item.status = "sent" /\ Unclaimed(item)

claim_item(item, worker, lease) == [item EXCEPT !.holder = worker, !.lease = lease]

\* Also when the lease has run out, as long as nobody else has taken it.
renew_claim(item, worker, lease) ==
  IF item.holder = worker THEN [item EXCEPT !.lease = lease] ELSE item

\* release_claim(worker) lets go only of its own claim.
release_claim(item, worker) ==
  IF item.holder \in {"nobody", worker} THEN Free(item) ELSE item

\* The rows expire_stale_claims() selects; it updates them by id alone.
Stale(item) == item.holder # "nobody" /\ item.lease = Over

expire_claim(item) == [Free(item) EXCEPT !.retries = @ + 1]

\* Whom an item is relayed to: everybody but people and "any".
Agents(to) == to \ {"human", "any"}

\* Mutant: a relayed item is as deep as the one it replies to.
ReplyDepthMutant(parent, to) == parent.depth

\* execution_depth: relaying work to an agent goes one deeper.
ReplyDepth(parent, to) == IF Agents(to) # {} THEN parent.depth + 1 ELSE parent.depth

\* create_item() by a worker, in reply to the item with this id.
NewReply(type, worker, to, parent, id) ==
  [type |-> type, from |-> worker, to |-> to, status |-> "sent", holder |-> "nobody",
   lease |-> 0, retries |-> 0, depth |-> ReplyDepth(parent, to), reply |-> id]

\* Time goes by for a claim.
Older(item) ==
  IF item.holder # "nobody" /\ item.lease > Over THEN [item EXCEPT !.lease = @ - 1] ELSE item

=============================================================================
