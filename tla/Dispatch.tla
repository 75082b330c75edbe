------------------------------ MODULE Dispatch ------------------------------
(***************************************************************************)
(* workspace_dispatcher.py: dispatcher processes that poll the work queue, *)
(* claim items, run a worker on each and post its result, next to people   *)
(* and agents who route items and set their status.                        *)
(*                                                                         *)
(* Every SQL transaction is a step; a read and the write that rests on it  *)
(* are two steps where the code makes them two statements.  A call that    *)
(* raises ("database is locked") outside of the try block of handle_item() *)
(* ends the process like a kill does.                                      *)
(***************************************************************************)
EXTENDS WorkQueue

CONSTANTS
  Dispatchers,  \* the dispatcher processes
  MaxRetries,   \* max_retries of each worker's profile
  Deployments   \* the deployments considered

\* serves: the workers of each process (--worker); watched: the workers whose
\* lease a watchdog renews (provider codex-cli); routes: the route_to of
\* workers' answers; statuses, targets: what others set status and route to;
\* faults: bound on crashes and failing calls; work: the items at the start.
ASSUME DispatchAssumption ==
  /\ MaxRetries \in [Workers -> Nat]
  /\ \A dep \in Deployments :
       /\ dep.serves \in [Dispatchers -> SUBSET Workers]
       /\ dep.watched \subseteq Workers
       /\ dep.routes \subseteq SUBSET Recipients
       /\ dep.statuses \subseteq {"sent", "read", "complete"}
       /\ dep.targets \subseteq SUBSET Recipients
       /\ dep.faults \in Nat
       /\ dep.work \in Seq(Items)
       /\ \A i \in DOMAIN dep.work :
            LET item == dep.work[i] IN
            /\ item.from = "human" /\ item.status = "sent" /\ item.reply = 0
            /\ item.holder = "nobody" /\ item.lease = 0 /\ item.depth = 0

VARIABLES
  deployment,
  items,      \* the table
  pc,         \* where a process stands
  left,       \* the workers it has yet to serve in this pass
  worker,     \* the worker it serves
  todo,       \* what is left of its listing: items as they were then
  job,        \* the item it handles
  route,      \* to whom the result goes
  expired,    \* the stale claims it has selected
  counted,    \* the retry_count it has selected
  due,        \* the processes whose watchdog is due
  faults

progress == <<left, worker, todo>>
selected == <<expired, counted>>
vars == <<deployment, items, pc, left, worker, todo, job, route, expired, counted, due, faults>>

NoWorker == "nobody"

Init ==
  /\ deployment \in Deployments
  /\ items = deployment.work
  /\ pc = [d \in Dispatchers |-> "asleep"]
  /\ left = [d \in Dispatchers |-> {}]
  /\ worker = [d \in Dispatchers |-> NoWorker]
  /\ todo = [d \in Dispatchers |-> {}]
  /\ job = [d \in Dispatchers |-> 0]
  /\ route = [d \in Dispatchers |-> {}]
  /\ expired = [d \in Dispatchers |-> {}]
  /\ counted = [d \in Dispatchers |-> 0]
  /\ due = {}
  /\ faults = 0

Goto(d, from, to) == pc[d] = from /\ pc' = [pc EXCEPT ![d] = to]

Becomes(i, item) == items' = [items EXCEPT ![i] = item]

Job(d) == items[job[d]]

Watched(d) == worker[d] \in deployment.watched

----------------------------------------------------------------------------
(* run_once() *)

\* expire_stale_claims(): the SELECT.
StartPass(d) ==
  /\ Goto(d, "asleep", "expire")
  /\ deployment.serves[d] # {}
  /\ expired' = [expired EXCEPT ![d] = {i \in DOMAIN items : Stale(items[i])}]
  /\ UNCHANGED <<deployment, items, progress, job, route, counted, due, faults>>

\* The UPDATE of the selected rows, whoever holds them by now.
ExpireClaims(d) ==
  /\ Goto(d, "expire", "serve")
  /\ items' = [i \in DOMAIN items |-> IF i \in expired[d] THEN expire_claim(items[i]) ELSE items[i]]
  /\ expired' = [expired EXCEPT ![d] = {}]
  /\ left' = [left EXCEPT ![d] = deployment.serves[d]]
  /\ UNCHANGED <<deployment, worker, todo, job, route, counted, due, faults>>

ListItems(d) ==
  /\ Goto(d, "serve", "items")
  /\ \E w \in left[d] :
       /\ worker' = [worker EXCEPT ![d] = w]
       /\ left' = [left EXCEPT ![d] = @ \ {w}]
       /\ todo' = [todo EXCEPT ![d] = {[id |-> i, retries |-> items[i].retries] :
                                         i \in {j \in DOMAIN items : claimable(items[j], w)}}]
  /\ UNCHANGED <<deployment, items, job, route, selected, due, faults>>

ListingDone(d) ==
  /\ Goto(d, "items", "serve")
  /\ todo[d] = {}
  /\ worker' = [worker EXCEPT ![d] = NoWorker]
  /\ UNCHANGED <<deployment, items, left, todo, job, route, selected, due, faults>>

PassDone(d) ==
  /\ Goto(d, "serve", "asleep")
  /\ left[d] = {}
  /\ UNCHANGED <<deployment, items, progress, job, route, selected, due, faults>>

----------------------------------------------------------------------------
(* handle_item(): the item is judged by the listing, which may be older. *)

Exhausted(d, s) == s.retries >= MaxRetries[worker[d]] \/ items[s.id].depth >= MaxDepth

\* Mutant: the item is marked, but stays with its recipients.
MarkNeedsHumanMutant(d) ==
  /\ Goto(d, "items", "human")
  /\ \E s \in todo[d] :
       /\ Exhausted(d, s)
       /\ job' = [job EXCEPT ![d] = s.id]
       /\ todo' = [todo EXCEPT ![d] = @ \ {s}]
  /\ UNCHANGED <<deployment, items, left, worker, route, selected, due, faults>>

\* mark_needs_human(): route, write the result, release whoever holds it.
MarkNeedsHuman(d) ==
  /\ Goto(d, "items", "human")
  /\ \E s \in todo[d] :
       /\ Exhausted(d, s)
       /\ Becomes(s.id, [items[s.id] EXCEPT !.to = {"human"}])
       /\ job' = [job EXCEPT ![d] = s.id]
       /\ todo' = [todo EXCEPT ![d] = @ \ {s}]
  /\ UNCHANGED <<deployment, left, worker, route, selected, due, faults>>

ReleaseAny(d) ==
  /\ Goto(d, "unclaim", "items")
  /\ Becomes(job[d], Free(Job(d)))
  /\ job' = [job EXCEPT ![d] = 0]
  /\ UNCHANGED <<deployment, progress, route, selected, due, faults>>

\* Mutant: the claim is taken without looking at it again.
ClaimMutant(d) ==
  /\ Goto(d, "items", "running")
  /\ \E s \in todo[d] :
       /\ ~Exhausted(d, s)
       /\ Becomes(s.id, claim_item(items[s.id], worker[d], MaxLease))
       /\ job' = [job EXCEPT ![d] = s.id]
       /\ todo' = [todo EXCEPT ![d] = @ \ {s}]
  /\ UNCHANGED <<deployment, left, worker, route, selected, due, faults>>

Claim(d) ==
  /\ Goto(d, "items", "running")
  /\ \E s \in todo[d] :
       /\ ~Exhausted(d, s)
       /\ can_claim(items[s.id])
       /\ Becomes(s.id, claim_item(items[s.id], worker[d], MaxLease))
       /\ job' = [job EXCEPT ![d] = s.id]
       /\ todo' = [todo EXCEPT ![d] = @ \ {s}]
  /\ UNCHANGED <<deployment, left, worker, route, selected, due, faults>>

ClaimRefused(d) ==
  /\ pc[d] = "items"
  /\ \E s \in todo[d] :
       /\ ~Exhausted(d, s)
       /\ ~can_claim(items[s.id])
       /\ todo' = [todo EXCEPT ![d] = @ \ {s}]
  /\ UNCHANGED <<deployment, items, pc, left, worker, job, route, selected, due, faults>>

\* The watchdog's renewal, which may find the claim gone.
Renew(d) ==
  /\ pc[d] = "running" /\ d \in due
  /\ Becomes(job[d], renew_claim(Job(d), worker[d], MaxLease))
  /\ due' = due \ {d}
  /\ UNCHANGED <<deployment, pc, progress, job, route, selected, faults>>

\* deliver_result(): the recipients of the result; needs_human is {"human"}.
\* At the depth limit nothing is relayed to an agent.
RecipientsOf(item, to) ==
  LET asked == IF to = {} THEN {item.from} ELSE to IN
  IF item.depth + 1 >= MaxDepth /\ Agents(asked) # {} THEN {"human"} ELSE asked

\* Mutant: the item is marked read as soon as the worker has answered.
RunSucceedsMutant(d) ==
  /\ Goto(d, "running", "deliver")
  /\ \E to \in deployment.routes : route' = [route EXCEPT ![d] = RecipientsOf(Job(d), to)]
  /\ Becomes(job[d], [Job(d) EXCEPT !.status = "read"])
  /\ due' = due \ {d}
  /\ UNCHANGED <<deployment, progress, job, selected, faults>>

RunSucceeds(d) ==
  /\ Goto(d, "running", "deliver")
  /\ \E to \in deployment.routes : route' = [route EXCEPT ![d] = RecipientsOf(Job(d), to)]
  /\ due' = due \ {d}
  /\ UNCHANGED <<deployment, items, progress, job, selected, faults>>

\* Mutant: the watchdog is not stopped.
RunFailsMutant(d) ==
  /\ Goto(d, "running", "failed")
  /\ UNCHANGED <<deployment, items, progress, job, route, selected, due, faults>>

\* The worker fails, times out or leaves no answer.
RunFails(d) ==
  /\ Goto(d, "running", "failed")
  /\ due' = due \ {d}
  /\ UNCHANGED <<deployment, items, progress, job, route, selected, faults>>

----------------------------------------------------------------------------
(* deliver_result() *)

CreateResult(d) ==
  /\ Goto(d, "deliver", "markread")
  /\ items' = Append(items, NewReply("results", worker[d], route[d], Job(d), job[d]))
  /\ route' = [route EXCEPT ![d] = {}]
  /\ UNCHANGED <<deployment, progress, job, selected, due, faults>>

\* update_status(): whatever the status is by now.
MarkRead(d) ==
  /\ Goto(d, "markread", "delivered")
  /\ Becomes(job[d], [Job(d) EXCEPT !.status = "read"])
  /\ UNCHANGED <<deployment, progress, job, route, selected, due, faults>>

ReleaseDelivered(d) ==
  /\ Goto(d, "release", "items")
  /\ Becomes(job[d], release_claim(Job(d), worker[d]))
  /\ job' = [job EXCEPT ![d] = 0]
  /\ UNCHANGED <<deployment, progress, route, selected, due, faults>>

Fault == faults < deployment.faults /\ faults' = faults + 1

\* A call of deliver_result() raises, with or without effect; without is the
\* effect of the call before it.
DeliveryRaises(d) ==
  /\ \E at \in {"deliver", "markread", "delivered", "delivered2", "release"} : Goto(d, at, "failed")
  /\ \/ UNCHANGED items
     \/ pc[d] = "release" /\ Becomes(job[d], release_claim(Job(d), worker[d]))
  /\ route' = [route EXCEPT ![d] = {}]
  /\ counted' = [counted EXCEPT ![d] = 0]
  /\ Fault
  /\ UNCHANGED <<deployment, progress, job, expired, due>>

----------------------------------------------------------------------------
(* record_run_result(): a SELECT and an UPDATE that writes back what it saw. *)

Selecting == [human |-> "human2", delivered |-> "delivered2", failed |-> "failed2"]
Recording == [human2 |-> "unclaim", delivered2 |-> "release", failed2 |-> "giveback"]

RecordSelect(d) ==
  /\ \E at \in DOMAIN Selecting : Goto(d, at, Selecting[at])
  /\ counted' = [counted EXCEPT ![d] = Job(d).retries]
  /\ UNCHANGED <<deployment, items, progress, job, route, expired, due, faults>>

RecordUpdate(d) ==
  /\ \E at \in DOMAIN Recording : Goto(d, at, Recording[at])
  /\ Becomes(job[d], [Job(d) EXCEPT !.retries = IF pc[d] = "failed2" THEN counted[d] + 1 ELSE counted[d]])
  /\ counted' = [counted EXCEPT ![d] = 0]
  /\ UNCHANGED <<deployment, progress, job, route, expired, due, faults>>

(* What handle_item() does after a failure. *)

ReleaseFailed(d) ==
  /\ Goto(d, "giveback", "comment")
  /\ Becomes(job[d], release_claim(Job(d), worker[d]))
  /\ UNCHANGED <<deployment, progress, job, route, selected, due, faults>>

\* add_comment(): a prompt to whom the item came from.
Comment(d) ==
  /\ Goto(d, "comment", "items")
  /\ items' = Append(items, NewReply("prompt", worker[d], {Job(d).from}, Job(d), job[d]))
  /\ job' = [job EXCEPT ![d] = 0]
  /\ UNCHANGED <<deployment, progress, route, selected, due, faults>>

----------------------------------------------------------------------------
Crash(d) ==
  /\ pc[d] # "down"
  /\ pc' = [pc EXCEPT ![d] = "down"]
  /\ left' = [left EXCEPT ![d] = {}]
  /\ worker' = [worker EXCEPT ![d] = NoWorker]
  /\ todo' = [todo EXCEPT ![d] = {}]
  /\ job' = [job EXCEPT ![d] = 0]
  /\ route' = [route EXCEPT ![d] = {}]
  /\ expired' = [expired EXCEPT ![d] = {}]
  /\ counted' = [counted EXCEPT ![d] = 0]
  /\ due' = due \ {d}
  /\ Fault
  /\ UNCHANGED <<deployment, items>>

Restart(d) ==
  /\ Goto(d, "down", "asleep")
  /\ UNCHANGED <<deployment, items, progress, job, route, selected, due, faults>>

\* update_status() and route_item() by people and agents.
SetStatus ==
  /\ \E i \in DOMAIN items, s \in deployment.statuses : Becomes(i, [items[i] EXCEPT !.status = s])
  /\ UNCHANGED <<deployment, pc, progress, job, route, selected, due, faults>>

RouteItem ==
  /\ \E i \in DOMAIN items, to \in deployment.targets : Becomes(i, [items[i] EXCEPT !.to = to])
  /\ UNCHANGED <<deployment, pc, progress, job, route, selected, due, faults>>

\* From the claim to its release.
Holding == {"running", "deliver", "markread", "delivered", "delivered2", "release",
            "failed", "failed2", "giveback"}

\* Time passes, one interval of the watchdog.  Watchdogs are in time, and the
\* calls between the end of a run and the release take none.
Tick ==
  /\ due = {}
  /\ \A d \in Dispatchers : pc[d] \notin Holding \ {"running"}
  /\ items' = [i \in DOMAIN items |-> Older(items[i])]
  /\ due' = {d \in Dispatchers : pc[d] = "running" /\ Watched(d)}
  /\ UNCHANGED <<deployment, pc, progress, job, route, selected, faults>>

\* A process goes on, its watchdog aside.
Work(d) ==
  \/ StartPass(d) \/ ExpireClaims(d) \/ ListItems(d) \/ ListingDone(d) \/ PassDone(d)
  \/ MarkNeedsHuman(d) \/ ReleaseAny(d) \/ Claim(d) \/ ClaimRefused(d)
  \/ RunSucceeds(d) \/ RunFails(d) \/ CreateResult(d) \/ MarkRead(d) \/ ReleaseDelivered(d)
  \/ RecordSelect(d) \/ RecordUpdate(d) \/ ReleaseFailed(d) \/ Comment(d)
  \/ Restart(d)

Next ==
  \/ \E d \in Dispatchers : Work(d) \/ Renew(d) \/ DeliveryRaises(d) \/ Crash(d)
  \/ SetStatus \/ RouteItem
  \/ Tick

\* Processes go on and are started again, a run ends at its timeout, the
\* watchdog keeps its time, and time passes.
Fairness ==
  /\ \A d \in Dispatchers : WF_vars(Work(d)) /\ WF_vars(Renew(d))
  /\ WF_vars(Tick)

Spec == Init /\ [][Next]_vars /\ Fairness

----------------------------------------------------------------------------
(* Properties *)

\* Inside an item.
Inside == Holding \cup {"human", "human2", "unclaim", "comment"}

Places == Holding \cup {"down", "asleep", "expire", "serve", "items", "human", "human2",
                        "unclaim", "comment"}

\* Types.  A process that serves a worker knows which, and one that is inside an
\* item names one that exists.
TypeOK ==
  /\ deployment \in Deployments
  /\ items \in Seq(Items)
  /\ pc \in [Dispatchers -> Places]
  /\ left \in [Dispatchers -> SUBSET Workers]
  /\ worker \in [Dispatchers -> Workers \cup {NoWorker}]
  /\ todo \in [Dispatchers -> SUBSET [id : DOMAIN items, retries : Nat]]
  /\ job \in [Dispatchers -> Nat]
  /\ \A d \in Dispatchers :
       /\ pc[d] \in Inside => job[d] \in DOMAIN items
       /\ pc[d] \in Inside \cup {"items"} => worker[d] \in Workers
  /\ route \in [Dispatchers -> SUBSET Recipients]
  /\ expired \in [Dispatchers -> SUBSET DOMAIN items]
  /\ counted \in [Dispatchers -> Nat]
  /\ due \subseteq {d \in Dispatchers : pc[d] = "running"}
  /\ faults \in 0 .. deployment.faults

Answered(i) == \E j \in DOMAIN items : items[j].reply = i /\ items[j].type = "results"

\* Nobody but the dispatchers sets "read".
OnlyDispatchersRead == "read" \notin deployment.statuses

\* No silent reads: a dispatcher leaves an item "read" only behind its answer,
\* whatever crash or failing call cuts the delivery into pieces.
NoSilentRead ==
  OnlyDispatchersRead => \A i \in DOMAIN items : items[i].status = "read" => Answered(i)

\* Every lease is watched, nothing has failed, and nobody else reopens or routes.
Undisturbed ==
  /\ faults = 0
  /\ \A d \in Dispatchers : deployment.serves[d] \subseteq deployment.watched
  /\ "sent" \notin deployment.statuses
  /\ deployment.targets = {}

\* Undisturbed, an item is worked on by one dispatcher at a time and answered
\* once: the claim, the renewals and the order of status and release suffice,
\* until mark_needs_human() takes an item from whoever holds it.
WorkedOnOnce ==
  Undisturbed =>
    \A i \in DOMAIN items : items[i].to # {"human"} =>
      /\ \A d, e \in Dispatchers :
           pc[d] \in Holding /\ pc[e] \in Holding /\ job[d] = i /\ job[e] = i => d = e
      /\ \A j, k \in DOMAIN items :
           /\ items[j].reply = i /\ items[j].type = "results"
           /\ items[k].reply = i /\ items[k].type = "results"
           => j = k

\* Work that agents hand to each other by name gets deeper, up to the limit, so
\* that no chain of answers and comments between named agents goes on for ever,
\* unless others route it.  It says nothing of an answer that a worker routes to
\* "any": its depth stays, any worker claims it, and that chain has no end.
RelaysBounded ==
  deployment.targets \subseteq {{"human"}} =>
    \A i \in DOMAIN items :
      /\ items[i].depth <= MaxDepth
      /\ items[i].reply # 0 /\ Agents(items[i].to) # {} =>
           items[i].depth > items[items[i].reply].depth

\* Left to a dispatcher.
Open(item) ==
  /\ item.status = "sent"
  /\ \E d \in Dispatchers : \E w \in deployment.serves[d] : {w, "any"} \intersect item.to # {}

\* Every item is settled in the end, answered or with a person: claims of dead
\* dispatchers come back, failures use up the retries, and relays end at the depth
\* limit.  The deployments it is checked for have no worker that routes its
\* answer to "any"; with one, the workers could answer each other for ever.
Settles == <>[](\A i \in DOMAIN items : ~Open(items[i]))

\* Expected to fail.  The status of an item only advances, sent -> read ->
\* complete.
Rank(status) == CASE status = "sent" -> 0 [] status = "read" -> 1 [] status = "complete" -> 2

StatusAdvances ==
  [][\A i \in DOMAIN items : Rank(items'[i].status) >= Rank(items[i].status)]_vars

=============================================================================
