----------------------------- MODULE MCDispatch -----------------------------
(* Instances of Dispatch for TLC: two processes, two workers, one item. *)
EXTENDS Dispatch

MCWorkers == {"w1", "w2"}
MCDispatchers == {"d1", "d2"}

\* One failure is retried.
MCMaxRetries == [w \in Workers |-> 2]

WorkFor(to) == [type |-> "prompt", from |-> "human", to |-> to, status |-> "sent",
                holder |-> "nobody", lease |-> 0, retries |-> 0, depth |-> 0, reply |-> 0]

OneEach == [d \in Dispatchers |-> IF d = "d1" THEN {"w1"} ELSE {"w2"}]
AllInOne == [d \in Dispatchers |-> IF d = "d1" THEN {"w1", "w2"} ELSE {}]

\* Two processes with a worker each, watched or not.
Shared(watched, bound) ==
  [serves |-> OneEach, watched |-> watched, routes |-> {{}}, statuses |-> {},
   targets |-> {}, faults |-> bound, work |-> <<WorkFor({"any"})>>]

\* One process whose workers hand work to each other.
Relay ==
  [serves |-> AllInOne, watched |-> Workers, routes |-> {{}, {"w2"}}, statuses |-> {},
   targets |-> {}, faults |-> 0, work |-> <<WorkFor({"w1"})>>]

\* Two processes for one worker, and people who complete items and take them.
Attended ==
  [serves |-> [d \in Dispatchers |-> {"w1"}], watched |-> Workers, routes |-> {{}},
   statuses |-> {"complete"}, targets |-> {{"human"}}, faults |-> 0,
   work |-> <<WorkFor({"w1"})>>]

MCReopened == {Attended}

MCDeployments == {Shared(Workers, 0), Shared(Workers, 1), Shared({}, 0), Relay, Attended}

=============================================================================
