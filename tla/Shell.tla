------------------------------- MODULE Shell -------------------------------
(***************************************************************************)
(* The web shell: the ConnectionManager of shell.connection with its       *)
(* broadcasts and its poll loop, and the handlers of shell.routes.websocket.*)
(*                                                                         *)
(* It is one asyncio process: a coroutine is interrupted only where it     *)
(* awaits, so a step goes from one await to the next.  The session that an *)
(* interactive message calls is module Sessions: here it answers or fails. *)
(* Other processes store messages at any time.                             *)
(***************************************************************************)
EXTENDS Naturals, Sequences, FiniteSets

CONSTANTS
  Conns,      \* the connections that are made, each once
  Leavers,    \* those whose clients may go
  Askers,     \* those whose clients may send interactive messages
  Threads,    \* the threads of the workspace
  Interests,  \* the pairs of a client and a thread it may ask for
  MaxStored,  \* bound on the messages that are stored, the answers excepted
  MaxAsked    \* bound on the subscriptions and interactive messages of each client

ASSUME ShellAssumption ==
  /\ IsFiniteSet(Conns) /\ Leavers \cup Askers \subseteq Conns /\ "poll" \notin Conns
  /\ "all" \notin Threads
  /\ Interests \subseteq Conns \X Threads
  /\ MaxStored \in Nat /\ MaxAsked \in Nat

VARIABLES
  items,    \* the messages, in the order of storing
  present,  \* the clients that have not gone
  asked,    \* how often each has subscribed or sent an interactive message
  handler,  \* of each connection: where its coroutine is
  ask,      \* of each connection: the message it is answering
  active,   \* manager.active
  keyed,    \* the keys of manager.subscriptions
  subs,     \* and what is subscribed to
  view,     \* how many messages of each thread a client was last shown
  fresh,    \* the threads whose latest second is not the one in _last_seen
  poll,     \* the poll loop: "off" until the first connection, "sleep", or "round"
  todo,     \* the fresh threads of its list that it has not looked at yet
  moved,    \* those of them whose latest second has changed since
  cast,     \* the broadcast each coroutine is in
  spoiled   \* history variable: the threads whose last change was not pushed

people == <<present, asked>>
manager == <<active, keyed, subs>>
loop == <<fresh, poll, todo, moved>>
shellVars == <<items, present, asked, handler, ask, active, keyed, subs, view, fresh,
               poll, todo, moved, cast, spoiled>>

----------------------------------------------------------------------------
(* Messages and broadcasts *)

\* get_thread()
Count(t) == Cardinality({i \in DOMAIN items : items[i].thread = t})

Item(t, kind, by, re) == [thread |-> t, kind |-> kind, by |-> by, re |-> re]

\* create_item(), of one message after the other to the same thread.  Their time
\* has a precision of one second: it is that of the last message of the thread,
\* or a later one.  A change in the second the poll loop has already seen is
\* never noticed.
Store(t, new) ==
  /\ items' = items \o new
  /\ \E later \in {TRUE, Count(t) = 0} :
       /\ fresh' = IF later THEN fresh \cup {t} ELSE fresh
       /\ moved' = IF later THEN moved \cup ({t} \cap todo) ELSE moved
       /\ spoiled' = IF ~later /\ t \notin fresh THEN spoiled \cup {t} ELSE spoiled \ {t}
  /\ UNCHANGED <<poll, todo>>

Stored == Cardinality({i \in DOMAIN items : items[i].kind # "answer"})

Coroutines == Conns \cup {"poll"}

\* The list of threads, and the status of the run, go to all that are active.
NoCast == [thread |-> "none", count |-> 0, size |-> 0, done |-> {}, dead |-> {}]
CastThread(t, n, keys) == [thread |-> t, count |-> n, size |-> Cardinality(keys), done |-> {}, dead |-> {}]
CastAll == [thread |-> "all", count |-> 0, size |-> Cardinality(active), done |-> {}, dead |-> {}]

\* What a broadcast iterates over, and who gets it.
Keys(b) == IF b.thread = "all" THEN active ELSE keyed
Getting(b) == {c \in keyed \cap active : b.thread \in subs[c]}

\* disconnect()
Disconnect(gone) ==
  /\ active' = active \ gone /\ keyed' = keyed \ gone
  /\ subs' = [c \in Conns |-> IF c \in gone THEN {} ELSE subs[c]]

ShellInit ==
  /\ items = <<>>
  /\ present = Conns /\ asked = [c \in Conns |-> 0]
  /\ handler = [c \in Conns |-> "new"] /\ ask = [c \in Conns |-> 0]
  /\ active = {} /\ keyed = {} /\ subs = [c \in Conns |-> {}]
  /\ view = [c \in Conns |-> [t \in Threads |-> 0]]
  /\ fresh = {} /\ poll = "off" /\ todo = {} /\ moved = {}
  /\ cast = [p \in Coroutines |-> NoCast]
  /\ spoiled = {}

----------------------------------------------------------------------------
(* The environment *)

\* A message by another process, by api_send(), or by the action "send".
Post(t) ==
  /\ Stored < MaxStored
  /\ Store(t, <<Item(t, "post", "other", 0)>>)
  /\ UNCHANGED <<people, handler, ask, manager, view, cast>>

Leave(c) ==
  /\ c \in present \cap Leavers /\ handler[c] # "new"
  /\ present' = present \ {c}
  /\ UNCHANGED <<items, asked, handler, ask, manager, view, loop, cast, spoiled>>

----------------------------------------------------------------------------
(* A connection: websocket_endpoint() *)

\* connect() and start_polling(); the greeting goes to this socket only.
Connect(c) ==
  /\ handler[c] = "new"
  /\ active' = active \cup {c}
  /\ handler' = [handler EXCEPT ![c] = "idle"]
  /\ poll' = IF poll = "off" THEN "sleep" ELSE poll
  /\ UNCHANGED <<items, people, ask, keyed, subs, view, fresh, todo, moved, cast, spoiled>>

\* Mutant: a handler that ends by an exception does not disconnect.
CloseMutant(c, dead) ==
  /\ handler' = [handler EXCEPT ![c] = "gone"]
  /\ ask' = [ask EXCEPT ![c] = 0]
  /\ UNCHANGED <<manager, view>>

\* An exception, WebSocketDisconnect or another: the coroutine ends, when a
\* broadcast of its own has perhaps disconnected those that are dead.
Close(c, dead) ==
  /\ handler' = [handler EXCEPT ![c] = "gone"]
  /\ ask' = [ask EXCEPT ![c] = 0]
  /\ view' = [view EXCEPT ![c] = [t \in Threads |-> 0]]
  /\ Disconnect({c} \cup dead)

\* receive_json() raises.
Drop(c) ==
  /\ handler[c] = "idle" /\ c \notin present
  /\ Close(c, {})
  /\ UNCHANGED <<items, people, loop, cast, spoiled>>

\* receive_json() returns a request, perhaps with what a client sent before it has gone.
Receives(c) ==
  /\ handler[c] = "idle" /\ asked[c] < MaxAsked
  /\ asked' = [asked EXCEPT ![c] = @ + 1] /\ UNCHANGED present

Subscribe(c, t) ==
  /\ Receives(c) /\ t \notin subs[c] /\ c \in present
  /\ keyed' = keyed \cup {c} /\ subs' = [subs EXCEPT ![c] = @ \cup {t}]
  /\ view' = [view EXCEPT ![c][t] = Count(t)]
  /\ UNCHANGED <<items, handler, ask, active, loop, cast, spoiled>>

Unsubscribe(c, t) ==
  /\ handler[c] = "idle" /\ c \in keyed /\ t \in subs[c]
  /\ subs' = [subs EXCEPT ![c] = @ \ {t}]
  /\ UNCHANGED <<items, people, handler, ask, active, keyed, view, loop, cast, spoiled>>

\* The action "interactive", to the send that acknowledges it.
Interactive(c, t) ==
  /\ c \in Askers /\ Receives(c)
  /\ Stored < MaxStored
  /\ Store(t, <<Item(t, "ask", c, 0)>>)
  /\ ask' = [ask EXCEPT ![c] = Len(items) + 1]
  /\ keyed' = keyed \cup {c} /\ subs' = [subs EXCEPT ![c] = @ \cup {t}]
  /\ handler' = [handler EXCEPT ![c] = "sent"]
  /\ UNCHANGED <<active, view, cast>>

\* A request raises: the send to a client that has gone, get_thread(), or
\* create_item(), which may have stored the message before it raises in _audit().
LoseRequest(c, t) ==
  /\ Receives(c)
  /\ Close(c, {})
  /\ \/ UNCHANGED <<items, loop, spoiled>>
     \/ c \in Askers /\ Stored < MaxStored /\ Store(t, <<Item(t, "ask", c, 0)>>)
  /\ UNCHANGED cast

ThreadOf(c) == items[ask[c]].thread

\* "sent" has been sent, and the broadcast of the thread begins; or the send, or
\* get_thread(), raises.
Acknowledge(c) ==
  /\ handler[c] = "sent"
  /\ \/ /\ handler' = [handler EXCEPT ![c] = "cast1"]
        /\ cast' = [cast EXCEPT ![c] = CastThread(ThreadOf(c), Count(ThreadOf(c)), keyed)]
        /\ UNCHANGED <<manager, ask, view>>
     \/ Close(c, {}) /\ UNCHANGED cast
  /\ UNCHANGED <<items, people, loop, spoiled>>

----------------------------------------------------------------------------
(* Broadcasts *)

\* send_json() to the next in the dict, whose size has not changed; who has
\* not subscribed is passed over.  To a client that has gone it may raise.  A
\* list that a handler sends behind a newer one is not replaced by the poll loop.
SendNext(p) ==
  LET b == cast[p] IN
  /\ b.thread \in Threads /\ Cardinality(keyed) = b.size
  /\ \E c \in Getting(b) \ b.done :
       /\ \E raises \in {FALSE, c \notin present} :
            cast' = [cast EXCEPT ![p].done = @ \cup {c}, ![p].dead = IF raises THEN @ \cup {c} ELSE @]
       /\ IF c \in present
          THEN /\ view' = [view EXCEPT ![c][b.thread] = b.count]
               /\ spoiled' = IF p # "poll" /\ b.count < view[c][b.thread]
                             THEN spoiled \cup {b.thread} ELSE spoiled
          ELSE UNCHANGED <<view, spoiled>>
  /\ UNCHANGED <<items, people, handler, ask, manager, loop>>

\* All have been visited.
Visited(b) ==
  /\ b # NoCast /\ Cardinality(Keys(b)) = b.size
  /\ b.thread # "all" => Getting(b) \subseteq b.done

\* The dead are disconnected.  The sends of a list of threads, or of a status,
\* differ only in whether they raise.
Finished(p) ==
  /\ Visited(cast[p])
  /\ \E dead \in IF cast[p].thread = "all" THEN SUBSET (active \ present) ELSE {cast[p].dead} :
       Disconnect(dead)

\* broadcast_thread_list() follows broadcast_thread_update() at once, over
\* those that are active by then.
EndCast(c) ==
  /\ Finished(c)
  /\ IF handler[c] \in {"cast1", "cast2"}
     THEN /\ cast' = [cast EXCEPT ![c] = [CastAll EXCEPT !.size = Cardinality(active')]]
          /\ handler' = [handler EXCEPT ![c] = IF @ = "cast1" THEN "list1" ELSE "list2"]
          /\ UNCHANGED ask
     ELSE /\ cast' = [cast EXCEPT ![c] = NoCast]
          /\ handler' = [handler EXCEPT ![c] = IF @ = "list1" THEN "call" ELSE "idle"]
          /\ ask' = IF handler[c] = "list1" THEN ask ELSE [ask EXCEPT ![c] = 0]
  /\ UNCHANGED <<items, people, view, loop, spoiled>>

\* The broadcast of the thread is over, and list_threads() raises.
LoseList(c) ==
  /\ handler[c] \in {"cast1", "cast2"} /\ Visited(cast[c])
  /\ Close(c, cast[c].dead)
  /\ cast' = [cast EXCEPT ![c] = NoCast]
  /\ UNCHANGED <<items, people, loop, spoiled>>

\* RuntimeError: dictionary changed size during iteration.
Broken(p) == cast[p] # NoCast /\ Cardinality(Keys(cast[p])) # cast[p].size

\* Mutant: a broadcast that breaks off is passed over, and the handler listens.
BreakCastMutant(c) ==
  /\ Broken(c)
  /\ handler' = [handler EXCEPT ![c] = "idle"]
  /\ ask' = [ask EXCEPT ![c] = 0]
  /\ cast' = [cast EXCEPT ![c] = NoCast]
  /\ UNCHANGED <<items, people, manager, view, loop, spoiled>>

\* The handler ends, and with it the connection.
BreakCast(c) ==
  /\ Broken(c)
  /\ Close(c, {})
  /\ cast' = [cast EXCEPT ![c] = NoCast]
  /\ UNCHANGED <<items, people, loop, spoiled>>

----------------------------------------------------------------------------
(* The poll loop: _poll_loop() *)

\* Mutant: everything in the list counts as seen.
BeginRoundMutant ==
  /\ poll = "sleep" /\ active # {}
  /\ poll' = "round" /\ todo' = fresh /\ fresh' = {}
  /\ UNCHANGED <<items, people, handler, ask, manager, view, moved, cast, spoiled>>

\* list_threads(); those that have not changed need no further look.
BeginRound ==
  /\ poll = "sleep" /\ active # {}
  /\ poll' = "round" /\ todo' = fresh
  /\ UNCHANGED <<items, people, handler, ask, manager, view, fresh, moved, cast, spoiled>>

\* Mutant: what moved in the meantime is seen, too.
PollThreadMutant ==
  /\ poll = "round" /\ cast["poll"] = NoCast
  /\ \E t \in todo :
       /\ todo' = todo \ {t} /\ fresh' = fresh \ {t}
       /\ cast' = [cast EXCEPT !["poll"] = CastThread(t, Count(t), keyed)]
  /\ UNCHANGED <<items, people, handler, ask, manager, view, poll, moved, spoiled>>

\* The next thread that has changed: seen as it was in the list, and then
\* broadcast as it is now.
PollThread ==
  /\ poll = "round" /\ cast["poll"] = NoCast
  /\ \E t \in todo :
       /\ todo' = todo \ {t} /\ moved' = moved \ {t}
       /\ fresh' = IF t \in moved THEN fresh ELSE fresh \ {t}
       /\ cast' = [cast EXCEPT !["poll"] = CastThread(t, Count(t), keyed)]
  /\ UNCHANGED <<items, people, handler, ask, manager, view, poll, spoiled>>

\* A broadcast of the round is over.  After the last thread comes the list of
\* threads, unless list_threads() raises, and then the round is over; a new
\* status of the run may come between.
EndPollCast ==
  /\ Finished("poll")
  /\ LET all == [CastAll EXCEPT !.size = Cardinality(active')] IN
     \/ todo # {} /\ cast' = [cast EXCEPT !["poll"] = NoCast] /\ UNCHANGED poll
     \/ todo = {} /\ cast["poll"].thread # "all" /\ cast' = [cast EXCEPT !["poll"] = all] /\ UNCHANGED poll
     \/ todo = {} /\ cast' = [cast EXCEPT !["poll"] = NoCast] /\ poll' = "sleep"
  /\ UNCHANGED <<items, people, handler, ask, view, fresh, todo, moved, spoiled>>

\* Nothing has changed, but for the status of the run perhaps.
QuietRound ==
  /\ poll = "round" /\ todo = {} /\ cast["poll"] = NoCast
  /\ \/ poll' = "sleep" /\ UNCHANGED cast
     \/ cast' = [cast EXCEPT !["poll"] = CastAll] /\ UNCHANGED poll
  /\ UNCHANGED <<items, people, handler, ask, manager, view, fresh, todo, moved, spoiled>>

\* except Exception: pass.  What was seen stays seen; the rest waits for the
\* next round.
BreakPoll ==
  /\ Broken("poll")
  /\ spoiled' = IF cast["poll"].thread = "all" THEN spoiled ELSE spoiled \cup {cast["poll"].thread}
  /\ cast' = [cast EXCEPT !["poll"] = NoCast]
  /\ poll' = "sleep" /\ todo' = {} /\ moved' = {}
  /\ UNCHANGED <<items, people, handler, ask, manager, view, fresh>>

\* get_thread() raises for a thread that has changed: it counts as seen.
LosePoll ==
  /\ poll = "round" /\ cast["poll"] = NoCast
  /\ \E t \in todo :
       /\ fresh' = IF t \in moved THEN fresh ELSE fresh \ {t}
       /\ spoiled' = IF t \in moved THEN spoiled ELSE spoiled \cup {t}
  /\ poll' = "sleep" /\ todo' = {} /\ moved' = {}
  /\ UNCHANGED <<items, people, handler, ask, manager, view, cast>>

----------------------------------------------------------------------------
(* The answer *)

AnswerOf(c) == Item(ThreadOf(c), "answer", "agent", ask[c])
ErrorOf(c) == Item(ThreadOf(c), "answer", "system", ask[c])

\* Mutant: an answer whose create_item() has raised is stored once more.
RepliesMutant(c) == {<<AnswerOf(c)>>, <<ErrorOf(c)>>, <<AnswerOf(c), AnswerOf(c)>>}

\* What is stored: the error follows the answer when create_item() raises in
\* _audit(), after its commit.
Replies(c) == {<<AnswerOf(c)>>, <<ErrorOf(c)>>, <<AnswerOf(c), ErrorOf(c)>>}

\* The answer, or an error, is stored, and broadcast.
Reply(c) ==
  /\ handler[c] = "call"
  /\ \E new \in Replies(c) :
       /\ Store(ThreadOf(c), new)
       /\ cast' = [cast EXCEPT ![c] = CastThread(ThreadOf(c), Count(ThreadOf(c)) + Len(new), keyed)]
  /\ handler' = [handler EXCEPT ![c] = "cast2"]
  /\ UNCHANGED <<people, ask, manager, view>>

\* The handler ends: the session cannot be created, the error cannot be stored or
\* its create_item() raises in _audit(), too, or get_thread() raises.
LoseReply(c) ==
  /\ handler[c] = "call"
  /\ Close(c, {})
  /\ \/ UNCHANGED <<items, loop, spoiled>>
     \/ \E new \in Replies(c) : Store(ThreadOf(c), new)
  /\ UNCHANGED <<people, cast>>

----------------------------------------------------------------------------
Handle(c) ==
  \/ Drop(c) \/ Acknowledge(c) \/ EndCast(c) \/ LoseList(c) \/ BreakCast(c)
  \/ Reply(c) \/ LoseReply(c)

Poll == BeginRound \/ PollThread \/ EndPollCast \/ QuietRound \/ BreakPoll \/ LosePoll

\* What clients may do or not.
Ask(c) == Connect(c) \/ Leave(c)
          \/ \E t \in {u \in Threads : <<c, u>> \in Interests} :
               Subscribe(c, t) \/ Unsubscribe(c, t) \/ Interactive(c, t) \/ LoseRequest(c, t)

ShellNext ==
  \/ \E c \in Conns : Handle(c) \/ Ask(c)
  \/ Poll \/ \E p \in Coroutines : SendNext(p)
  \/ \E t \in Threads : Post(t)

\* The event loop serves every coroutine that can go on, the poll loop wakes up,
\* and the call of a session ends: each of its requests has a timeout, and that
\* the language model asks for tools only so often is assumed.
ShellFairness ==
  /\ WF_shellVars(Poll) /\ WF_shellVars(SendNext("poll"))
  /\ \A c \in Conns : WF_shellVars(Handle(c)) /\ WF_shellVars(SendNext(c))

ShellSpec == ShellInit /\ [][ShellNext]_shellVars /\ ShellFairness

----------------------------------------------------------------------------
(* Properties *)

CastType ==
  [thread : Threads \cup {"none", "all"}, count : Nat, size : Nat, done : SUBSET Conns, dead : SUBSET Conns]

ItemType ==
  [thread : Threads, kind : {"post", "ask", "answer"}, by : Conns \cup {"other", "agent", "system"}, re : Nat]

ShellTypeOK ==
  /\ items \in Seq(ItemType)
  /\ present \subseteq Conns /\ asked \in [Conns -> 0 .. MaxAsked]
  /\ handler \in [Conns -> {"new", "idle", "sent", "cast1", "list1", "call", "cast2", "list2", "gone"}]
  /\ ask \in [Conns -> 0 .. Len(items)]
  /\ active \subseteq Conns /\ keyed \subseteq Conns /\ subs \in [Conns -> SUBSET Threads]
  /\ view \in [Conns -> [Threads -> Nat]] /\ fresh \subseteq Threads
  /\ poll \in {"off", "sleep", "round"} /\ todo \subseteq Threads /\ moved \subseteq todo
  /\ cast \in [Coroutines -> CastType]
  /\ spoiled \subseteq Threads

Answers(i) == {j \in DOMAIN items : items[j].kind = "answer" /\ items[j].re = i}

\* An interactive message is never answered twice by the agent, and nothing follows
\* an error: two answers to it are one by the agent and then an error, because
\* create_item() can raise when it has stored the answer.  And it has an answer
\* when its handler listens again, whatever failed on the way.
OneAnswer ==
  \A i \in DOMAIN items : items[i].kind = "ask" =>
    /\ \A j, k \in Answers(i) : j < k => items[j].by = "agent" /\ items[k].by = "system"
    /\ handler[items[i].by] = "idle" => Answers(i) # {}

\* Every interactive message that was stored is answered in the end, with an error
\* if need be, or its connection is closed, so that the client knows.
Answered ==
  []<>(\A i \in DOMAIN items : items[i].kind = "ask" => Answers(i) # {} \/ handler[items[i].by] = "gone")

\* A connection whose handler has ended has left nothing behind in the manager,
\* although broadcasts disconnect it too and it may subscribe after that.
NoGhosts == \A c \in Conns : handler[c] \in {"new", "gone"} => c \notin active \cup keyed /\ subs[c] = {}

\* A client that stays sees the threads it subscribes to as they are in the end;
\* but for a thread whose last change came in the second the poll loop had
\* already seen, or whose broadcast broke off, or was overtaken.  One thread's
\* broken broadcast costs the other threads nothing.
CatchesUp ==
  <>[](\A c \in Conns : \A t \in subs[c] \ spoiled :
         handler[c] = "idle" /\ c \in present /\ c \in active => view[c][t] = Count(t))

=============================================================================
