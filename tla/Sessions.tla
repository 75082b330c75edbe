------------------------------ MODULE Sessions ------------------------------
(***************************************************************************)
(* A session of backends: the history an interactive agent is called with. *)
(* Each call runs in a thread of its own and appends to the list that all  *)
(* calls of the session share, without a lock; only the end of the shell   *)
(* clears it, for nobody calls clear_session().                            *)
(***************************************************************************)
EXTENDS Naturals, Sequences

CONSTANTS
  Callers,     \* the connections whose messages go to the session
  MaxHistory   \* bound on the history a call still begins with

ASSUME SessionAssumption == MaxHistory \in Nat

VARIABLES
  created,    \* the session exists
  history,    \* what its messages hold
  call,       \* of each caller: where its call is
  overlapped  \* history variable: two calls were under way at a time

sessionVars == <<created, history, call, overlapped>>

SessionInit ==
  /\ created = FALSE /\ history = <<>>
  /\ call = [c \in Callers |-> "none"]
  /\ overlapped = FALSE

\* What the service takes: no message without content, and each use of tools
\* followed by its results.
Accepts(h) ==
  /\ \A i \in DOMAIN h : h[i] # "empty"
  /\ \A i \in DOMAIN h : h[i] = "tool_use" => i < Len(h) /\ h[i + 1] = "tool_result"

----------------------------------------------------------------------------
(* create_session(): the first message of a session may give a context *)

CreateSession(c) ==
  /\ call[c] = "none" /\ Len(history) < MaxHistory
  /\ created' = TRUE
  /\ \/ created /\ UNCHANGED history
     \/ ~created /\ history' \in {<<>>, <<"user">>}
  /\ call' = [call EXCEPT ![c] = "created"]
  /\ overlapped' = (overlapped \/ \E d \in Callers : call[d] # "none")

----------------------------------------------------------------------------
(* send_to_session() *)

Progress(c, from, to, appended) ==
  /\ call[c] = from /\ call' = [call EXCEPT ![c] = to]
  /\ history' = history \o appended
  /\ UNCHANGED <<created, overlapped>>

\* The message of a client may be empty.
AddMessage(c) == \E message \in {"user", "empty"} : Progress(c, "created", "request", <<message>>)

\* The request with the history as it is: refused, and the call ends by an
\* exception; or on its way, if there is a key to send it with.
Request(c) ==
  \/ ~Accepts(history) /\ Progress(c, "request", "none", <<>>)
  \/ Accepts(history) /\ \E to \in {"waiting", "none"} : Progress(c, "request", to, <<>>)

\* A text, or nothing at all, which is kept although it is an error; or a
\* failure or the timeout, which leaves the message without an answer.
Respond(c) == \E got \in {<<"assistant">>, <<"empty">>, <<>>} : Progress(c, "waiting", "none", got)

UseTools(c) == Len(history) < 2 * MaxHistory /\ Progress(c, "waiting", "tools", <<"tool_use">>)

\* Mutant: a tool that fails ends the call.
RunToolsMutant(c) ==
  \/ Progress(c, "tools", "request", <<"tool_result">>)
  \/ Progress(c, "tools", "none", <<>>)

\* Whether a tool fails or not, it has a result.
RunTools(c) == Progress(c, "tools", "request", <<"tool_result">>)

\* The shell ends, and a new one begins with no session.
Restart ==
  /\ created /\ created' = FALSE /\ history' = <<>>
  /\ call' = [c \in Callers |-> "none"] /\ overlapped' = FALSE

SessionNext ==
  \/ \E c \in Callers :
       CreateSession(c) \/ AddMessage(c) \/ Request(c) \/ Respond(c) \/ UseTools(c) \/ RunTools(c)
  \/ Restart

SessionSpec == SessionInit /\ [][SessionNext]_sessionVars

----------------------------------------------------------------------------
(* Properties *)

Contents == {"user", "assistant", "empty", "tool_use", "tool_result"}

SessionTypeOK ==
  /\ created \in BOOLEAN /\ overlapped \in BOOLEAN
  /\ history \in Seq(Contents)
  /\ call \in [Callers -> {"none", "created", "request", "waiting", "tools"}]

\* As long as no two calls overlapped, and no message or response was empty, the
\* service accepts the history whenever no tools are running: no failure,
\* timeout or failing tool makes a session useless, with which all later calls
\* of its agent and framework would fail.
SessionUsable ==
  /\ ~overlapped
  /\ \A i \in DOMAIN history : history[i] # "empty"
  /\ \A c \in Callers : call[c] # "tools"
  => Accepts(history)

=============================================================================
