------------------------------ MODULE LedgerLog ------------------------------
(***************************************************************************)
(* What the Ledger promises its callers, without immudb, locks or retries: *)
(* one log that only ever grows by one event at its end, each append()     *)
(* adding its event at most once, between the call and its return, and a   *)
(* return that is a success only when the event is in the log.  A return   *)
(* that is an error says nothing: the event is in the log or it is not.    *)
(***************************************************************************)
EXTENDS Integers, Sequences

CONSTANT Callers

VARIABLES
  log,      \* the events, in sequence order
  state     \* state[c]: "idle", "open" or "logged" (in a call), or how it ended

vars == <<log, state>>

Ended == {"none", "ok", "error"}

Init ==
  /\ log = <<>>
  /\ state = [c \in Callers |-> "none"]

\* A call is refused without having been started.
Refuse(c) ==
  /\ state[c] \in Ended
  /\ state' = [state EXCEPT ![c] = "error"]
  /\ UNCHANGED log

Open(c) ==
  /\ state[c] \in Ended
  /\ state' = [state EXCEPT ![c] = "open"]
  /\ UNCHANGED log

\* The log grows by one event: the front of the new log is the old log.
GrowsByOne ==
  /\ Len(log') = Len(log) + 1
  /\ \A i \in 1..Len(log) : log'[i] = log[i]

\* The event of an open call reaches the log.
Log(c) ==
  /\ state[c] = "open"
  /\ state' = [state EXCEPT ![c] = "logged"]
  /\ GrowsByOne

Succeed(c) ==
  /\ state[c] \in {"open", "logged"}
  /\ state' = [state EXCEPT ![c] = "ok"]
  /\ IF state[c] = "open" THEN GrowsByOne ELSE UNCHANGED log

Fail(c) ==
  /\ state[c] \in {"open", "logged"}
  /\ state' = [state EXCEPT ![c] = "error"]
  /\ \/ UNCHANGED log
     \/ state[c] = "open" /\ GrowsByOne

\* The process is killed: every call is forgotten; the event of one call
\* that was open may still reach the log.
Restart ==
  /\ state' = [c \in Callers |-> "none"]
  /\ \/ UNCHANGED log
     \/ (\E c \in Callers : state[c] = "open") /\ GrowsByOne

Next ==
  \/ \E c \in Callers : Refuse(c) \/ Open(c) \/ Log(c) \/ Succeed(c) \/ Fail(c)
  \/ Restart

Spec == Init /\ [][Next]_vars

=============================================================================
