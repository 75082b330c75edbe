------------------------------- MODULE Agents -------------------------------
(***************************************************************************)
(* The agents that work over HTTP: tokens and registrations of workspace,  *)
(* and the calls of mcp_portal that an agent's program makes by the        *)
(* instructions it is given - onboard, then a heartbeat again and again,   *)
(* and for each item of its answer mark it read and reply.                 *)
(*                                                                         *)
(* The portals and the shell, in which management act, and the HTTP server are *)
(* processes of their own, over one SQLite database: a step is one         *)
(* transaction.                                                            *)
(***************************************************************************)
EXTENDS Naturals, Sequences, FiniteSets

CONSTANTS
  Tokens,      \* the tokens that may be created
  Names,       \* the names agents may have
  MaxSent,     \* bound on the messages management send
  MaxManaged,  \* bound on what people do with agents, tokens and items
  MaxCrashes   \* bound on the crashes of the agents' programs

ASSUME AgentsAssumption ==
  /\ Names \cap {"", "human", "any"} = {} /\ "none" \notin Names
  /\ MaxSent \in Nat /\ MaxManaged \in Nat /\ MaxCrashes \in Nat

VARIABLES
  tokens,    \* of each token: state, label and name
  rows,      \* the names in the table of agents
  mail,      \* the mail, in the order of storing
  program,   \* of each token: where the program that uses it is
  work,      \* the items of its last heartbeat that it has not finished
  deleting,  \* the name whose deletion is under way, "" for none
  managed,   \* how often management have managed something
  crashes    \* how often a program has crashed

management == <<deleting, managed>>
programs == <<program, work, crashes>>
agentVars == <<tokens, rows, mail, management, programs>>

Idle == [state |-> "none", label |-> "", name |-> ""]

AgentsInit ==
  /\ tokens = [x \in Tokens |-> Idle] /\ rows = {}
  /\ mail = <<>>
  /\ program = [x \in Tokens |-> "off"] /\ work = [x \in Tokens |-> {}]
  /\ deleting = "" /\ managed = 0 /\ crashes = 0

----------------------------------------------------------------------------
(* Items *)

LastSecond == IF mail = <<>> THEN 0 ELSE mail[Len(mail)].at

\* create_item(): the thread is that of the item replied to, or a new one.  Times
\* have a precision of one second: an item gets the second of the last one or the
\* next one, for seconds without items are left out.
CreateItem(from, to, re, before) ==
  \E at \in {LastSecond, LastSecond + 1} \ {before} :
    mail' = Append(mail, [thread |-> IF re = 0 THEN Len(mail) + 1 ELSE mail[re].thread,
                          from |-> from, to |-> to, at |-> at, status |-> "sent"])

SetStatus(i, status) == mail' = [mail EXCEPT ![i].status = status]

\* list_items()
Listed(status, name) == {i \in DOMAIN mail : mail[i].status = status /\ mail[i].to \in {name, "any"}}

----------------------------------------------------------------------------
(* People, in the portals and in the shell *)

\* resolve_default_route()
Default(re) ==
  LET others == IF re = 0 THEN {} ELSE {j \in DOMAIN mail : mail[j].thread = mail[re].thread /\ mail[j].from # "human"} IN
  IF others = {} THEN "any" ELSE mail[CHOOSE j \in others : \A k \in others : k <= j].from

\* api_send(), and the action "send" of the shell: to an agent that has a row, or
\* else by default.
Send(to, re) ==
  /\ Cardinality({i \in DOMAIN mail : mail[i].from = "human"}) < MaxSent
  /\ to \in rows \cup {Default(re)}
  /\ CreateItem("human", to, re, 0)
  /\ UNCHANGED <<tokens, rows, management, programs>>

\* Only items that people have sent are managed here: agents that get messages of
\* agents, or their own, answer one another without end.
Manage == managed < MaxManaged /\ managed' = managed + 1 /\ UNCHANGED programs

Complete(i) ==
  /\ mail[i].from = "human" /\ mail[i].status # "complete" /\ Manage
  /\ SetStatus(i, "complete")
  /\ UNCHANGED <<tokens, rows, deleting>>

RouteItem(i, to) ==
  /\ mail[i].from = "human" /\ mail[i].to # to /\ Manage
  /\ mail' = [mail EXCEPT ![i].to = to]
  /\ UNCHANGED <<tokens, rows, deleting>>

NewToken(x, label, name) ==
  /\ tokens[x] = Idle
  /\ tokens' = [tokens EXCEPT ![x] = [state |-> "active", label |-> label, name |-> name]]

CreateToken(x, label) ==
  /\ Manage /\ NewToken(x, label, "")
  /\ UNCHANGED <<rows, mail, deleting>>

OfName(n) == {x \in Tokens : n \in {tokens[x].label, tokens[x].name}}

\* A token that exists is not made a second time, although it may be revoked.
CreateAgent(n) ==
  /\ n \notin rows /\ Manage
  /\ rows' = rows \cup {n}
  /\ \/ OfName(n) # {} /\ UNCHANGED tokens
     \/ OfName(n) = {} /\ \E x \in Tokens : NewToken(x, n, n)
  /\ UNCHANGED <<mail, deleting>>

\* A token of the agent that has no name yet gets it.
UpdateAgent(n) ==
  /\ n \in rows /\ Manage
  /\ tokens' = [x \in Tokens |-> IF x \in OfName(n) /\ tokens[x].name = ""
                                 THEN [tokens[x] EXCEPT !.name = n] ELSE tokens[x]]
  /\ UNCHANGED <<rows, mail, deleting>>

\* revoke_token() and reactivate_token()
SetActive(x, state) ==
  /\ tokens[x].state \notin {"none", state} /\ Manage
  /\ tokens' = [tokens EXCEPT ![x].state = state]
  /\ UNCHANGED <<rows, mail, deleting>>

\* delete_agent(): the tokens first, and the row later.
DeleteAgent(n) ==
  /\ n \in rows /\ deleting = "" /\ Manage
  /\ tokens' = [x \in Tokens |-> IF x \in OfName(n) THEN [tokens[x] EXCEPT !.state = "revoked"] ELSE tokens[x]]
  /\ deleting' = n
  /\ UNCHANGED <<rows, mail>>

EndDeletion ==
  /\ deleting # "" /\ deleting' = ""
  /\ rows' = rows \ {deleting}
  /\ UNCHANGED <<tokens, mail, managed, programs>>

----------------------------------------------------------------------------
(* The program of a token *)

Valid(x) == tokens[x].state = "active"

\* validate_token() refuses: the program goes on with its heartbeats.
Refused(x) ==
  /\ program[x] \in {"ready", "working", "reading"} /\ ~Valid(x) /\ work[x] # {}
  /\ program' = [program EXCEPT ![x] = "ready"] /\ work' = [work EXCEPT ![x] = {}]
  /\ UNCHANGED <<tokens, rows, mail, management, crashes>>

At(x, from, to) == program[x] = from /\ program' = [program EXCEPT ![x] = to]

\* onboard_agent(): the token is checked ...
Onboard(x) ==
  /\ Valid(x)
  /\ \E from \in {"off", "down"} : At(x, from, "checked")
  /\ UNCHANGED <<tokens, rows, mail, management, work, crashes>>

\* ... it gets its name, its label if it has one, and the row of another name it
\* had is deleted ...
Rename(x, name) ==
  /\ At(x, "checked", "named")
  /\ name = tokens[x].label \/ tokens[x].label = ""
  /\ tokens' = [tokens EXCEPT ![x].name = name]
  /\ rows' = IF tokens[x].name # name THEN rows \ {tokens[x].name} ELSE rows
  /\ UNCHANGED <<mail, management, work, crashes>>

\* ... and register_agent().
Register(x) ==
  /\ At(x, "named", "ready")
  /\ rows' = rows \cup {tokens[x].name}
  /\ UNCHANGED <<tokens, mail, management, work, crashes>>

\* heartbeat(): the new items first ...
Heartbeat(x) ==
  /\ Valid(x) /\ At(x, "ready", "beating")
  /\ work' = [work EXCEPT ![x] = Listed("sent", tokens[x].name)]
  /\ UNCHANGED <<tokens, rows, mail, management, crashes>>

\* Mutant: an answer in the second of the message counts as an answer to it.
NeedsResponseMutant(name) ==
  {i \in Listed("read", name) :
     \A j \in DOMAIN mail : mail[j].thread = mail[i].thread /\ mail[j].from = name => mail[j].at < mail[i].at}

\* The items that were read, and to whose threads the agent has posted nothing
\* since.
NeedsResponse(name) ==
  {i \in Listed("read", name) :
     \A j \in DOMAIN mail : mail[j].thread = mail[i].thread /\ mail[j].from = name => mail[j].at <= mail[i].at}

\* ... and then those that need a response.
HeartbeatAnswers(x) ==
  /\ At(x, "beating", "working")
  /\ work' = [work EXCEPT ![x] = @ \cup NeedsResponse(tokens[x].name)]
  /\ UNCHANGED <<tokens, rows, mail, management, crashes>>

\* update_status() to "read"; the server lets an agent do no more.
MarkRead(x, i) ==
  /\ Valid(x) /\ At(x, "working", "reading") /\ i \in work[x]
  /\ work' = [work EXCEPT ![x] = {i}]
  /\ SetStatus(i, "read")
  /\ UNCHANGED <<tokens, rows, management, crashes>>

\* The reply, from the name the token has now, to the one the message is from.
\* An agent takes more than a second to answer.  The rest comes with the next
\* heartbeat.
PostReply(x) ==
  /\ Valid(x) /\ At(x, "reading", "ready")
  /\ \E i \in work[x] : CreateItem(tokens[x].name, mail[i].from, i, mail[i].at)
  /\ work' = [work EXCEPT ![x] = {}]
  /\ UNCHANGED <<tokens, rows, management, crashes>>

NothingToDo(x) ==
  /\ work[x] = {} /\ At(x, "working", "ready")
  /\ UNCHANGED <<tokens, rows, mail, management, work, crashes>>

\* The program ends between two calls; it is started again, and onboards again.
Crash(x) ==
  /\ program[x] \notin {"off", "down"} /\ crashes < MaxCrashes
  /\ program' = [program EXCEPT ![x] = "down"] /\ work' = [work EXCEPT ![x] = {}]
  /\ crashes' = crashes + 1
  /\ UNCHANGED <<tokens, rows, mail, management>>

----------------------------------------------------------------------------
Person ==
  \/ \E to \in Names \cup {"any"}, re \in {0} \cup DOMAIN mail : Send(to, re)
  \/ \E i \in DOMAIN mail : Complete(i) \/ \E to \in Names : RouteItem(i, to)
  \/ \E x \in Tokens : \/ \E label \in Names \cup {""} : CreateToken(x, label)
                      \/ \E state \in {"active", "revoked"} : SetActive(x, state)
  \/ \E n \in Names : CreateAgent(n) \/ UpdateAgent(n) \/ DeleteAgent(n)
  \/ EndDeletion

Call(x) ==
  \/ Heartbeat(x) \/ HeartbeatAnswers(x) \/ NothingToDo(x) \/ Refused(x)
  \/ \E i \in DOMAIN mail : MarkRead(x, i)
  \/ PostReply(x)

Begin(x) == Onboard(x) \/ Register(x) \/ \E name \in Names : Rename(x, name)

AgentsNext ==
  \/ Person
  \/ \E x \in Tokens : Begin(x) \/ Call(x) \/ Crash(x)

\* A program that has been started follows its instructions, and is started
\* again when it has ended.
AgentsFairness ==
  \A x \in Tokens : WF_agentVars(program[x] # "off" /\ (Begin(x) \/ Call(x)))

AgentsSpec == AgentsInit /\ [][AgentsNext]_agentVars /\ AgentsFairness

----------------------------------------------------------------------------
(* Properties *)

AgentsTypeOK ==
  /\ tokens \in [Tokens -> [state : {"none", "active", "revoked"}, label : Names \cup {""},
                            name : Names \cup {""}]]
  /\ rows \subseteq Names
  /\ mail \in Seq([thread : Nat, from : Names \cup {"human"}, to : Names \cup {"human", "any"}, at : Nat,
                   status : {"sent", "read", "complete"}])
  /\ program \in [Tokens -> {"off", "checked", "named", "ready", "beating", "working", "reading", "down"}]
  /\ work \in [Tokens -> SUBSET DOMAIN mail]
  /\ deleting \in Names \cup {""} /\ managed \in 0 .. MaxManaged /\ crashes \in 0 .. MaxCrashes

\* A message of a person that an agent which is running is to answer, and whose
\* thread the agent has posted nothing to since.
Waiting(i) ==
  /\ mail[i].from = "human" /\ mail[i].status # "complete"
  /\ \E x \in Tokens :
       /\ program[x] # "off" /\ Valid(x) /\ tokens[x].name \in Names
       /\ mail[i].to \in {tokens[x].name, "any"}
       /\ \A j \in DOMAIN mail : j > i /\ mail[j].from = tokens[x].name => mail[j].thread # mail[i].thread

\* No message waits for ever, although a program may crash after it marked it
\* read, be renamed, or answer another message of the thread in the same second.
ThreadAnswered == []<>(\A i \in DOMAIN mail : ~Waiting(i))

=============================================================================
