----------------------------- MODULE MCServices -----------------------------
(***************************************************************************)
(* The services around the workspace, for TLC: the shell with its          *)
(* connections, the sessions of its interactive agents, the agents that    *)
(* work over HTTP, and the brain; and what surrounds a run of the pipeline: *)
(* the runner of an agent, and those who watch and launch runs.            *)
(*                                                                         *)
(* They share no variable, so that a property of one cannot depend on the  *)
(* steps of another: one of them runs, and the others stay as they began.  *)
(***************************************************************************)
EXTENDS Shell, Sessions, Agents, Brain, Runner, Watch

CONSTANTS c1, c2, t1, t2

\* Both clients use one thread; the other one changes by other processes alone.
MCInterests == {c1, c2} \X {t1}

VARIABLE part   \* the service that runs

vars == <<part, shellVars, sessionVars, agentVars, brainVars, runnerVars, watchVars>>

Init ==
  /\ part \in {"shell", "sessions", "agents", "brain", "runner", "watch"}
  /\ ShellInit /\ SessionInit /\ AgentsInit /\ BrainInit /\ RunnerInit /\ WatchInit

Next ==
  /\ UNCHANGED part
  /\ \/ part = "shell" /\ ShellNext
        /\ UNCHANGED <<sessionVars, agentVars, brainVars, runnerVars, watchVars>>
     \/ part = "sessions" /\ SessionNext
        /\ UNCHANGED <<shellVars, agentVars, brainVars, runnerVars, watchVars>>
     \/ part = "agents" /\ AgentsNext
        /\ UNCHANGED <<shellVars, sessionVars, brainVars, runnerVars, watchVars>>
     \/ part = "brain" /\ BrainNext
        /\ UNCHANGED <<shellVars, sessionVars, agentVars, runnerVars, watchVars>>
     \/ part = "runner" /\ RunnerNext
        /\ UNCHANGED <<shellVars, sessionVars, agentVars, brainVars, watchVars>>
     \/ part = "watch" /\ WatchNext
        /\ UNCHANGED <<shellVars, sessionVars, agentVars, brainVars, runnerVars>>

Spec == Init /\ [][Next]_vars /\ ShellFairness /\ AgentsFairness /\ RunnerFairness

\* The values of the variables have their types.
ServicesTypeOK ==
  ShellTypeOK /\ SessionTypeOK /\ AgentsTypeOK /\ BrainTypeOK /\ RunnerTypeOK /\ WatchTypeOK

=============================================================================
