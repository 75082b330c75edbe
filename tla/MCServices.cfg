\* Two connections, one of which asks and may go, two threads, two messages; two
\* callers of one session; one token and two names for agents; two servers and
\* the shell over three thoughts;
\* two executions of an agent; two runs, and the limits of five and ten minutes.
SPECIFICATION Spec
CONSTANTS
  c1 = c1
  c2 = c2
  t1 = t1
  t2 = t2
  Conns = {c1, c2}
  Leavers = {c1}
  Askers = {c1}
  Threads = {t1, t2}
  Interests <- MCInterests
  MaxStored = 2
  MaxAsked = 1
  Callers = {c1, c2}
  MaxHistory = 4
  Tokens = {k1}
  Names = {"n1", "n2"}
  MaxSent = 2
  MaxManaged = 2
  MaxCrashes = 1
  Servers = {s1, s2}
  shell = shell
  MaxThoughts = 3
  MaxExecutions = 2
  MaxLines = 2
  MaxRuns = 2
  InterruptedAfter = 1
  ActiveAfter = 2
INVARIANTS
  ServicesTypeOK
  OneAnswer
  NoGhosts
  SessionUsable
  BrainConsistent
  OutcomeHonest
  RunsTold
PROPERTIES
  Answered
  CatchesUp
  ThreadAnswered
  InvocationEnds
\* The services may rest.
CHECK_DEADLOCK FALSE
