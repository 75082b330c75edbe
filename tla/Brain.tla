------------------------------- MODULE Brain -------------------------------
(***************************************************************************)
(* The brain: thoughts, and the vectors they are searched by, as           *)
(* shell.helpers.brain, shell.helpers.brain_import and the thoughts of     *)
(* workspace keep them in one SQLite database.                             *)
(*                                                                         *)
(* A capture is three transactions of one process, with a request to the   *)
(* embedding service among them; deletions are made by the shell alone,    *)
(* whose handlers do not wait in between.                                  *)
(***************************************************************************)
EXTENDS Naturals, FiniteSets

CONSTANTS
  Servers,      \* the processes that capture: MCP servers and imports
  shell,        \* the shell, which captures and deletes
  MaxThoughts   \* bound on the thoughts that are captured

ASSUME BrainAssumption == shell \notin Servers /\ MaxThoughts \in Nat

Processes == Servers \cup {shell}

VARIABLES
  thoughts,   \* the rows of thoughts: an id with its rowid
  vectors,    \* the rows of vec_thoughts: a rowid with the id it was computed for
  highest,    \* the highest rowid vec_thoughts has ever had
  captured,   \* how many ids have been given
  stage,      \* of each process: "idle", or where its capture is
  current,    \* and the id of the thought it captures, 0 for none
  known,      \* the thoughts whose capture has returned and that are not deleted
  deleted,    \* those whose deletion has returned
  met         \* history variable: a deletion has met a capture under way

brainVars == <<thoughts, vectors, highest, captured, stage, current, known, deleted, met>>

RowIds(rows) == {r.rowid : r \in rows}
Highest(S) == IF S = {} THEN 0 ELSE CHOOSE n \in S : \A k \in S : k <= n

BrainInit ==
  /\ thoughts = {} /\ vectors = {} /\ highest = 0 /\ captured = 0
  /\ stage = [p \in Processes |-> "idle"] /\ current = [p \in Processes |-> 0]
  /\ known = {} /\ deleted = {} /\ met = FALSE

----------------------------------------------------------------------------
(* capture() *)

\* ws.capture_thought(): SQLite gives a rowid of a deleted thought again when
\* it was the highest.  An import only gets here with a content that no thought
\* has yet.
Capture(p) ==
  /\ stage[p] = "idle" /\ captured < MaxThoughts
  /\ captured' = captured + 1
  /\ thoughts' = thoughts \cup {[id |-> captured', rowid |-> Highest(RowIds(thoughts)) + 1]}
  /\ stage' = [stage EXCEPT ![p] = "embedding"] /\ current' = [current EXCEPT ![p] = captured']
  /\ UNCHANGED <<vectors, highest, known, deleted, met>>

Insert(p, rowid) ==
  /\ vectors' = vectors \cup {[rowid |-> rowid, id |-> current[p]]}
  /\ highest' = Highest({highest, rowid})
  /\ stage' = [stage EXCEPT ![p] = "idle"] /\ current' = [current EXCEPT ![p] = 0]
  /\ known' = known \cup {current[p]}
  /\ UNCHANGED <<thoughts, captured, deleted, met>>

\* Mutant: the vector gets a rowid of its own, like the thought did.
AddVectorMutant(p) ==
  /\ stage[p] = "embedding"
  /\ \E t \in thoughts : t.id = current[p] /\ Insert(p, Highest(RowIds(vectors)) + 1)

\* The vector is stored under the rowid of the thought ...
AddVector(p) ==
  /\ stage[p] = "embedding"
  /\ \E t \in thoughts : t.id = current[p] /\ t.rowid \notin RowIds(vectors) /\ Insert(p, t.rowid)

\* ... which is NULL when there is no such thought any more: the table picks the
\* next one, after those it has, or, when it is one of sqlite_vec, after all it
\* has ever had.
AddOrphan(p) ==
  /\ stage[p] = "embedding" /\ current[p] \notin {t.id : t \in thoughts}
  /\ \E rowid \in {Highest(RowIds(vectors)), highest} : Insert(p, rowid + 1)

\* No embedding, a busy database, or a rowid that is taken.
CaptureFails(p) ==
  /\ stage[p] = "embedding"
  /\ stage' = [stage EXCEPT ![p] = "undo"]
  /\ UNCHANGED <<thoughts, vectors, highest, captured, current, known, deleted, met>>

\* except: ws.delete_thought(), and raise.
Undo(p) ==
  /\ stage[p] = "undo"
  /\ thoughts' = {t \in thoughts : t.id # current[p]}
  /\ stage' = [stage EXCEPT ![p] = "idle"] /\ current' = [current EXCEPT ![p] = 0]
  /\ UNCHANGED <<vectors, highest, captured, known, deleted, met>>

\* The process is killed; what it has stored stays.
Die(p) ==
  /\ stage[p] # "idle"
  /\ stage' = [stage EXCEPT ![p] = "idle"] /\ current' = [current EXCEPT ![p] = 0]
  /\ UNCHANGED <<thoughts, vectors, highest, captured, known, deleted, met>>

----------------------------------------------------------------------------
(* delete(), for api_brain_delete() of the shell *)

Delete(t) ==
  /\ stage[shell] = "idle"
  /\ vectors' = {v \in vectors : v.rowid # t.rowid}
  /\ thoughts' = thoughts \ {t}
  /\ known' = known \ {t.id} /\ deleted' = deleted \cup {t.id}
  /\ met' = (met \/ \E p \in Processes : current[p] = t.id)
  /\ UNCHANGED <<highest, captured, stage, current>>

----------------------------------------------------------------------------
(* search() *)

\* The join, of which the nearest are taken.
Matches == {m \in [vector : vectors, thought : thoughts] : m.vector.rowid = m.thought.rowid}

----------------------------------------------------------------------------
BrainNext ==
  \/ \E p \in Processes : Capture(p) \/ AddVector(p) \/ AddOrphan(p) \/ CaptureFails(p) \/ Undo(p) \/ Die(p)
  \/ \E t \in thoughts : Delete(t)

BrainSpec == BrainInit /\ [][BrainNext]_brainVars

----------------------------------------------------------------------------
(* Properties *)

BrainTypeOK ==
  /\ captured \in Nat /\ highest \in Nat
  /\ thoughts \subseteq [id : 1 .. captured, rowid : Nat \ {0}]
  /\ vectors \subseteq [id : 1 .. captured, rowid : Nat \ {0}]
  /\ stage \in [Processes -> {"idle", "embedding", "undo"}]
  /\ current \in [Processes -> 0 .. captured]
  /\ known \subseteq 1 .. captured /\ deleted \subseteq 1 .. captured /\ met \in BOOLEAN

\* As long as no deletion meets the capture of the thought it deletes, a search
\* ranks exactly what has been captured, whatever processes capture at the same
\* time, fail or die: no vector is left without its thought, each match is that
\* of a thought with its own vector, and each thought whose capture has returned,
\* and that has not been deleted, is matched.
BrainConsistent ==
  ~met =>
    /\ \A m \in Matches : m.thought.id = m.vector.id
    /\ RowIds(vectors) \subseteq RowIds(thoughts)
    /\ \A i \in known : \E m \in Matches : m.thought.id = i

\* Expected to fail.  test_delete_removes_vector_and_metadata (in
\* tests/test_brain_search.py): nothing is left of a thought that was deleted.
DeletedLeavesNothing == \A v \in vectors : v.id \notin deleted

=============================================================================
