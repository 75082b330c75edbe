--------------------------- MODULE ServicesProofs ---------------------------
(***************************************************************************)
(* Proofs about the services: the brain, the sessions of interactive       *)
(* agents, an invocation of an agent, the runs as others see them, the     *)
(* shell, and the agents that work over HTTP; and about all of them        *)
(* together.  They are for any number of processes, thoughts, calls,       *)
(* executions, runs, connections, messages and tokens.                     *)
(***************************************************************************)
EXTENDS MCServices, SequenceTheorems, WellFoundedInduction, FiniteSetTheorems, TLAPS

----------------------------------------------------------------------------
(* The brain *)

\* A bounded set of numbers has a highest one.
LEMMA HighestOfBounded ==
  ASSUME NEW S \in SUBSET Nat, S # {}, NEW b \in Nat, \A k \in S : k <= b
  PROVE  Highest(S) \in S /\ \A k \in S : k <= Highest(S)
<1> DEFINE Below == {b - k : k \in S}
<1>1. Below \in SUBSET Nat /\ Below # {}
  <2>1. \A k \in S : b - k \in Nat
    OBVIOUS
  <2>2. PICK k \in S : TRUE
    OBVIOUS
  <2>3. b - k \in Below
    BY <2>2
  <2> QED
    BY <2>1, <2>3
<1>2. PICK n \in Below : \A m \in Below : n <= m
  <2> DEFINE Less == OpToRel(<, Nat)
  <2>1. IsWellFoundedOn(Less, Nat)
    BY NatLessThanWellFounded
  <2>2. \A k, n \in Nat : k < n => <<k, n>> \in Less
    BY DEF OpToRel
  <2> HIDE DEF Below, Less
  <2>3. PICK n \in Below : \A m \in Below : <<m, n>> \notin Less
    BY <1>1, <2>1, WFMin
  <2>4. n \in Nat /\ \A m \in Below : m \in Nat /\ ~(m < n)
    BY <1>1, <2>2, <2>3
  <2> QED
    BY <2>4
<1>3. PICK h \in S : n = b - h
  BY <1>2
<1>4. ASSUME NEW k \in S PROVE k <= h
  <2>1. b - k \in Below
    OBVIOUS
  <2> QED
    BY <1>2, <1>3, <2>1, SMT
<1> QED
  BY <1>3, <1>4 DEF Highest

\* What a capture or a deletion does to the rowids relies on: rows have ids and
\* rowids of their own, and a capture its thought, for itself.
BrainRows ==
  /\ BrainTypeOK
  /\ \A t \in thoughts : t.rowid <= captured
  /\ \A v \in vectors : v.rowid <= highest
  /\ \A s, t \in thoughts : s.id = t.id \/ s.rowid = t.rowid => s = t
  /\ \A p \in Processes : stage[p] = "idle" <=> current[p] = 0
  /\ \A p, q \in Processes : current[p] = current[q] /\ current[p] # 0 => p = q
  /\ \A p \in Processes : current[p] \notin known

\* As long as no deletion meets a capture: vectors are of thoughts, and thoughts
\* whose capture has returned have theirs.
BrainPairs ==
  /\ \A v \in vectors : \E t \in thoughts : t.id = v.id /\ t.rowid = v.rowid
  /\ \A i \in known : \E v \in vectors : v.id = i
  /\ \A p \in Processes : stage[p] # "idle" =>
       /\ \E t \in thoughts : t.id = current[p]
       /\ \A v \in vectors : v.id # current[p]

BrainInv == BrainRows /\ (~met => BrainPairs)

\* An empty brain satisfies the invariant.
LEMMA BrainInitInv == BrainInit => BrainInv
<1> SUFFICES ASSUME BrainInit PROVE BrainInv
  OBVIOUS
<1>1. \A p \in Processes : stage[p] = "idle" /\ current[p] = 0
  BY DEF BrainInit
<1>2. thoughts = {} /\ vectors = {} /\ known = {}
  BY DEF BrainInit
<1>3. BrainTypeOK
  <2>1. stage \in [Processes -> {"idle", "embedding", "undo"}]
    BY DEF BrainInit
  <2>2. captured = 0 /\ highest = 0 /\ current \in [Processes -> 0 .. captured]
    BY DEF BrainInit
  <2>3. deleted = {} /\ met \in BOOLEAN
    BY DEF BrainInit
  <2> QED
    BY <1>2, <2>1, <2>2, <2>3 DEF BrainTypeOK
<1>4. BrainRows
  BY <1>1, <1>2, <1>3 DEF BrainRows
<1>5. BrainPairs
  BY <1>1, <1>2 DEF BrainPairs
<1> QED
  BY <1>4, <1>5 DEF BrainInv

\* A thought gets a rowid that no thought has.
LEMMA NewRowId ==
  ASSUME BrainRows
  PROVE  /\ Highest(RowIds(thoughts)) + 1 \in Nat \ {0}
         /\ Highest(RowIds(thoughts)) + 1 <= captured + 1
         /\ Highest(RowIds(thoughts)) + 1 \notin RowIds(thoughts)
<1>1. RowIds(thoughts) \in SUBSET Nat /\ captured \in Nat /\ \A k \in RowIds(thoughts) : k <= captured
  BY DEF BrainRows, BrainTypeOK, RowIds
<1>2. CASE RowIds(thoughts) = {}
  BY <1>1, <1>2 DEF Highest
<1>3. CASE RowIds(thoughts) # {}
  <2>1. /\ Highest(RowIds(thoughts)) \in RowIds(thoughts)
        /\ \A k \in RowIds(thoughts) : k <= Highest(RowIds(thoughts))
    BY ONLY <1>1, <1>3, HighestOfBounded
  <2> QED
    BY <1>1, <2>1, SMT
<1> QED
  BY <1>2, <1>3

\* Capture (capture_thought()) keeps the invariant.
LEMMA CaptureInv == ASSUME BrainInv, NEW p \in Processes, Capture(p) PROVE BrainInv'
<1> DEFINE new == [id |-> captured + 1, rowid |-> Highest(RowIds(thoughts)) + 1]
<1>1. /\ new.rowid \in Nat \ {0} /\ new.rowid <= captured + 1 /\ new.rowid \notin RowIds(thoughts)
  BY NewRowId DEF BrainInv
<1>2. /\ captured \in Nat /\ captured' = captured + 1 /\ thoughts' = thoughts \cup {new}
      /\ stage' = [stage EXCEPT ![p] = "embedding"] /\ current' = [current EXCEPT ![p] = captured + 1]
      /\ UNCHANGED <<vectors, highest, known, deleted, met>>
  BY DEF Capture, BrainInv, BrainRows, BrainTypeOK
<1>3. \A t \in thoughts : t.id # new.id /\ t.rowid # new.rowid
  <2> TAKE t \in thoughts
  <2>1. t.id \in 1 .. captured
    BY DEF BrainInv, BrainRows, BrainTypeOK
  <2>2. t.rowid \in RowIds(thoughts)
    BY DEF RowIds
  <2> QED
    BY <1>1, <1>2, <2>1, <2>2
<1> HIDE DEF new
<1>4. new \in [id : 1 .. captured', rowid : Nat \ {0}] /\ new.id = captured'
  BY <1>1, <1>2 DEF new
<1>5. BrainTypeOK'
  BY <1>2, <1>4 DEF BrainInv, BrainRows, BrainTypeOK
<1>6. BrainRows'
  <2>1. (\A t \in thoughts : t.rowid <= captured)' /\ (\A v \in vectors : v.rowid <= highest)'
    BY <1>1, <1>2 DEF BrainInv, BrainRows, BrainTypeOK
  <2>2. (\A s, t \in thoughts : s.id = t.id \/ s.rowid = t.rowid => s = t)'
    BY <1>2, <1>3 DEF BrainInv, BrainRows
  <2>3. \A q \in Processes : stage'[q] = "idle" <=> current'[q] = 0
    BY <1>2 DEF BrainInv, BrainRows, BrainTypeOK
  <2>4. \A q, r \in Processes : current'[q] = current'[r] /\ current'[q] # 0 => q = r
    BY <1>2 DEF BrainInv, BrainRows, BrainTypeOK
  <2>5. \A q \in Processes : current'[q] \notin known'
    BY <1>2 DEF BrainInv, BrainRows, BrainTypeOK
  <2> QED
    BY <1>5, <2>1, <2>2, <2>3, <2>4, <2>5 DEF BrainRows
<1>7. ASSUME ~met' PROVE BrainPairs'
  <2>1. BrainPairs
    BY <1>2, <1>7 DEF BrainInv
  <2>2. (\A v \in vectors : \E t \in thoughts : t.id = v.id /\ t.rowid = v.rowid)'
    BY <1>2, <2>1 DEF BrainPairs
  <2>3. (\A i \in known : \E v \in vectors : v.id = i)'
    BY <1>2, <2>1 DEF BrainPairs
  <2>4. ASSUME NEW q \in Processes, stage'[q] # "idle"
        PROVE  (\E t \in thoughts' : t.id = current'[q]) /\ \A v \in vectors' : v.id # current'[q]
    <3>1. CASE q = p
      BY <1>2, <1>4, <3>1 DEF BrainInv, BrainRows, BrainTypeOK
    <3>2. CASE q # p
      BY <1>2, <2>1, <2>4, <3>2 DEF BrainPairs, BrainInv, BrainRows, BrainTypeOK
    <3> QED
      BY <3>1, <3>2
  <2> QED
    BY <2>2, <2>3, <2>4 DEF BrainPairs
<1> QED
  BY <1>6, <1>7 DEF BrainInv

\* A vector is stored for the thought whose capture is under way.
LEMMA InsertRows ==
  ASSUME BrainRows, NEW p \in Processes, stage[p] = "embedding", NEW n \in Nat \ {0}, Insert(p, n)
  PROVE  BrainRows'
<1>1. /\ vectors' = vectors \cup {[rowid |-> n, id |-> current[p]]}
      /\ highest' = Highest({highest, n})
      /\ stage' = [stage EXCEPT ![p] = "idle"] /\ current' = [current EXCEPT ![p] = 0]
      /\ known' = known \cup {current[p]}
      /\ UNCHANGED <<thoughts, captured, deleted, met>>
  BY DEF Insert
<1>2. captured \in Nat /\ highest \in Nat /\ current[p] \in 1 .. captured
  BY DEF BrainRows, BrainTypeOK
<1>3. highest' \in Nat /\ highest <= highest' /\ n <= highest'
  <2>1. {highest, n} \in SUBSET Nat /\ {highest, n} # {} /\ \A k \in {highest, n} : k <= highest + n
    BY <1>2
  <2>2. highest + n \in Nat
    BY <1>2
  <2>3. Highest({highest, n}) \in {highest, n} /\ \A k \in {highest, n} : k <= Highest({highest, n})
    BY ONLY <2>1, <2>2, HighestOfBounded
  <2> QED
    BY <1>1, <1>2, <2>3
<1>4. [rowid |-> n, id |-> current[p]] \in [id : 1 .. captured, rowid : Nat \ {0}]
  BY <1>2
<1>5. BrainTypeOK'
  <2>1. vectors' \subseteq [id : 1 .. captured', rowid : Nat \ {0}]
    BY <1>1, <1>4 DEF BrainRows, BrainTypeOK
  <2>2. known' \subseteq 1 .. captured'
    BY <1>1, <1>2 DEF BrainRows, BrainTypeOK
  <2>3. /\ stage' \in [Processes -> {"idle", "embedding", "undo"}]
        /\ current' \in [Processes -> 0 .. captured']
    BY <1>1, <1>2 DEF BrainRows, BrainTypeOK
  <2> QED
    BY <1>1, <1>3, <2>1, <2>2, <2>3 DEF BrainRows, BrainTypeOK
<1>6. (\A v \in vectors : v.rowid <= highest)'
  BY <1>1, <1>2, <1>3 DEF BrainRows, BrainTypeOK
<1>7. \A q \in Processes : current'[q] = IF q = p THEN 0 ELSE current[q]
  BY <1>1 DEF BrainRows, BrainTypeOK
<1>8. \A q \in Processes : stage'[q] = IF q = p THEN "idle" ELSE stage[q]
  BY <1>1 DEF BrainRows, BrainTypeOK
<1>9. \A q \in Processes : current'[q] \notin known'
  BY <1>1, <1>2, <1>7 DEF BrainRows, BrainTypeOK
<1> QED
  BY <1>1, <1>5, <1>6, <1>7, <1>8, <1>9 DEF BrainRows

\* AddVector (capture()) keeps the invariant.
LEMMA AddVectorInv == ASSUME BrainInv, NEW p \in Processes, AddVector(p) PROVE BrainInv'
<1>1. PICK t \in thoughts :
        /\ t.id = current[p] /\ t.rowid \notin RowIds(vectors) /\ Insert(p, t.rowid)
        /\ stage[p] = "embedding"
  BY DEF AddVector
<1>2. BrainRows'
  BY <1>1, InsertRows DEF BrainInv, BrainRows, BrainTypeOK
<1>3. ASSUME ~met' PROVE BrainPairs'
  <2> DEFINE new == [rowid |-> t.rowid, id |-> current[p]]
  <2>1. /\ vectors' = vectors \cup {new} /\ known' = known \cup {current[p]}
        /\ stage' = [stage EXCEPT ![p] = "idle"] /\ current' = [current EXCEPT ![p] = 0]
        /\ UNCHANGED <<thoughts, met>>
    BY <1>1 DEF Insert
  <2>2. new.id = current[p] /\ new.rowid = t.rowid /\ t.id = current[p]
    BY <1>1
  <2> HIDE DEF new
  <2>3. BrainPairs
    BY <1>3, <2>1 DEF BrainInv
  <2>4. (\A v \in vectors : \E s \in thoughts : s.id = v.id /\ s.rowid = v.rowid)'
    BY <2>1, <2>2, <2>3 DEF BrainPairs
  <2>5. (\A i \in known : \E v \in vectors : v.id = i)'
    BY <2>1, <2>2, <2>3 DEF BrainPairs
  <2>6. ASSUME NEW q \in Processes, stage'[q] # "idle"
        PROVE  (\E s \in thoughts' : s.id = current'[q]) /\ \A v \in vectors' : v.id # current'[q]
    <3>1. q # p /\ current'[q] = current[q] /\ stage[q] # "idle"
      BY <2>1, <2>6 DEF BrainInv, BrainRows, BrainTypeOK
    <3>2. current[q] # current[p]
      BY <3>1 DEF BrainInv, BrainRows
    <3> QED
      BY <2>1, <2>2, <2>3, <3>1, <3>2 DEF BrainPairs
  <2> QED
    BY <2>4, <2>5, <2>6 DEF BrainPairs
<1> QED
  BY <1>2, <1>3 DEF BrainInv

\* Without a deletion in between there is no orphan.
LEMMA AddOrphanInv == ASSUME BrainInv, NEW p \in Processes, AddOrphan(p) PROVE BrainInv'
<1>1. /\ stage[p] = "embedding" /\ current[p] \notin {t.id : t \in thoughts}
      /\ \E k \in {Highest(RowIds(vectors)), highest} : Insert(p, k + 1)
  BY DEF AddOrphan
<1>2. PICK k \in {Highest(RowIds(vectors)), highest} : Insert(p, k + 1)
  BY <1>1
<1>3. Highest(RowIds(vectors)) \in Nat /\ highest \in Nat
  <2>1. RowIds(vectors) \in SUBSET Nat /\ highest \in Nat /\ \A n \in RowIds(vectors) : n <= highest
    BY DEF BrainInv, BrainRows, BrainTypeOK, RowIds
  <2>2. CASE RowIds(vectors) = {}
    BY <2>1, <2>2 DEF Highest
  <2>3. CASE RowIds(vectors) # {}
    <3>1. Highest(RowIds(vectors)) \in RowIds(vectors)
      BY ONLY <2>1, <2>3, HighestOfBounded
    <3> QED
      BY <2>1, <3>1
  <2> QED
    BY <2>1, <2>2, <2>3
<1>4. k + 1 \in Nat \ {0}
  BY <1>3
<1>5. BrainRows'
  BY <1>1, <1>2, <1>4, InsertRows DEF BrainInv
<1>6. met
  BY <1>1 DEF BrainInv, BrainPairs
<1>7. met'
  BY <1>2, <1>6 DEF Insert
<1> QED
  BY <1>5, <1>7 DEF BrainInv

\* CaptureFails (capture()) keeps the invariant.
LEMMA CaptureFailsInv == ASSUME BrainInv, NEW p \in Processes, CaptureFails(p) PROVE BrainInv'
<1>1. /\ stage[p] = "embedding" /\ stage' = [stage EXCEPT ![p] = "undo"]
      /\ UNCHANGED <<thoughts, vectors, highest, captured, current, known, deleted, met>>
  BY DEF CaptureFails
<1>2. BrainTypeOK'
  BY <1>1 DEF BrainInv, BrainRows, BrainTypeOK
<1>3. \A q \in Processes : stage'[q] = "idle" <=> stage[q] = "idle"
  BY <1>1 DEF BrainInv, BrainRows, BrainTypeOK
<1>4. BrainRows'
  BY <1>1, <1>2, <1>3 DEF BrainInv, BrainRows
<1>5. ~met' => BrainPairs'
  BY <1>1, <1>3 DEF BrainInv, BrainPairs
<1> QED
  BY <1>4, <1>5 DEF BrainInv

\* A capture is over: its process has failed or died, and the thought stays, or
\* goes, without a vector.
LEMMA GiveUp ==
  ASSUME BrainInv, NEW p \in Processes, stage[p] # "idle",
         thoughts' \in {thoughts, {t \in thoughts : t.id # current[p]}},
         stage' = [stage EXCEPT ![p] = "idle"], current' = [current EXCEPT ![p] = 0],
         UNCHANGED <<vectors, highest, captured, known, deleted, met>>
  PROVE  BrainInv'
<1>1. thoughts' \subseteq thoughts /\ \A t \in thoughts : t.id # current[p] => t \in thoughts'
  OBVIOUS
<1>2. \A q \in Processes : current'[q] = IF q = p THEN 0 ELSE current[q]
  BY DEF BrainInv, BrainRows, BrainTypeOK
<1>3. \A q \in Processes : stage'[q] = IF q = p THEN "idle" ELSE stage[q]
  BY DEF BrainInv, BrainRows, BrainTypeOK
<1>4. BrainTypeOK'
  BY <1>1 DEF BrainInv, BrainRows, BrainTypeOK
<1>5. BrainRows'
  <2>1. 0 \notin known
    BY DEF BrainInv, BrainRows, BrainTypeOK
  <2> QED
    BY <1>1, <1>2, <1>3, <1>4, <2>1 DEF BrainInv, BrainRows
<1>6. ASSUME ~met' PROVE BrainPairs'
  <2>1. BrainPairs
    BY <1>6 DEF BrainInv
  <2>2. \A v \in vectors : v.id # current[p]
    BY <2>1 DEF BrainPairs
  <2>3. (\A v \in vectors : \E t \in thoughts : t.id = v.id /\ t.rowid = v.rowid)'
    BY <1>1, <2>1, <2>2 DEF BrainPairs
  <2>4. \A q \in Processes : q # p /\ stage[q] # "idle" => current[q] # current[p]
    BY DEF BrainInv, BrainRows
  <2>5. \A q \in Processes : stage'[q] # "idle" =>
          (\E t \in thoughts' : t.id = current'[q]) /\ \A v \in vectors' : v.id # current'[q]
    BY <1>1, <1>2, <1>3, <2>1, <2>4 DEF BrainPairs
  <2> QED
    BY <2>1, <2>3, <2>5 DEF BrainPairs
<1> QED
  BY <1>5, <1>6 DEF BrainInv

\* A deletion that meets no capture takes the thought and its vector.
LEMMA DeleteInv == ASSUME BrainInv, NEW t \in thoughts, Delete(t) PROVE BrainInv'
<1>1. /\ vectors' = {v \in vectors : v.rowid # t.rowid} /\ thoughts' = thoughts \ {t}
      /\ known' = known \ {t.id} /\ deleted' = deleted \cup {t.id}
      /\ met' = (met \/ \E p \in Processes : current[p] = t.id)
      /\ UNCHANGED <<highest, captured, stage, current>>
  BY DEF Delete
<1>2. t.id \in 1 .. captured
  BY DEF BrainInv, BrainRows, BrainTypeOK
<1>3. BrainTypeOK'
  <2>1. met' \in BOOLEAN
    BY <1>1
  <2> QED
    BY <1>1, <1>2, <2>1 DEF BrainInv, BrainRows, BrainTypeOK
<1>4. BrainRows'
  BY <1>1, <1>3 DEF BrainInv, BrainRows
<1>5. ASSUME ~met' PROVE BrainPairs'
  <2>1. BrainPairs /\ \A p \in Processes : current[p] # t.id
    BY <1>1, <1>5 DEF BrainInv
  <2>2. \A s \in thoughts : s # t => s.id # t.id /\ s.rowid # t.rowid
    BY DEF BrainInv, BrainRows
  <2>3. ASSUME NEW v \in vectors' PROVE \E s \in thoughts' : s.id = v.id /\ s.rowid = v.rowid
    <3>1. v \in vectors /\ v.rowid # t.rowid
      BY <1>1
    <3> QED
      BY <1>1, <2>1, <3>1 DEF BrainPairs
  <2>4. ASSUME NEW i \in known' PROVE \E v \in vectors' : v.id = i
    <3>1. PICK v \in vectors : v.id = i /\ i # t.id
      BY <1>1, <2>1 DEF BrainPairs
    <3>2. PICK s \in thoughts : s.id = v.id /\ s.rowid = v.rowid
      BY <2>1 DEF BrainPairs
    <3> QED
      BY <1>1, <2>2, <3>1, <3>2
  <2>5. ASSUME NEW q \in Processes, stage'[q] # "idle"
        PROVE  (\E s \in thoughts' : s.id = current'[q]) /\ \A v \in vectors' : v.id # current'[q]
    BY <1>1, <2>1, <2>5 DEF BrainPairs
  <2> QED
    BY <2>3, <2>4, <2>5 DEF BrainPairs
<1> QED
  BY <1>4, <1>5 DEF BrainInv

\* No step of the brain leaves its invariant.
LEMMA BrainStep == BrainInv /\ [BrainNext]_brainVars => BrainInv'
<1> SUFFICES ASSUME BrainInv, [BrainNext]_brainVars PROVE BrainInv'
  OBVIOUS
<1>1. ASSUME NEW p \in Processes, Capture(p) PROVE BrainInv'
  BY <1>1, CaptureInv
<1>2. ASSUME NEW p \in Processes, AddVector(p) PROVE BrainInv'
  BY <1>2, AddVectorInv
<1>3. ASSUME NEW p \in Processes, AddOrphan(p) PROVE BrainInv'
  BY <1>3, AddOrphanInv
<1>4. ASSUME NEW p \in Processes, CaptureFails(p) PROVE BrainInv'
  BY <1>4, CaptureFailsInv
<1>5. ASSUME NEW p \in Processes, Undo(p) PROVE BrainInv'
  BY <1>5, GiveUp DEF Undo
<1>6. ASSUME NEW p \in Processes, Die(p) PROVE BrainInv'
  BY <1>6, GiveUp DEF Die
<1>7. ASSUME NEW t \in thoughts, Delete(t) PROVE BrainInv'
  BY <1>7, DeleteInv
<1>8. CASE UNCHANGED brainVars
  BY <1>8 DEF brainVars, BrainInv, BrainRows, BrainPairs, BrainTypeOK
<1> QED
  BY <1>1, <1>2, <1>3, <1>4, <1>5, <1>6, <1>7, <1>8 DEF BrainNext

\* The invariant has the property in it.
LEMMA BrainInvImplies == BrainInv => BrainConsistent
<1> SUFFICES ASSUME BrainInv, ~met PROVE BrainConsistent
  BY DEF BrainConsistent
<1>1. BrainPairs
  BY DEF BrainInv
<1>2. ASSUME NEW m \in Matches PROVE m.thought.id = m.vector.id
  <2>1. m.vector \in vectors /\ m.thought \in thoughts /\ m.vector.rowid = m.thought.rowid
    BY DEF Matches
  <2> QED
    BY <1>1, <2>1 DEF BrainPairs, BrainInv, BrainRows
<1>3. RowIds(vectors) \subseteq RowIds(thoughts)
  BY <1>1 DEF BrainPairs, RowIds
<1>4. ASSUME NEW i \in known PROVE \E m \in Matches : m.thought.id = i
  <2>1. PICK v \in vectors : v.id = i
    BY <1>1 DEF BrainPairs
  <2>2. PICK t \in thoughts : t.id = v.id /\ t.rowid = v.rowid
    BY <1>1 DEF BrainPairs
  <2>3. [vector |-> v, thought |-> t] \in Matches
    BY <2>2 DEF Matches
  <2> QED
    BY <2>1, <2>2, <2>3
<1> QED
  BY <1>2, <1>3, <1>4 DEF BrainConsistent

\* Thoughts and vectors are rows of numbers, for any number of processes and
\* thoughts.
THEOREM BrainTypeCorrect == BrainSpec => []BrainTypeOK
<1>1. BrainInv => BrainTypeOK
  BY DEF BrainInv, BrainRows
<1> QED
  BY <1>1, BrainInitInv, BrainStep, PTL DEF BrainSpec

\* Captures, failures, deaths of processes and deletions leave the vectors those
\* of the thoughts, unless a deletion has met a capture (capture(), delete() and
\* search() of shell.helpers.brain).
THEOREM BrainCorrect == BrainSpec => []BrainConsistent
BY BrainInitInv, BrainStep, BrainInvImplies, PTL DEF BrainSpec

----------------------------------------------------------------------------
(* The sessions of interactive agents *)

\* As long as calls do not overlap: at most one is under way, and a use of tools
\* has its results, unless it is the last and the tools are running.
OneCall == \A c, d \in Callers : call[c] # "none" /\ call[d] # "none" => c = d

Resulted(i) ==
  \/ i < Len(history) /\ history[i + 1] = "tool_result"
  \/ i = Len(history) /\ \E c \in Callers : call[c] = "tools"

SessionInv ==
  /\ SessionTypeOK
  /\ ~overlapped =>
       /\ OneCall
       /\ \A i \in 1 .. Len(history) : history[i] = "tool_use" => Resulted(i)

\* A session that has just been created satisfies the invariant.
LEMMA SessionInitInv == SessionInit => SessionInv
<1> SUFFICES ASSUME SessionInit PROVE SessionInv
  OBVIOUS
<1>1. history = <<>> /\ history \in Seq(Contents) /\ Len(history) = 0
  BY DEF SessionInit
<1>2. SessionTypeOK
  BY <1>1 DEF SessionInit, SessionTypeOK
<1>3. \A c \in Callers : call[c] = "none"
  BY DEF SessionInit
<1> QED
  BY <1>1, <1>2, <1>3 DEF SessionInv, OneCall

\* A step of a call that appends at most one message; the results of tools when
\* they are awaited.
LEMMA ProgressInv ==
  ASSUME SessionInv, NEW c \in Callers, NEW from \in {"created", "request", "waiting", "tools"},
         NEW to \in {"none", "request", "waiting", "tools"}, NEW m \in Contents,
         NEW appended \in {<<>>, <<m>>}, Progress(c, from, to, appended),
         (from = "tools" /\ appended = <<"tool_result">>)
           \/ (from # "tools" /\ (appended = <<"tool_use">> <=> to = "tools"))
  PROVE  SessionInv'
<1>1. /\ call[c] = from /\ call' = [call EXCEPT ![c] = to] /\ history' = history \o appended
      /\ UNCHANGED <<created, overlapped>>
  BY DEF Progress
<1>2. SessionTypeOK'
  <2>1. <<>> \in Seq(Contents) /\ <<m>> \in Seq(Contents)
    BY m \in Contents
  <2>2. history' \in Seq(Contents)
    <3>1. appended \in Seq(Contents) /\ history \in Seq(Contents)
      BY <2>1 DEF SessionInv, SessionTypeOK
    <3> QED
      BY <1>1, <3>1
  <2> QED
    BY <1>1, <2>2 DEF SessionInv, SessionTypeOK
<1>3. \A d \in Callers : call'[d] = IF d = c THEN to ELSE call[d]
  BY <1>1 DEF SessionInv, SessionTypeOK
<1>4. ASSUME ~overlapped' PROVE OneCall' /\ \A i \in 1 .. Len(history') : history'[i] = "tool_use" => Resulted(i)'
  <2>1. OneCall /\ \A i \in 1 .. Len(history) : history[i] = "tool_use" => Resulted(i)
    BY <1>1, <1>4 DEF SessionInv
  <2>2. \A d \in Callers : d # c => call[d] = "none"
    BY <1>1, <2>1 DEF OneCall
  <2>3. OneCall'
    BY <1>3, <2>2 DEF OneCall
  <2>4. history \in Seq(Contents) /\ Len(history) \in Nat
    BY DEF SessionInv, SessionTypeOK
  <2>5. CASE appended = <<>>
    <3>1. history' = history /\ from # "tools" /\ to # "tools"
      BY <1>1, <2>4, <2>5
    <3>2. \A d \in Callers : call[d] # "tools"
      BY <1>1, <2>2, <3>1
    <3> QED
      BY <2>1, <2>3, <3>1, <3>2 DEF Resulted
  <2>6. CASE appended = <<m>>
    <3>1. /\ Len(history') = Len(history) + 1 /\ history'[Len(history) + 1] = m
          /\ \A i \in 1 .. Len(history) : history'[i] = history[i]
      BY <1>1, <2>4, <2>6
    <3>2. ASSUME NEW i \in 1 .. Len(history'), history'[i] = "tool_use" PROVE Resulted(i)'
      <4>1. CASE i = Len(history')
        <5>1. m = "tool_use"
          BY <2>4, <3>1, <3>2, <4>1
        <5>2. appended = <<"tool_use">> /\ <<"tool_use">> # <<"tool_result">>
          BY <2>6, <5>1
        <5>3. to = "tools"
          BY <5>2
        <5> QED
          BY <1>3, <4>1, <5>3 DEF Resulted
      <4>2. CASE i < Len(history)
        BY <2>1, <2>4, <3>1, <3>2, <4>2 DEF Resulted
      <4>3. CASE i = Len(history)
        <5>1. i \in 1 .. Len(history) /\ history[i] = "tool_use"
          BY <2>4, <3>1, <3>2, <4>3
        <5>2. \E d \in Callers : call[d] = "tools"
          BY <2>1, <2>4, <4>3, <5>1 DEF Resulted
        <5>3. from = "tools"
          BY <1>1, <2>2, <5>2
        <5>4. m = "tool_result"
          BY <2>6, <5>3
        <5> QED
          BY <2>4, <3>1, <4>3, <5>4 DEF Resulted
      <4> QED
        BY <2>4, <3>1, <4>1, <4>2, <4>3
    <3> QED
      BY <2>3, <3>2
  <2> QED
    BY <2>5, <2>6
<1> QED
  BY <1>2, <1>4 DEF SessionInv

\* No step of a session leaves its invariant.
LEMMA SessionStep == SessionInv /\ [SessionNext]_sessionVars => SessionInv'
<1> SUFFICES ASSUME SessionInv, [SessionNext]_sessionVars PROVE SessionInv'
  OBVIOUS
<1>1. ASSUME NEW c \in Callers, CreateSession(c) PROVE SessionInv'
  <2>1. /\ call[c] = "none" /\ call' = [call EXCEPT ![c] = "created"] /\ created' = TRUE
        /\ history' \in {history, <<>>, <<"user">>}
        /\ overlapped' = (overlapped \/ \E d \in Callers : call[d] # "none")
    BY <1>1 DEF CreateSession
  <2>2. SessionTypeOK'
    <3>1. <<>> \in Seq(Contents) /\ <<"user">> \in Seq(Contents)
      BY DEF Contents
    <3>2. history' \in Seq(Contents)
      BY <2>1, <3>1 DEF SessionInv, SessionTypeOK
    <3>3. overlapped' \in BOOLEAN
      BY <2>1
    <3> QED
      BY <2>1, <3>2, <3>3 DEF SessionInv, SessionTypeOK
  <2>3. ASSUME ~overlapped' PROVE OneCall' /\ \A i \in 1 .. Len(history') : history'[i] = "tool_use" => Resulted(i)'
    <3>1. ~overlapped /\ \A d \in Callers : call[d] = "none"
      BY <2>1, <2>3
    <3>2. OneCall'
      BY <2>1, <3>1 DEF OneCall, SessionInv, SessionTypeOK
    <3>3. \A i \in 1 .. Len(history) : history[i] = "tool_use" =>
            i < Len(history) /\ history[i + 1] = "tool_result"
      BY <3>1 DEF SessionInv, Resulted
    <3>4. CASE history' = history
      BY <3>2, <3>3, <3>4 DEF Resulted
    <3>5. CASE history' \in {<<>>, <<"user">>}
      <4>1. \A i \in 1 .. Len(history') : history'[i] # "tool_use"
        BY <3>5
      <4> QED
        BY <3>2, <4>1
    <3> QED
      BY <2>1, <3>4, <3>5
  <2> QED
    BY <2>2, <2>3 DEF SessionInv
<1>2. ASSUME NEW c \in Callers, AddMessage(c) PROVE SessionInv'
  <2>1. PICK m \in {"user", "empty"} : Progress(c, "created", "request", <<m>>)
    BY <1>2 DEF AddMessage
  <2>2. m \in Contents /\ <<m>> # <<"tool_use">>
    BY DEF Contents
  <2> QED
    BY <2>1, <2>2, ProgressInv
<1>3. ASSUME NEW c \in Callers, Request(c) PROVE SessionInv'
  <2>1. PICK to \in {"none", "waiting"} : Progress(c, "request", to, <<>>)
    BY <1>3 DEF Request
  <2>2. "user" \in Contents /\ <<>> # <<"tool_use">>
    BY DEF Contents
  <2> QED
    BY <2>1, <2>2, ProgressInv
<1>4. ASSUME NEW c \in Callers, Respond(c) PROVE SessionInv'
  <2>1. PICK got \in {<<"assistant">>, <<"empty">>, <<>>} : Progress(c, "waiting", "none", got)
    BY <1>4 DEF Respond
  <2>2. PICK m \in Contents : got \in {<<>>, <<m>>}
    BY DEF Contents
  <2>3. got # <<"tool_use">>
    OBVIOUS
  <2> QED
    BY <2>1, <2>2, <2>3, ProgressInv
<1>5. ASSUME NEW c \in Callers, UseTools(c) PROVE SessionInv'
  <2>1. Progress(c, "waiting", "tools", <<"tool_use">>)
    BY <1>5 DEF UseTools
  <2>2. "tool_use" \in Contents
    BY DEF Contents
  <2> QED
    BY <2>1, <2>2, ProgressInv
<1>6. ASSUME NEW c \in Callers, RunTools(c) PROVE SessionInv'
  <2>1. Progress(c, "tools", "request", <<"tool_result">>)
    BY <1>6 DEF RunTools
  <2>2. "tool_result" \in Contents
    BY DEF Contents
  <2> QED
    BY <2>1, <2>2, ProgressInv
<1>7. CASE Restart
  <2>1. /\ created' = FALSE /\ overlapped' = FALSE /\ history' = <<>>
        /\ call' = [c \in Callers |-> "none"]
    BY <1>7 DEF Restart
  <2>2. history' \in Seq(Contents) /\ Len(history') = 0
    BY <2>1
  <2>3. SessionTypeOK'
    BY <2>1, <2>2 DEF SessionTypeOK
  <2>4. OneCall'
    BY <2>1 DEF OneCall
  <2> QED
    BY <2>2, <2>3, <2>4 DEF SessionInv
<1>8. CASE UNCHANGED sessionVars
  BY <1>8 DEF sessionVars, SessionInv, SessionTypeOK, OneCall, Resulted
<1> QED
  BY <1>1, <1>2, <1>3, <1>4, <1>5, <1>6, <1>7, <1>8 DEF SessionNext

\* The invariant has the property in it.
LEMMA SessionInvImplies == SessionInv => SessionUsable
<1> SUFFICES ASSUME SessionInv, ~overlapped, \A i \in DOMAIN history : history[i] # "empty",
                    \A c \in Callers : call[c] # "tools"
             PROVE  Accepts(history)
  BY DEF SessionUsable
<1>1. DOMAIN history = 1 .. Len(history)
  BY DEF SessionInv, SessionTypeOK
<1> QED
  BY <1>1 DEF SessionInv, Resulted, Accepts

\* For any number of calls of any length, a history without empty messages is
\* accepted unless two calls overlapped (create_session(), send_to_session() and
\* _send_anthropic_session() of backends).
THEOREM SessionCorrect == SessionSpec => []SessionUsable
BY SessionInitInv, SessionStep, SessionInvImplies, PTL DEF SessionSpec

----------------------------------------------------------------------------
(* An invocation of an agent *)

\* What the runner has found out, and that only the runner it watches over
\* has an agent.
Reported ==
  /\ agent = "running" => runner = "watching"
  /\ runner = "none" => execution = 0
  /\ runner = "starting" => execution < MaxExecutions
  /\ result # "none" <=> runner = "exited"
  /\ runner = "exited" =>
       /\ ~Again
       /\ result = "succeeded" <=> ReturnCode = "zero"
       /\ result = "timeout" <=> ReturnCode = "124"

\* How far the emitter has come: nothing is emitted twice, since no emission
\* begins before the last one has saved its offset, and the last one begins when
\* the runner is gone.
Emitted ==
  /\ invoker = "ready" <=> runner = "none"
  /\ final => Gone
  /\ \A i \in 1 .. Len(events) : events[i] = i
  /\ invoker \in {"ready", "polling", "reading"} => Len(events) = offset
  /\ invoker = "emitting" =>
       /\ Len(events) + 1 = next /\ offset <= upto /\ next <= upto + 1
       /\ final => upto = lines
  /\ invoker \in {"judging", "done"} => final /\ Len(events) = lines
  /\ invoker = "done" => outcome = IF result = "none" THEN "failed" ELSE result

RunnerInv == RunnerTypeOK /\ Reported /\ Emitted

\* Before an agent is invoked the invariant holds.
LEMMA RunnerInitInv == RunnerInit => RunnerInv
<1> SUFFICES ASSUME RunnerInit PROVE RunnerInv
  OBVIOUS
<1>1. events = <<>> /\ events \in Seq(1 .. lines) /\ Len(events) = 0 /\ lines = 0 /\ offset = 0
  BY DEF RunnerInit
<1>2. RunnerTypeOK
  <2>1. RunnerTypes
    <3>1. runner = "none" /\ timed = FALSE /\ marked = FALSE /\ result = "none"
      BY DEF RunnerInit
    <3>2. execution \in 0 .. MaxExecutions
      BY RunnerAssumption DEF RunnerInit
    <3> QED
      BY <3>1, <3>2 DEF RunnerTypes
  <2>2. AgentTypes
    BY DEF RunnerInit, AgentTypes
  <2>3. LineTypes
    <3>1. upto = 0 /\ next = 1
      BY DEF RunnerInit
    <3> QED
      BY <1>1, <3>1 DEF LineTypes
  <2> QED
    BY <2>1, <2>2, <2>3 DEF RunnerInit, RunnerTypeOK
<1>3. Reported
  BY DEF RunnerInit, Reported
<1>4. Emitted
  BY <1>1 DEF RunnerInit, Emitted
<1> QED
  BY <1>2, <1>3, <1>4 DEF RunnerInv

\* What the runner and the agent do while the runner is not gone.
LEMMA EmittedStays ==
  ASSUME RunnerTypeOK, Emitted, UNCHANGED invokerState, runner # "none", ~Gone, runner' # "none",
         lines' \in Nat, lines <= lines'
  PROVE  /\ Emitted' /\ LineTypes'
         /\ (invoker \in {"ready", "polling", "reading", "emitting", "judging", "done", "raised"})'
         /\ (final \in BOOLEAN)'
         /\ (outcome \in {"none", "succeeded", "failed", "timeout"})'
<1>1. ~final /\ invoker \notin {"ready", "judging", "done"}
  BY DEF Emitted
<1>2. UNCHANGED <<invoker, final, next, upto, offset, events, outcome>>
  BY DEF invokerState
<1>3. Emitted'
  BY <1>1, <1>2 DEF Emitted
<1>4. LineTypes'
  <2>1. LineTypes
    BY DEF RunnerTypeOK
  <2>2. 1 .. lines \subseteq 1 .. lines'
    BY <2>1 DEF LineTypes
  <2>3. events \in Seq(1 .. lines')
    BY <2>1, <2>2, SeqMonotonic DEF LineTypes
  <2>4. upto \in 0 .. lines' /\ offset \in 0 .. lines' /\ next \in Nat \ {0}
    <3>1. lines \in Nat /\ upto \in 0 .. lines /\ offset \in 0 .. lines /\ next \in Nat \ {0}
      BY <2>1 DEF LineTypes
    <3> QED
      BY ONLY <3>1, lines' \in Nat, lines <= lines'
  <2> QED
    BY <1>2, <2>3, <2>4 DEF LineTypes
<1> QED
  BY <1>2, <1>3, <1>4 DEF RunnerTypeOK

\* What the agent does, and time, keep the invariant.
LEMMA AgentStepInv == ASSUME RunnerInv, AgentStep \/ Elapse PROVE RunnerInv'
<1> DEFINE Same == UNCHANGED <<runner, execution, timed, marked, lines, result>> /\ UNCHANGED invokerState
           AgentOnly == Same /\ AgentTypes' /\ (agent = "running" \/ agent' = agent)
<1> USE DEF RunnerInv, RunnerTypeOK, AgentTypes
<1>1. AgentOnly
  <2>1. ASSUME NEW text \in {"plain", "marked"}, Write(text) PROVE AgentOnly
    BY <2>1 DEF Write, External, runnerState
  <2>2. ASSUME NEW code \in Codes, Exit(code) PROVE AgentOnly
    BY <2>2 DEF Exit, External, runnerState
  <2>3. CASE Touch
    BY <2>3 DEF Touch, External, runnerState
  <2>4. CASE Fork
    BY <2>4 DEF Fork, External, runnerState
  <2>5. CASE LeftoverEnds
    BY <2>5 DEF LeftoverEnds, External, runnerState
  <2>6. CASE Elapse
    BY <2>6 DEF Elapse, External, runnerState
  <2> QED
    BY <2>1, <2>2, <2>3, <2>4, <2>5, <2>6 DEF AgentStep
<1>2. UNCHANGED <<invoker, final, next, upto, offset, events, outcome, runner, execution, timed, marked, lines, result>>
  BY <1>1 DEF invokerState
<1>3. RunnerTypeOK'
  <2>1. RunnerTypes' /\ LineTypes'
    BY <1>2 DEF RunnerTypes, LineTypes
  <2> QED
    BY <1>1, <1>2, <2>1
<1>4. Reported'
  <2>1. CASE agent = "running"
    <3>1. runner' = "watching" /\ result' = "none"
      BY <1>2, <2>1 DEF Reported
    <3> QED
      BY <3>1 DEF Reported
  <2>2. CASE agent # "running"
    <3>1. agent' = agent
      BY <1>1, <2>2
    <3>2. ReturnCode' = ReturnCode /\ (Again <=> Again')
      BY <1>2, <3>1 DEF ReturnCode, Again, TransportFailed
    <3> QED
      BY <1>2, <3>1, <3>2 DEF Reported
  <2> QED
    BY <2>1, <2>2
<1>5. Emitted'
  BY <1>2 DEF Emitted, Gone
<1> QED
  BY <1>3, <1>4, <1>5

\* A step of the runner that does not report.
LEMMA NotYet ==
  ASSUME RunnerInv, UNCHANGED invokerState, runner # "none", ~Gone,
         runner' \in {"starting", "watching", "draining", "deciding", "raised"},
         RunnerTypes', AgentTypes', result' = result, lines' \in Nat, lines <= lines',
         agent' = "running" => runner' = "watching",
         runner' = "starting" => execution' < MaxExecutions
  PROVE  RunnerInv'
<1>1. result' = "none"
  BY DEF RunnerInv, Reported, Gone
<1>2. Reported'
  BY <1>1 DEF Reported
<1>3. runner' # "none"
  OBVIOUS
<1>4. /\ Emitted' /\ LineTypes'
      /\ (invoker \in {"ready", "polling", "reading", "emitting", "judging", "done", "raised"})'
      /\ (final \in BOOLEAN)'
      /\ (outcome \in {"none", "succeeded", "failed", "timeout"})'
  BY <1>3, EmittedStays DEF RunnerInv
<1> QED
  BY <1>2, <1>4 DEF RunnerInv, RunnerTypeOK

\* What the runner process does keeps the invariant (run_once(),
\* main_runner()).
LEMMA RunnerStepInv == ASSUME RunnerInv, RunnerStep PROVE RunnerInv'
<1>1. /\ lines \in Nat /\ execution \in Nat /\ MaxExecutions \in Nat
      /\ lines + 1 \in Nat /\ lines <= lines + 1 /\ lines + 2 \in Nat /\ lines <= lines + 2
  BY RunnerAssumption DEF RunnerInv, RunnerTypeOK, LineTypes, RunnerTypes
<1>2. RunnerTypes /\ AgentTypes /\ Reported
  BY DEF RunnerInv, RunnerTypeOK
<1>3. CASE StartExecution
  <2>1. /\ runner = "starting" /\ runner' = "watching" /\ execution' = execution + 1
        /\ agent' = "running" /\ timed' = FALSE /\ marked' = FALSE /\ lines' = lines + 1
        /\ UNCHANGED <<result, late, pipe, touched, leftover>> /\ UNCHANGED invokerState
    BY <1>3 DEF StartExecution, Observe
  <2>2. execution' \in 0 .. MaxExecutions
    BY <1>1, <1>2, <2>1 DEF Reported
  <2>3. RunnerTypes'
    BY <1>2, <2>1, <2>2 DEF RunnerTypes
  <2>4. AgentTypes'
    BY <1>2, <2>1 DEF AgentTypes
  <2> QED
    BY <1>1, <2>1, <2>3, <2>4, NotYet DEF Gone
<1>4. CASE CannotStart
  <2>1. /\ runner = "starting" /\ runner' = "raised"
        /\ UNCHANGED <<execution, timed, marked, lines, result, agent, late, pipe, touched, leftover>>
        /\ UNCHANGED invokerState
    BY <1>4 DEF CannotStart, agentState, invokerState
  <2>2. RunnerTypes' /\ AgentTypes' /\ agent' # "running"
    BY <1>2, <2>1 DEF RunnerTypes, AgentTypes, Reported
  <2> QED
    BY <1>1, <2>1, <2>2, NotYet DEF Gone
<1>5. CASE TimeOut
  <2>1. /\ runner = "watching" /\ runner' = "deciding" /\ timed' = TRUE
        /\ agent' = IF agent = "running" THEN "killed" ELSE agent
        /\ late' = FALSE /\ pipe' = "empty" /\ touched' = FALSE /\ leftover' = FALSE
        /\ lines' = lines + 1 /\ UNCHANGED <<execution, marked, result>> /\ UNCHANGED invokerState
    BY <1>5 DEF TimeOut, Observe, Closed
  <2>2. RunnerTypes'
    BY <1>2, <2>1 DEF RunnerTypes
  <2>3. AgentTypes' /\ agent' # "running"
    BY <1>2, <2>1 DEF AgentTypes
  <2> QED
    BY <1>1, <2>1, <2>2, <2>3, NotYet DEF Gone
<1>6. CASE SeeAlive
  <2>1. /\ runner = "watching" /\ lines' = lines + 1
        /\ UNCHANGED <<runner, execution, timed, marked, result, agent, late, pipe, touched, leftover>>
        /\ UNCHANGED invokerState
    BY <1>6 DEF SeeAlive, Observe, agentState, invokerState
  <2>2. RunnerTypes' /\ AgentTypes'
    BY <1>2, <2>1 DEF RunnerTypes, AgentTypes
  <2> QED
    BY <1>1, <2>1, <2>2, NotYet DEF Gone
<1>7. CASE SeeHeartbeat
  <2>1. /\ runner = "watching" /\ touched' = FALSE /\ lines' = lines + 2
        /\ UNCHANGED <<runner, execution, timed, marked, result, agent, late, pipe, leftover>>
        /\ UNCHANGED invokerState
    BY <1>7 DEF SeeHeartbeat, Observe, invokerState
  <2>2. RunnerTypes' /\ AgentTypes'
    BY <1>2, <2>1 DEF RunnerTypes, AgentTypes
  <2> QED
    BY <1>1, <2>1, <2>2, NotYet DEF Gone
<1>8. CASE SeeOutput
  <2>1. /\ runner = "watching" /\ marked' = (marked \/ pipe = "marked") /\ pipe' = "empty"
        /\ lines' = lines + 2 \/ lines' = lines
        /\ UNCHANGED <<runner, execution, timed, result, agent, late, touched, leftover>>
        /\ UNCHANGED invokerState
    BY <1>8 DEF SeeOutput, Observe, invokerState
  <2>2. marked' \in BOOLEAN
    BY <2>1
  <2>3. RunnerTypes' /\ AgentTypes'
    BY <1>2, <2>1, <2>2 DEF RunnerTypes, AgentTypes
  <2>4. lines' \in Nat /\ lines <= lines'
    BY <1>1, <2>1
  <2> QED
    BY <2>1, <2>3, <2>4, NotYet DEF Gone
<1>9. CASE SeeExit
  <2>1. /\ runner = "watching" /\ agent # "running" /\ runner' = "draining"
        /\ UNCHANGED <<execution, timed, marked, lines, result, agent, late, pipe, touched, leftover>>
        /\ UNCHANGED invokerState
    BY <1>9 DEF SeeExit, agentState, invokerState
  <2>2. RunnerTypes' /\ AgentTypes'
    BY <1>2, <2>1 DEF RunnerTypes, AgentTypes
  <2> QED
    BY <1>1, <2>1, <2>2, NotYet DEF Gone
<1>10. CASE Drain
  <2>1. /\ runner = "draining" /\ runner' = "deciding" /\ marked' = (marked \/ pipe = "marked")
        /\ late' = FALSE /\ pipe' = "empty" /\ touched' = FALSE /\ leftover' = FALSE
        /\ lines' = lines + 1 /\ UNCHANGED <<execution, timed, result, agent>>
        /\ UNCHANGED invokerState
    BY <1>10 DEF Drain, Observe, Closed, invokerState
  <2>2. marked' \in BOOLEAN
    BY <2>1
  <2>3. RunnerTypes'
    BY <1>2, <2>1, <2>2 DEF RunnerTypes
  <2>4. AgentTypes' /\ agent' # "running"
    BY <1>2, <2>1 DEF AgentTypes, Reported
  <2> QED
    BY <1>1, <2>1, <2>3, <2>4, NotYet DEF Gone
<1>11. CASE Retry
  <2>1. /\ runner = "deciding" /\ runner' = "starting" /\ execution < MaxExecutions
        /\ UNCHANGED <<execution, timed, marked, lines, result, agent, late, pipe, touched, leftover>>
        /\ UNCHANGED invokerState
    BY <1>11 DEF Retry, Again, agentState, invokerState
  <2>2. RunnerTypes' /\ AgentTypes' /\ agent' # "running"
    BY <1>2, <2>1 DEF RunnerTypes, AgentTypes, Reported
  <2> QED
    BY <1>1, <2>1, <2>2, NotYet DEF Gone
<1>12. CASE Report
  <2>1. /\ runner = "deciding" /\ ~Again /\ runner' = "exited"
        /\ result' = CASE ReturnCode = "124" -> "timeout" [] ReturnCode = "zero" -> "succeeded" [] OTHER -> "failed"
        /\ UNCHANGED <<execution, timed, marked, lines, agent, late, pipe, touched, leftover>>
        /\ UNCHANGED invokerState
    BY <1>12 DEF Report, agentState, invokerState
  <2>2. ReturnCode' = ReturnCode /\ (Again' <=> Again)
    BY <2>1 DEF ReturnCode, Again, TransportFailed
  <2>3. /\ result' \in {"succeeded", "failed", "timeout"}
        /\ result' = "succeeded" <=> ReturnCode = "zero"
        /\ result' = "timeout" <=> ReturnCode = "124"
    BY <2>1
  <2>4. RunnerTypes' /\ AgentTypes'
    BY <1>2, <2>1, <2>3 DEF RunnerTypes, AgentTypes
  <2>5. Reported'
    BY <1>2, <2>1, <2>2, <2>3 DEF Reported
  <2>6. /\ Emitted' /\ LineTypes'
        /\ (invoker \in {"ready", "polling", "reading", "emitting", "judging", "done", "raised"})'
        /\ (final \in BOOLEAN)'
        /\ (outcome \in {"none", "succeeded", "failed", "timeout"})'
    BY <1>1, <2>1, EmittedStays DEF RunnerInv, Gone
  <2> QED
    BY <2>4, <2>5, <2>6 DEF RunnerInv, RunnerTypeOK
<1> QED
  BY <1>3, <1>4, <1>5, <1>6, <1>7, <1>8, <1>9, <1>10, <1>11, <1>12 DEF RunnerStep

\* A step of the invoker leaves the runner as it is.
LEMMA InvokerOnly ==
  ASSUME RunnerInv, UNCHANGED <<runner, execution, timed, marked, lines, result>>, UNCHANGED agentState
  PROVE  Reported' /\ RunnerTypes' /\ AgentTypes' /\ Gone' = Gone
<1>1. UNCHANGED <<agent, late, pipe, touched, leftover>>
  BY DEF agentState
<1>2. ReturnCode' = ReturnCode /\ (Again' <=> Again)
  BY <1>1 DEF ReturnCode, Again, TransportFailed
<1>3. Reported'
  BY <1>1, <1>2 DEF RunnerInv, Reported
<1>4. RunnerTypes' /\ AgentTypes'
  BY <1>1 DEF RunnerInv, RunnerTypeOK, RunnerTypes, AgentTypes
<1> QED
  BY <1>3, <1>4 DEF Gone

\* What the invoker does, and the end of its emitter, keep the invariant
\* (invoke_full()).
LEMMA InvokerStepInv == ASSUME RunnerInv, InvokerStep \/ EmitterFails PROVE RunnerInv'
<1>1. UNCHANGED <<runner, execution, timed, marked, lines, result>> /\ UNCHANGED agentState
  BY DEF InvokerStep, EmitterFails, PollChild, ReadLines, EmitLine, SaveOffset, Judge, runnerState
<1>2. Reported' /\ RunnerTypes' /\ AgentTypes' /\ Gone' = Gone
  BY <1>1, InvokerOnly
<1>3. /\ lines \in Nat /\ upto \in 0 .. lines /\ offset \in 0 .. lines /\ next \in Nat \ {0}
      /\ events \in Seq(1 .. lines) /\ Len(events) \in Nat
      /\ final \in BOOLEAN /\ result \in {"none", "succeeded", "failed", "timeout"}
  BY DEF RunnerInv, RunnerTypeOK, LineTypes, RunnerTypes
<1>4. CASE PollChild
  <2>1. /\ invoker = "polling" /\ invoker' = "reading" /\ final' = Gone
        /\ UNCHANGED <<next, upto, offset, events, outcome>>
    BY <1>4 DEF PollChild
  <2>2. Emitted'
    BY <1>1, <1>2, <2>1 DEF RunnerInv, Emitted
  <2>3. RunnerTypeOK'
    <3>1. final' \in BOOLEAN /\ LineTypes'
      BY <1>1, <1>3, <2>1 DEF Gone, LineTypes
    <3> QED
      BY <1>2, <2>1, <3>1 DEF RunnerInv, RunnerTypeOK
  <2> QED
    BY <1>2, <2>2, <2>3 DEF RunnerInv
<1>5. CASE ReadLines
  <2>1. /\ invoker = "reading" /\ invoker' = "emitting" /\ next' = offset + 1 /\ upto' = lines
        /\ UNCHANGED <<final, offset, events, outcome>>
    BY <1>5 DEF ReadLines
  <2>2. offset <= lines /\ offset + 1 <= lines + 1 /\ offset + 1 \in Nat \ {0} /\ lines \in 0 .. lines
    BY <1>3
  <2>3. Len(events) = offset
    BY <2>1 DEF RunnerInv, Emitted
  <2>4. Emitted'
    BY <1>1, <1>2, <2>1, <2>2, <2>3 DEF RunnerInv, Emitted
  <2>5. LineTypes'
    BY <1>1, <1>3, <2>1, <2>2 DEF LineTypes
  <2> QED
    BY <1>2, <2>1, <2>4, <2>5 DEF RunnerInv, RunnerTypeOK
<1>6. CASE EmitLine
  <2>1. /\ invoker = "emitting" /\ next <= upto /\ events' = Append(events, next) /\ next' = next + 1
        /\ UNCHANGED <<invoker, final, upto, offset, outcome>>
    BY <1>6 DEF EmitLine
  <2>2. next = Len(events) + 1 /\ next \in 1 .. lines /\ next + 1 \in Nat \ {0} /\ next + 1 <= upto + 1
    BY <1>3, <2>1 DEF RunnerInv, Emitted
  <2>3. /\ events' \in Seq(1 .. lines) /\ Len(events') = Len(events) + 1
        /\ \A i \in 1 .. Len(events) : events'[i] = events[i]
        /\ events'[Len(events) + 1] = next
    BY <1>3, <2>1, <2>2, AppendProperties
  <2>4. \A i \in 1 .. Len(events') : events'[i] = i
    <3> TAKE i \in 1 .. Len(events')
    <3>1. CASE i \in 1 .. Len(events)
      BY <2>3, <3>1 DEF RunnerInv, Emitted
    <3>2. CASE i = Len(events) + 1
      BY <2>2, <2>3, <3>2
    <3> QED
      BY <1>3, <2>3, <3>1, <3>2
  <2>5. Len(events') + 1 = next'
    BY <2>1, <2>2, <2>3
  <2>6. Emitted'
    BY <1>1, <1>2, <2>1, <2>2, <2>4, <2>5 DEF RunnerInv, Emitted
  <2>7. LineTypes'
    BY <1>1, <1>3, <2>1, <2>2, <2>3 DEF LineTypes
  <2> QED
    BY <1>2, <2>1, <2>6, <2>7 DEF RunnerInv, RunnerTypeOK
<1>7. CASE SaveOffset
  <2>1. /\ invoker = "emitting" /\ next > upto /\ offset' = upto
        /\ invoker' = IF final THEN "judging" ELSE "polling"
        /\ UNCHANGED <<final, next, upto, events, outcome>>
    BY <1>7 DEF SaveOffset
  <2>2. Len(events) = upto
    BY <1>3, <2>1 DEF RunnerInv, Emitted
  <2>3. Emitted'
    BY <1>1, <1>2, <2>1, <2>2 DEF RunnerInv, Emitted, Gone
  <2>4. LineTypes'
    BY <1>1, <1>3, <2>1 DEF LineTypes
  <2> QED
    BY <1>2, <1>3, <2>1, <2>3, <2>4 DEF RunnerInv, RunnerTypeOK
<1>8. CASE Judge
  <2>1. /\ invoker = "judging" /\ invoker' = "done"
        /\ outcome' = IF result = "none" THEN "failed" ELSE result
        /\ UNCHANGED <<final, next, upto, offset, events>>
    BY <1>8 DEF Judge
  <2>2. Emitted'
    BY <1>1, <1>2, <2>1 DEF RunnerInv, Emitted
  <2>3. outcome' \in {"none", "succeeded", "failed", "timeout"}
    BY <1>3, <2>1
  <2>4. LineTypes'
    BY <1>1, <1>3, <2>1 DEF LineTypes
  <2> QED
    BY <1>2, <1>3, <2>1, <2>2, <2>3, <2>4 DEF RunnerInv, RunnerTypeOK
<1>9. CASE EmitterFails
  <2>1. /\ invoker \in {"reading", "emitting", "judging"} /\ invoker' = "raised"
        /\ UNCHANGED <<final, next, upto, offset, events, outcome>>
    BY <1>9 DEF EmitterFails
  <2>2. Emitted'
    BY <1>1, <1>2, <2>1 DEF RunnerInv, Emitted
  <2>3. LineTypes'
    BY <1>1, <1>3, <2>1 DEF LineTypes
  <2> QED
    BY <1>2, <1>3, <2>1, <2>2, <2>3 DEF RunnerInv, RunnerTypeOK
<1> QED
  BY <1>4, <1>5, <1>6, <1>7, <1>8, <1>9 DEF InvokerStep

\* The start of an invocation keeps the invariant (invoke_full()).
LEMMA InvokeInv == ASSUME RunnerInv, Invoke PROVE RunnerInv'
<1>1. /\ invoker = "ready" /\ invoker' = "polling" /\ runner' = "starting"
      /\ UNCHANGED <<execution, timed, marked, lines, result, final, next, upto, offset, events, outcome>>
      /\ UNCHANGED <<agent, late, pipe, touched, leftover>>
  BY DEF Invoke, agentState
<1>2. runner = "none"
  BY <1>1 DEF RunnerInv, Emitted
<1>3. execution < MaxExecutions /\ result = "none" /\ agent # "running" /\ ~Gone /\ final = FALSE
  BY <1>2, RunnerAssumption DEF RunnerInv, RunnerTypeOK, Reported, Emitted, Gone
<1>4. RunnerTypes' /\ AgentTypes' /\ LineTypes'
  BY <1>1 DEF RunnerInv, RunnerTypeOK, RunnerTypes, AgentTypes, LineTypes
<1>5. Reported'
  BY <1>1, <1>3 DEF Reported
<1>6. Emitted'
  BY <1>1, <1>3 DEF RunnerInv, Emitted
<1> QED
  BY <1>1, <1>4, <1>5, <1>6 DEF RunnerInv, RunnerTypeOK

\* No step of an invocation leaves its invariant.
LEMMA RunnerInvStep == RunnerInv /\ [RunnerNext]_runnerVars => RunnerInv'
<1> SUFFICES ASSUME RunnerInv, [RunnerNext]_runnerVars PROVE RunnerInv'
  OBVIOUS
<1>1. CASE AgentStep \/ Elapse
  BY <1>1, AgentStepInv
<1>2. CASE RunnerStep
  BY <1>2, RunnerStepInv
<1>3. CASE InvokerStep \/ EmitterFails
  BY <1>3, InvokerStepInv
<1>4. CASE Invoke
  BY <1>4, InvokeInv
<1>5. CASE UNCHANGED runnerVars
  <2>1. /\ UNCHANGED <<runner, execution, timed, marked, lines, result>> /\ UNCHANGED agentState
        /\ UNCHANGED <<invoker, final, next, upto, offset, events, outcome>>
    BY <1>5 DEF runnerVars, runnerState, invokerState
  <2>2. Reported' /\ RunnerTypes' /\ AgentTypes' /\ Gone' = Gone
    BY <2>1, InvokerOnly
  <2>3. Emitted' /\ LineTypes'
    BY <2>1, <2>2 DEF RunnerInv, RunnerTypeOK, Emitted, LineTypes
  <2> QED
    BY <2>1, <2>2, <2>3 DEF RunnerInv, RunnerTypeOK
<1> QED
  BY <1>1, <1>2, <1>3, <1>4, <1>5 DEF RunnerNext

\* The invariant has the property in it.
LEMMA RunnerInvImplies == RunnerInv => OutcomeHonest
<1> SUFFICES ASSUME RunnerInv PROVE OutcomeHonest
  OBVIOUS
<1>1. DOMAIN events = 1 .. Len(events) /\ \A i \in 1 .. Len(events) : events[i] = i
  BY DEF RunnerInv, RunnerTypeOK, LineTypes, Emitted
<1>2. ASSUME invoker = "done"
      PROVE  /\ Len(events) = lines
             /\ agent # "running"
             /\ (outcome = "succeeded") <=> (runner = "exited" /\ agent = "zero" /\ ~timed)
             /\ outcome = "timeout" => timed \/ agent = "124"
             /\ runner = "exited" /\ outcome # "succeeded" /\ TransportFailed => execution = MaxExecutions
  <2>1. /\ Gone /\ Len(events) = lines
        /\ outcome = IF result = "none" THEN "failed" ELSE result
    BY <1>2 DEF RunnerInv, Emitted
  <2>2. agent # "running"
    BY <2>1 DEF RunnerInv, Reported, Gone
  <2>3. CASE runner = "exited"
    <3>1. /\ ~Again /\ result # "none" /\ outcome = result
          /\ result = "succeeded" <=> ReturnCode = "zero"
          /\ result = "timeout" <=> ReturnCode = "124"
      BY <2>1, <2>3 DEF RunnerInv, Reported
    <3>2. (ReturnCode = "zero" <=> agent = "zero" /\ ~timed) /\ (ReturnCode = "124" => timed \/ agent = "124")
      BY DEF ReturnCode
    <3>3. outcome # "succeeded" /\ TransportFailed => execution = MaxExecutions
      <4>1. execution \in Nat /\ MaxExecutions \in Nat /\ execution <= MaxExecutions
        BY RunnerAssumption DEF RunnerInv, RunnerTypeOK, RunnerTypes
      <4>2. ReturnCode = "zero" \/ ~TransportFailed \/ ~(execution < MaxExecutions)
        BY <3>1 DEF Again
      <4> QED
        BY <3>1, <4>1, <4>2
    <3> QED
      BY <2>1, <2>2, <2>3, <3>1, <3>2, <3>3
  <2>4. CASE runner # "exited"
    <3>1. outcome = "failed"
      BY <2>1, <2>4 DEF RunnerInv, Reported
    <3> QED
      BY <2>1, <2>2, <2>4, <3>1
  <2> QED
    BY <2>3, <2>4
<1> QED
  BY <1>1, <1>2 DEF OutcomeHonest

\* Each observation becomes one event, and the outcome is that of the last
\* execution, for any number of executions and observations (run_once() and
\* main_runner() of sawmill.agent, invoke_full(), and _emit_liveness() of
\* sawmill.run_state).
THEOREM RunnerCorrect == RunnerSpec => []OutcomeHonest
BY RunnerInitInv, RunnerInvStep, RunnerInvImplies, PTL DEF RunnerSpec

----------------------------------------------------------------------------
(* The runs as others see them *)

\* How far a run has come, and what it has left so far.
RunPaths ==
  \A r \in Runs :
    /\ process[r] \in {"none", "scanning", "marking"} => logged[r] = "none"
    /\ process[r] \in {"none", "scanning", "marking", "new"} => orch[r] = Never
    /\ process[r] \in {"new", "working", "quiet"} => logged[r] = "running"
    /\ process[r] \in {"working", "quiet"} => orch[r] # Never
    /\ process[r] = "working" => orch[r] <= 1
    /\ process[r] = "marking" => cursor[r] \in Runs

\* Without an excuse: one orchestrator at most, whose run is written down as
\* running, and a scan marks nobody who lives or has ended.
OneAlive == \A q, r \in Runs : Living(q) /\ Living(r) => q = r

RunNotes ==
  \A r \in Runs :
    /\ process[r] \in {"new", "working", "quiet"} => written[r] = "running"
    /\ process[r] = "quiet" => orch[r] <= InterruptedAfter
    /\ logged[r] = "ended" => written[r] = "ended"
    /\ process[r] = "marking" => logged[cursor[r]] = "running" /\ ~Living(cursor[r])

WatchInv == WatchTypeOK /\ RunPaths /\ (~excused => OneAlive /\ RunNotes)

\* What is assumed of the limits of heartbeats.
LEMMA WatchNumbers ==
  /\ MaxRuns \in Nat /\ InterruptedAfter \in Nat /\ ActiveAfter \in Nat
  /\ 1 <= InterruptedAfter /\ InterruptedAfter <= ActiveAfter
  /\ Never \in Nat /\ Never = ActiveAfter + 2
BY WatchAssumption DEF Never

\* Before any launch the invariant holds.
LEMMA WatchInitInv == WatchInit => WatchInv
<1> SUFFICES ASSUME WatchInit PROVE WatchInv
  OBVIOUS
<1>1. \A r \in Runs : /\ process[r] = "none" /\ cursor[r] = 1 /\ logged[r] = "none" /\ written[r] = "none"
                      /\ orch[r] = Never
  BY DEF WatchInit
<1>2. WatchTypeOK
  <2>1. 1 \in 1 .. MaxRuns + 1
    BY WatchNumbers
  <2>2. /\ process \in [Runs -> {"none", "scanning", "marking", "new", "working", "quiet", "gone"}]
        /\ logged \in [Runs -> {"none", "running", "illegal", "ended"}]
        /\ written \in [Runs -> {"none", "running", "interrupted", "ended"}]
    BY DEF WatchInit
  <2>3. cursor \in [Runs -> 1 .. MaxRuns + 1] /\ orch \in [Runs -> Ages \cup {Never}] /\ worker \in [Runs -> Ages \cup {Never}]
    BY <2>1 DEF WatchInit
  <2> QED
    BY <2>2, <2>3 DEF WatchInit, WatchTypeOK
<1>3. RunPaths
  BY <1>1 DEF RunPaths
<1>4. OneAlive /\ RunNotes
  BY <1>1 DEF OneAlive, RunNotes, Living
<1> QED
  BY <1>2, <1>3, <1>4 DEF WatchInv

\* A run that lives and has given a heartbeat is seen.
LEMMA LivingIsSeen ==
  ASSUME WatchInv, ~excused, NEW r \in Runs, Living(r), orch[r] # Never
  PROVE  Shown(r) = "running" /\ ListedAs(r) = "running" /\ HasActivity(r)
<1>1. process[r] \in {"working", "quiet"} /\ logged[r] = "running" /\ written[r] = "running"
  BY DEF WatchInv, WatchTypeOK, RunPaths, RunNotes, Living
<1>2. /\ orch[r] \in Nat /\ orch[r] <= InterruptedAfter /\ worker[r] \in Nat
  BY <1>1, WatchNumbers DEF WatchInv, WatchTypeOK, RunPaths, RunNotes, Ages
<1>3. Projected(r) = "running"
  BY <1>1, <1>2, WatchNumbers DEF Projected, Stale
<1>4. YoungestBeat(r) \in Nat /\ YoungestBeat(r) <= orch[r]
  <2>1. \E x \in {orch[r], worker[r]} : \A y \in {orch[r], worker[r]} : x <= y
    BY <1>2
  <2>2. Min({orch[r], worker[r]}) \in {orch[r], worker[r]} /\ \A y \in {orch[r], worker[r]} : Min({orch[r], worker[r]}) <= y
    BY <2>1 DEF Min
  <2> QED
    BY <1>2, <2>2 DEF YoungestBeat
<1>5. YoungestBeat(r) # Never /\ YoungestBeat(r) <= ActiveAfter
  BY <1>2, <1>4, WatchNumbers
<1>6. Shown(r) = "running"
  BY <1>1, <1>2, <1>3, <1>4, <1>5, WatchNumbers DEF Shown
<1> QED
  BY <1>1, <1>5, <1>6 DEF ListedAs, HasActivity, Visible

\* The shell launches when nobody lives, unless it could not know.
LEMMA LaunchInv == ASSUME WatchInv, NEW r \in Runs, ApiRunLaunch(r) \/ LaunchByHand(r) PROVE WatchInv'
<1>1. /\ process[r] = "none" /\ process' = [process EXCEPT ![r] = "scanning"]
      /\ UNCHANGED <<cursor, logged, written, orch, worker>>
  BY DEF ApiRunLaunch, LaunchByHand, LaunchRun
<1>2. excused' \in BOOLEAN
  BY DEF ApiRunLaunch, LaunchByHand, LaunchRun
<1>3. WatchTypeOK'
  BY <1>1, <1>2 DEF WatchInv, WatchTypeOK
<1>4. \A q \in Runs : process'[q] = IF q = r THEN "scanning" ELSE process[q]
  BY <1>1 DEF WatchInv, WatchTypeOK
<1>5. RunPaths'
  BY <1>1, <1>4 DEF WatchInv, RunPaths
<1>6. ASSUME ~excused' PROVE OneAlive' /\ RunNotes'
  <2>1. ~excused /\ \A q \in Runs : ~Living(q)
    <3>1. CASE LaunchByHand(r)
      BY <1>6, <3>1 DEF LaunchByHand, LaunchRun
    <3>2. CASE ApiRunLaunch(r)
      <4>1. ~excused /\ \A q \in Runs : ~HasActivity(q) /\ ~(Living(q) /\ orch[q] = Never)
        BY <1>6, <3>2 DEF ApiRunLaunch, LaunchRun
      <4> QED
        BY <4>1, LivingIsSeen
    <3> QED
      BY <3>1, <3>2
  <2>2. \A q \in Runs : Living(q)' => q = r
    BY <1>4, <2>1 DEF Living
  <2>3. OneAlive'
    BY <2>2 DEF OneAlive
  <2>4. RunNotes'
    <3>1. \A q \in Runs : process'[q] \notin {"marking", "new", "working", "quiet"}
      BY <1>4, <2>1 DEF Living
    <3> QED
      BY <1>1, <2>1, <3>1 DEF WatchInv, RunNotes
  <2> QED
    BY <2>3, <2>4
<1> QED
  BY <1>3, <1>5, <1>6 DEF WatchInv

\* Nobody comes to life, and nothing that is told changes, but for run r.
LEMMA ScanInv == ASSUME WatchInv, NEW r \in Runs, ScanNext(r) PROVE WatchInv'
<1> DEFINE q == cursor[r]
<1>1. /\ process[r] = "scanning" /\ q \in 1 .. MaxRuns + 1 /\ q <= MaxRuns /\ q \in Runs
      /\ UNCHANGED <<logged, written, orch, worker, excused>>
  BY WatchNumbers DEF ScanNext, WatchInv, WatchTypeOK, Runs
<1>2. CASE Visible(q) /\ Projected(q) = "interrupted"
  <2>1. process' = [process EXCEPT ![r] = "marking"] /\ cursor' = cursor
    BY <1>2 DEF ScanNext
  <2>2. \A p \in Runs : process'[p] = IF p = r THEN "marking" ELSE process[p]
    BY <2>1 DEF WatchInv, WatchTypeOK
  <2>3. WatchTypeOK'
    BY <1>1, <2>1 DEF WatchInv, WatchTypeOK
  <2>4. RunPaths'
    BY <1>1, <2>1, <2>2 DEF WatchInv, RunPaths
  <2>5. ASSUME ~excused' PROVE OneAlive' /\ RunNotes'
    <3>1. OneAlive /\ RunNotes
      BY <1>1, <2>5 DEF WatchInv
    <3>2. \A p \in Runs : Living(p)' <=> Living(p)
      BY <1>1, <2>2 DEF Living
    <3>3. OneAlive'
      BY <3>1, <3>2 DEF OneAlive
    <3>4. logged[q] = "running" /\ written[q] # "none"
      <4>1. logged[q] # "interrupted"
        BY <1>1 DEF WatchInv, WatchTypeOK
      <4> QED
        BY <1>2, <4>1 DEF Projected, Visible
    <3>5. ~Living(q)
      <4>1. q # r
        BY <1>1, <3>4 DEF WatchInv, RunPaths
      <4> QED
        BY <1>1, <3>1, <4>1 DEF OneAlive, Living
    <3>6. RunNotes'
      <4>1. ~Living(q)'
        BY <1>1, <2>1, <3>2, <3>5 DEF Living
      <4>2. \A p \in Runs : process[p] = "marking" => p = r
        BY <1>1, <3>1 DEF OneAlive, Living
      <4>3. \A p \in Runs : process'[p] = "marking" => p = r
        BY <2>2, <4>2
      <4>4. \A p \in Runs : process'[p] = "marking" => logged'[cursor'[p]] = "running" /\ ~Living(cursor[p])'
        BY <1>1, <2>1, <3>4, <4>1, <4>3
      <4>5. \A p \in Runs : /\ process'[p] \in {"new", "working", "quiet"} => written'[p] = "running"
                            /\ process'[p] = "quiet" => orch'[p] <= InterruptedAfter
                            /\ logged'[p] = "ended" => written'[p] = "ended"
        BY <1>1, <2>2, <3>1 DEF RunNotes
      <4> QED
        BY <2>1, <4>4, <4>5 DEF RunNotes, Living
    <3> QED
      BY <3>3, <3>6
  <2> QED
    BY <2>3, <2>4, <2>5 DEF WatchInv
<1>3. CASE ~(Visible(q) /\ Projected(q) = "interrupted")
  <2>1. process' = process /\ cursor' = [cursor EXCEPT ![r] = q + 1]
    BY <1>3 DEF ScanNext
  <2>2. q + 1 \in 1 .. MaxRuns + 1
    BY <1>1, WatchNumbers
  <2>3. WatchTypeOK'
    BY <1>1, <2>1, <2>2 DEF WatchInv, WatchTypeOK
  <2>4. \A p \in Runs : p # r => cursor'[p] = cursor[p]
    BY <2>1 DEF WatchInv, WatchTypeOK
  <2>5. RunPaths'
    BY <1>1, <2>1, <2>4 DEF WatchInv, RunPaths
  <2>6. ASSUME ~excused' PROVE OneAlive' /\ RunNotes'
    BY <1>1, <2>1, <2>4, <2>6 DEF WatchInv, OneAlive, RunNotes, Living
  <2> QED
    BY <2>3, <2>5, <2>6 DEF WatchInv
<1> QED
  BY <1>2, <1>3

\* The run that is marked neither lives nor has ended.
LEMMA MarkInv == ASSUME WatchInv, NEW r \in Runs, MarkInterrupted(r) PROVE WatchInv'
<1> DEFINE q == cursor[r]
<1>1. /\ process[r] = "marking" /\ q \in Runs
      /\ process' = [process EXCEPT ![r] = "scanning"] /\ written' = [written EXCEPT ![q] = "interrupted"]
      /\ cursor' = [cursor EXCEPT ![r] = q + 1] /\ UNCHANGED <<logged, orch, worker, excused>>
  BY DEF MarkInterrupted, WatchInv, RunPaths
<1>2. \A p \in Runs : process'[p] = IF p = r THEN "scanning" ELSE process[p]
  BY <1>1 DEF WatchInv, WatchTypeOK
<1>3. \A p \in Runs : written'[p] = IF p = q THEN "interrupted" ELSE written[p]
  BY <1>1 DEF WatchInv, WatchTypeOK
<1>4. \A p \in Runs : p # r => cursor'[p] = cursor[p]
  BY <1>1 DEF WatchInv, WatchTypeOK
<1>5. q + 1 \in 1 .. MaxRuns + 1
  BY <1>1, WatchNumbers DEF Runs
<1>6. WatchTypeOK'
  BY <1>1, <1>5 DEF WatchInv, WatchTypeOK
<1>7. RunPaths'
  BY <1>1, <1>2, <1>4 DEF WatchInv, RunPaths
<1>8. ASSUME ~excused' PROVE OneAlive' /\ RunNotes'
  <2>1. OneAlive /\ RunNotes
    BY <1>1, <1>8 DEF WatchInv
  <2>2. \A p \in Runs : Living(p)' <=> Living(p)
    BY <1>1, <1>2 DEF Living
  <2>3. OneAlive'
    BY <2>1, <2>2 DEF OneAlive
  <2>4. logged[q] = "running" /\ ~Living(q)
    BY <1>1, <2>1 DEF RunNotes
  <2>5. \A p \in Runs : process'[p] # "marking"
    BY <1>1, <1>2, <2>1 DEF OneAlive, Living
  <2>6. \A p \in Runs : /\ process'[p] \in {"new", "working", "quiet"} => written'[p] = "running"
                        /\ process'[p] = "quiet" => orch'[p] <= InterruptedAfter
                        /\ logged'[p] = "ended" => written'[p] = "ended"
    BY <1>1, <1>2, <1>3, <2>1, <2>4 DEF RunNotes, Living
  <2> QED
    BY <2>3, <2>5, <2>6 DEF RunNotes
<1> QED
  BY <1>6, <1>7, <1>8 DEF WatchInv

\* A run begins: its first event and its files.
LEMMA InitializeInv == ASSUME WatchInv, NEW r \in Runs, InitializeRun(r) PROVE WatchInv'
<1>1. /\ process[r] = "scanning" /\ process' = [process EXCEPT ![r] = "new"]
      /\ logged' = [logged EXCEPT ![r] = "running"] /\ written' = [written EXCEPT ![r] = "running"]
      /\ UNCHANGED <<cursor, orch, worker, excused>>
  BY DEF InitializeRun
<1>2. \A p \in Runs : /\ process'[p] = IF p = r THEN "new" ELSE process[p]
                      /\ logged'[p] = IF p = r THEN "running" ELSE logged[p]
                      /\ written'[p] = IF p = r THEN "running" ELSE written[p]
  BY <1>1 DEF WatchInv, WatchTypeOK
<1>3. WatchTypeOK'
  BY <1>1 DEF WatchInv, WatchTypeOK
<1>4. RunPaths'
  BY <1>1, <1>2 DEF WatchInv, RunPaths
<1>5. ASSUME ~excused' PROVE OneAlive' /\ RunNotes'
  <2>1. OneAlive /\ RunNotes
    BY <1>1, <1>5 DEF WatchInv
  <2>2. \A p \in Runs : Living(p)' <=> Living(p)
    BY <1>1, <1>2 DEF Living
  <2>3. OneAlive'
    BY <2>1, <2>2 DEF OneAlive
  <2>4. \A p \in Runs : process'[p] # "marking"
    BY <1>1, <1>2, <2>1 DEF OneAlive, Living
  <2>5. \A p \in Runs : /\ process'[p] \in {"new", "working", "quiet"} => written'[p] = "running"
                        /\ process'[p] = "quiet" => orch'[p] <= InterruptedAfter
                        /\ logged'[p] = "ended" => written'[p] = "ended"
    BY <1>1, <1>2, <2>1 DEF RunNotes
  <2> QED
    BY <2>3, <2>4, <2>5 DEF RunNotes
<1> QED
  BY <1>3, <1>4, <1>5 DEF WatchInv

\* What a working orchestrator leaves: a heartbeat, or the projection.
LEMMA LeaveInv ==
  ASSUME WatchInv, NEW r \in Runs, Beat(r) \/ ObserveWorker(r) \/ EmitEvent(r) \/ FallSilent(r)
  PROVE  WatchInv'
<1>1. /\ process[r] \in {"new", "working", "quiet"} /\ logged[r] = "running" /\ orch[r] \in Ages \cup {Never}
      /\ UNCHANGED <<cursor, logged, excused>>
  BY DEF Beat, ObserveWorker, EmitEvent, FallSilent, WatchInv, WatchTypeOK, RunPaths
<1>2. Projected(r) \in {"running", "interrupted"}
  BY <1>1 DEF Projected
<1>3. /\ process' = process \/ process' = [process EXCEPT ![r] = "working"] \/ process' = [process EXCEPT ![r] = "quiet"]
      /\ written' = written \/ written' = [written EXCEPT ![r] = Projected(r)]
      /\ orch' = orch \/ orch' = [orch EXCEPT ![r] = 0]
      /\ worker' = worker \/ worker' = [worker EXCEPT ![r] = 0]
  BY DEF Beat, ObserveWorker, EmitEvent, FallSilent
<1>4. 0 \in Ages
  BY WatchNumbers DEF Ages
<1>5. WatchTypeOK'
  <2>1. process' \in [Runs -> {"none", "scanning", "marking", "new", "working", "quiet", "gone"}]
    BY <1>3 DEF WatchInv, WatchTypeOK
  <2>2. written' \in [Runs -> {"none", "running", "interrupted", "ended"}]
    BY <1>2, <1>3 DEF WatchInv, WatchTypeOK
  <2>3. orch' \in [Runs -> Ages \cup {Never}] /\ worker' \in [Runs -> Ages \cup {Never}]
    BY <1>3, <1>4 DEF WatchInv, WatchTypeOK
  <2> QED
    BY <1>1, <2>1, <2>2, <2>3 DEF WatchInv, WatchTypeOK
<1>6. \A p \in Runs : p # r => process'[p] = process[p] /\ orch'[p] = orch[p] /\ written'[p] = written[p]
  BY <1>3 DEF WatchInv, WatchTypeOK
<1>7. \/ process'[r] = "working" /\ orch'[r] = 0
      \/ process'[r] = "working" /\ process[r] = "working" /\ orch'[r] = orch[r]
      \/ process'[r] = "quiet" /\ process[r] \in {"working", "quiet"} /\ orch'[r] = orch[r]
  <2>1. CASE Beat(r)
    BY <2>1 DEF Beat, WatchInv, WatchTypeOK
  <2>2. CASE ObserveWorker(r) \/ EmitEvent(r)
    BY <2>2 DEF ObserveWorker, EmitEvent
  <2>3. CASE FallSilent(r)
    BY <2>3 DEF FallSilent, WatchInv, WatchTypeOK
  <2> QED
    BY <2>1, <2>2, <2>3
<1>8. RunPaths'
  BY <1>1, <1>6, <1>7, WatchNumbers DEF WatchInv, RunPaths
<1>9. ASSUME ~excused' PROVE OneAlive' /\ RunNotes'
  <2>1. OneAlive /\ RunNotes
    BY <1>1, <1>9 DEF WatchInv
  <2>2. \A p \in Runs : Living(p)' <=> Living(p)
    BY <1>1, <1>6, <1>7 DEF Living
  <2>3. OneAlive'
    BY <2>1, <2>2 DEF OneAlive
  <2>4. \A p \in Runs : process'[p] # "marking"
    BY <1>1, <1>6, <1>7, <2>1 DEF OneAlive, Living
  <2>5. written[r] = "running"
    BY <1>1, <2>1 DEF RunNotes
  <2>6. orch[r] # Never => orch[r] \in Nat
    BY <1>1, WatchNumbers DEF Ages
  <2>7. process[r] \in {"working", "quiet"} => orch[r] # Never /\ orch[r] <= InterruptedAfter
    BY <2>1, <2>6, WatchNumbers DEF WatchInv, RunPaths, RunNotes
  <2>8. process[r] \in {"working", "quiet"} => Projected(r) = "running"
    BY <1>1, <2>6, <2>7, WatchNumbers DEF Projected, Stale
  <2>9. written'[r] = "running"
    <3>1. CASE written' = written
      BY <2>5, <3>1
    <3>2. CASE ObserveWorker(r) \/ EmitEvent(r)
      BY <2>8, <3>2 DEF ObserveWorker, EmitEvent, WatchInv, WatchTypeOK
    <3> QED
      BY <3>1, <3>2 DEF Beat, FallSilent
  <2>10. process'[r] = "quiet" => orch'[r] <= InterruptedAfter
    BY <1>7, <2>7
  <2>11. \A p \in Runs : /\ process'[p] \in {"new", "working", "quiet"} => written'[p] = "running"
                         /\ process'[p] = "quiet" => orch'[p] <= InterruptedAfter
                         /\ logged'[p] = "ended" => written'[p] = "ended"
    BY <1>1, <1>6, <2>1, <2>9, <2>10 DEF RunNotes
  <2> QED
    BY <2>3, <2>4, <2>11 DEF RunNotes
<1> QED
  BY <1>5, <1>8, <1>9 DEF WatchInv

\* An orchestrator is gone: at its end, by its own exception, or killed.
LEMMA GoneInv == ASSUME WatchInv, NEW r \in Runs, FinishRun(r) \/ BreakRun(r) \/ KillRun(r) PROVE WatchInv'
<1>1. /\ Living(r) /\ process' = [process EXCEPT ![r] = "gone"] /\ UNCHANGED <<cursor, orch, worker, excused>>
      /\ \/ logged' = logged /\ written' = written
         \/ logged' = [logged EXCEPT ![r] = "ended"] /\ written' = [written EXCEPT ![r] = "ended"]
         \/ logged' = [logged EXCEPT ![r] = "illegal"] /\ written' = written
  BY DEF FinishRun, BreakRun, KillRun, Living
<1>2. \A p \in Runs : process'[p] = IF p = r THEN "gone" ELSE process[p]
  BY <1>1 DEF WatchInv, WatchTypeOK
<1>3. \A p \in Runs : p # r => logged'[p] = logged[p] /\ written'[p] = written[p]
  BY <1>1 DEF WatchInv, WatchTypeOK
<1>4. WatchTypeOK'
  BY <1>1 DEF WatchInv, WatchTypeOK
<1>5. RunPaths'
  BY <1>1, <1>2, <1>3 DEF WatchInv, RunPaths
<1>6. ASSUME ~excused' PROVE OneAlive' /\ RunNotes'
  <2>1. OneAlive /\ RunNotes
    BY <1>1, <1>6 DEF WatchInv
  <2>2. \A p \in Runs : ~Living(p)'
    BY <1>1, <1>2, <2>1 DEF OneAlive, Living
  <2>3. OneAlive'
    BY <2>2 DEF OneAlive
  <2>4. logged'[r] = "ended" => written'[r] = "ended"
    BY <1>1, <2>1 DEF RunNotes, WatchInv, WatchTypeOK
  <2>5. \A p \in Runs : logged'[p] = "ended" => written'[p] = "ended"
    BY <1>3, <2>1, <2>4 DEF RunNotes
  <2> QED
    BY <2>2, <2>3, <2>5 DEF RunNotes, Living
<1> QED
  BY <1>4, <1>5, <1>6 DEF WatchInv

\* Time passes: one that works has just given a heartbeat, and one that is
\* silent beyond the limit is an excuse.
LEMMA TickInv == ASSUME WatchInv, Tick PROVE WatchInv'
<1>1. /\ \A r \in Runs : process[r] = "working" => orch[r] = 0
      /\ orch' = [r \in Runs |-> OneOlder(orch[r])] /\ worker' = [r \in Runs |-> OneOlder(worker[r])]
      /\ UNCHANGED <<process, cursor, logged, written>>
  BY DEF Tick
<1>2. excused' \in BOOLEAN
  BY DEF Tick, WatchInv, WatchTypeOK
<1>3. \A a \in Ages \cup {Never} : OneOlder(a) \in Ages \cup {Never} /\ (OneOlder(a) = Never <=> a = Never)
  BY WatchNumbers DEF OneOlder, Ages
<1>4. OneOlder(0) = 1
  BY WatchNumbers DEF OneOlder
<1>5. \A r \in Runs : orch[r] \in Ages \cup {Never} /\ orch'[r] = OneOlder(orch[r])
  BY <1>1 DEF WatchInv, WatchTypeOK
<1>6. WatchTypeOK'
  <2>1. orch' \in [Runs -> Ages \cup {Never}] /\ worker' \in [Runs -> Ages \cup {Never}]
    BY <1>1, <1>3 DEF WatchInv, WatchTypeOK
  <2> QED
    BY <1>1, <1>2, <2>1 DEF WatchInv, WatchTypeOK
<1>7. RunPaths'
  BY <1>1, <1>3, <1>4, <1>5 DEF WatchInv, RunPaths
<1>8. ASSUME ~excused' PROVE OneAlive' /\ RunNotes'
  <2>1. ~excused /\ \A r \in Runs : process[r] = "quiet" => ~Stale(orch'[r], InterruptedAfter)
    BY <1>8 DEF Tick
  <2>2. OneAlive /\ RunNotes
    BY <2>1 DEF WatchInv
  <2>3. \A r \in Runs : process[r] = "quiet" => orch'[r] <= InterruptedAfter
    <3> SUFFICES ASSUME NEW r \in Runs, process[r] = "quiet" PROVE orch'[r] <= InterruptedAfter
      OBVIOUS
    <3>1. orch'[r] # Never
      BY <1>3, <1>5 DEF WatchInv, RunPaths
    <3>2. orch'[r] \in Nat
      BY <1>3, <1>5, WatchNumbers DEF Ages
    <3> QED
      BY <2>1, <3>1, <3>2, WatchNumbers DEF Stale
  <2>4. OneAlive'
    BY <1>1, <2>2 DEF OneAlive, Living
  <2> QED
    BY <1>1, <2>2, <2>3, <2>4 DEF RunNotes, Living
<1> QED
  BY <1>6, <1>7, <1>8 DEF WatchInv

\* No step of the runs of a framework leaves the invariant.
LEMMA WatchStep == WatchInv /\ [WatchNext]_watchVars => WatchInv'
<1> SUFFICES ASSUME WatchInv, [WatchNext]_watchVars PROVE WatchInv'
  OBVIOUS
<1>1. CASE UNCHANGED watchVars
  BY <1>1 DEF watchVars, WatchInv, WatchTypeOK, RunPaths, OneAlive, RunNotes, Living
<1>2. CASE Tick
  BY <1>2, TickInv
<1>3. ASSUME NEW r \in Runs, ApiRunLaunch(r) \/ LaunchByHand(r) PROVE WatchInv'
  BY <1>3, LaunchInv
<1>4. ASSUME NEW r \in Runs, ScanNext(r) \/ MarkInterrupted(r) \/ InitializeRun(r) PROVE WatchInv'
  BY <1>4, ScanInv, MarkInv, InitializeInv
<1>5. ASSUME NEW r \in Runs, Beat(r) \/ ObserveWorker(r) \/ EmitEvent(r) \/ FallSilent(r) PROVE WatchInv'
  BY <1>5, LeaveInv
<1>6. ASSUME NEW r \in Runs, FinishRun(r) \/ BreakRun(r) \/ KillRun(r) PROVE WatchInv'
  BY <1>6, GoneInv
<1> QED
  BY <1>1, <1>2, <1>3, <1>4, <1>5, <1>6 DEF WatchNext

\* The invariant has the property in it.
LEMMA WatchInvImplies == WatchInv => RunsTold
<1> SUFFICES ASSUME WatchInv, ~excused
             PROVE  /\ Cardinality({r \in Runs : Living(r)}) <= 1
                    /\ \A r \in Runs : Living(r) /\ orch[r] # Never => Shown(r) = "running" /\ ListedAs(r) = "running"
                    /\ \A r \in Runs : logged[r] = "ended" => Shown(r) = "ended" /\ ListedAs(r) = "ended"
  BY DEF RunsTold
<1>1. Cardinality({r \in Runs : Living(r)}) <= 1
  <2>1. CASE \E r \in Runs : Living(r)
    <3>1. PICK r \in Runs : Living(r)
      BY <2>1
    <3>2. {p \in Runs : Living(p)} = {r}
      BY <3>1 DEF WatchInv, OneAlive
    <3> QED
      BY <3>2, FS_Singleton
  <2>2. CASE ~ \E r \in Runs : Living(r)
    <3>1. {r \in Runs : Living(r)} = {}
      BY <2>2
    <3> QED
      BY <3>1, FS_EmptySet
  <2> QED
    BY <2>1, <2>2
<1>2. ASSUME NEW r \in Runs, Living(r), orch[r] # Never PROVE Shown(r) = "running" /\ ListedAs(r) = "running"
  BY <1>2, LivingIsSeen
<1>3. ASSUME NEW r \in Runs, logged[r] = "ended" PROVE Shown(r) = "ended" /\ ListedAs(r) = "ended"
  <2>1. written[r] = "ended"
    BY <1>3 DEF WatchInv, RunNotes
  <2>2. Projected(r) = "ended"
    BY <1>3 DEF Projected
  <2> QED
    BY <1>3, <2>1, <2>2 DEF Shown, ListedAs, Visible
<1> QED
  BY <1>1, <1>2, <1>3

\* As long as what the limits are not made for does not happen, one orchestrator
\* works at a framework at a time, is never called interrupted, and what has
\* ended remains so, for any number of runs and any limits (framework_has_active_run(),
\* scan_interrupted_runs(), effective_run_status() and list_pipeline_runs()).
THEOREM WatchCorrect == WatchSpec => []RunsTold
BY WatchInitInv, WatchStep, WatchInvImplies, PTL DEF WatchSpec

----------------------------------------------------------------------------
(* The shell *)

\* An interactive message whose answer is still to come: its handler is on the
\* way from storing it to the call of the session.
Owing(c) == handler[c] \in {"sent", "cast1", "list1", "call"}

\* Each broadcast has a thread, or goes to all; that of a connection belongs to its
\* handler, and the poll loop has a list in a round only.
Casts == {b \in CastType : b = NoCast \/ b.thread \in Threads \cup {"all"}}

ShellCasts ==
  /\ cast \in [Coroutines -> Casts]
  /\ poll # "round" => todo = {}
  /\ \A c \in Conns : cast[c] # NoCast => handler[c] \in {"cast1", "list1", "cast2", "list2"}

\* An interactive message of a connection that was made has an answer, or its
\* handler is on the way to it, or has ended.
AskKept(i) ==
  /\ items[i].by \in Conns /\ handler[items[i].by] # "new"
  /\ \/ Answers(i) # {} \/ handler[items[i].by] = "gone"
     \/ Owing(items[i].by) /\ ask[items[i].by] = i

\* What a handler answers is a message of its own, and has no answer yet.
Due(c) ==
  /\ ask[c] \in DOMAIN items /\ items[ask[c]].kind = "ask" /\ items[ask[c]].by = c
  /\ Answers(ask[c]) = {}

\* Answers are to messages, and two to one message are one by the agent, and an
\* error behind it.
ShellAnswers ==
  /\ \A i \in DOMAIN items : items[i].kind = "answer" => items[i].re \in DOMAIN items
  /\ \A i, j \in DOMAIN items :
       i < j /\ items[i].kind = "answer" /\ items[j].kind = "answer" /\ items[i].re = items[j].re =>
         items[i].by = "agent" /\ items[j].by = "system"
  /\ \A i \in DOMAIN items : items[i].kind = "ask" => AskKept(i)
  /\ \A c \in Conns : Owing(c) => Due(c)

ShellInv == ShellTypeOK /\ NoGhosts /\ ShellCasts /\ ShellAnswers

\* A shell without connections satisfies the invariant.
LEMMA ShellInitInv == ShellInit => ShellInv
<1> SUFFICES ASSUME ShellInit PROVE ShellInv
  OBVIOUS
<1>1. /\ items = <<>> /\ DOMAIN items = {} /\ Len(items) = 0
  BY DEF ShellInit
<1>2. ShellTypeOK
  <2>1. NoCast \in Casts
    BY DEF NoCast, Casts, CastType
  <2>2. 0 \in 0 .. MaxAsked
    BY ShellAssumption
  <2> QED
    BY <1>1, <2>1, <2>2 DEF ShellInit, ShellTypeOK, Casts
<1>3. NoGhosts
  BY DEF ShellInit, NoGhosts
<1>4. ShellCasts
  BY DEF ShellInit, ShellCasts, Coroutines, NoCast, Casts, CastType
<1>5. ShellAnswers
  BY <1>1 DEF ShellInit, ShellAnswers, Owing
<1> QED
  BY <1>2, <1>3, <1>4, <1>5 DEF ShellInv

\* A message has the type of the messages.
LEMMA OneItem ==
  ASSUME NEW t \in Threads, NEW kind \in {"post", "ask", "answer"},
         NEW by \in Conns \cup {"other", "agent", "system"}, NEW re \in Nat
  PROVE  /\ Item(t, kind, by, re) \in ItemType /\ Item(t, kind, by, re).kind = kind
         /\ Item(t, kind, by, re).by = by /\ Item(t, kind, by, re).re = re
BY DEF Item, ItemType

\* Sequences of one and of two.
LEMMA Short ==
  ASSUME NEW T, NEW m \in T, NEW n \in T
  PROVE  /\ <<m>> \in Seq(T) /\ DOMAIN <<m>> = {1} /\ Len(<<m>>) = 1 /\ <<m>>[1] = m
         /\ <<m, n>> \in Seq(T) /\ DOMAIN <<m, n>> = {1, 2} /\ Len(<<m, n>>) = 2
         /\ <<m, n>>[1] = m /\ <<m, n>>[2] = n
OBVIOUS

\* Storing messages appends them, and keeps the types of the poll loop.
LEMMA Stores ==
  ASSUME ShellInv, NEW t \in Threads, NEW new \in Seq(ItemType), Store(t, new)
  PROVE  /\ items' \in Seq(ItemType) /\ Len(items) \in Nat /\ Len(items') = Len(items) + Len(new)
         /\ Len(new) \in Nat /\ DOMAIN items = 1 .. Len(items) /\ DOMAIN items' = 1 .. Len(items')
         /\ DOMAIN items \subseteq DOMAIN items'
         /\ \A i \in DOMAIN items : items'[i] = items[i]
         /\ \A i \in DOMAIN items' : i \notin DOMAIN items =>
              /\ i - Len(items) \in DOMAIN new /\ items'[i] = new[i - Len(items)]
              /\ \A j \in DOMAIN items : j < i
         /\ \A k \in DOMAIN new : Len(items) + k \in DOMAIN items' /\ items'[Len(items) + k] = new[k]
         /\ fresh' \subseteq Threads /\ moved' \subseteq todo' /\ spoiled' \subseteq Threads
         /\ UNCHANGED <<poll, todo>>
<1> DEFINE longer == items \o new
<1>1. items \in Seq(ItemType) /\ items' = longer
  BY DEF ShellInv, ShellTypeOK, Store
<1>2. fresh' \subseteq Threads /\ moved' \subseteq todo' /\ spoiled' \subseteq Threads /\ UNCHANGED <<poll, todo>>
  BY DEF ShellInv, ShellTypeOK, Store
<1>3. /\ longer \in Seq(ItemType) /\ Len(longer) = Len(items) + Len(new)
      /\ \A i \in 1 .. Len(items) + Len(new) :
           longer[i] = IF i <= Len(items) THEN items[i] ELSE new[i - Len(items)]
  BY <1>1, ConcatProperties
<1>4. /\ Len(items) \in Nat /\ DOMAIN items = 1 .. Len(items)
      /\ Len(new) \in Nat /\ DOMAIN new = 1 .. Len(new)
  BY <1>1, LenProperties
<1>5. DOMAIN longer = 1 .. Len(longer)
  BY <1>3, LenProperties
<1> HIDE DEF longer
<1>6. items' \in Seq(ItemType) /\ Len(items') = Len(items) + Len(new) /\ DOMAIN items' = 1 .. Len(items')
  BY <1>1, <1>3, <1>5
<1>7. \A i \in 1 .. Len(items) + Len(new) : items'[i] = IF i <= Len(items) THEN items[i] ELSE new[i - Len(items)]
  BY <1>1, <1>3
<1>8. DOMAIN items \subseteq DOMAIN items' /\ \A i \in DOMAIN items : items'[i] = items[i]
  BY <1>4, <1>6, <1>7
<1>9. \A i \in DOMAIN items' : i \notin DOMAIN items =>
         /\ i - Len(items) \in DOMAIN new /\ items'[i] = new[i - Len(items)]
         /\ \A j \in DOMAIN items : j < i
  BY <1>4, <1>6, <1>7
<1>10. \A k \in DOMAIN new : Len(items) + k \in DOMAIN items' /\ items'[Len(items) + k] = new[k]
  <2> SUFFICES ASSUME NEW k \in DOMAIN new
               PROVE  Len(items) + k \in DOMAIN items' /\ items'[Len(items) + k] = new[k]
    OBVIOUS
  <2>1. /\ Len(items) + k \in 1 .. Len(items) + Len(new) /\ ~(Len(items) + k <= Len(items))
        /\ (Len(items) + k) - Len(items) = k
    BY <1>4
  <2> QED
    BY <1>6, <1>7, <2>1
<1> QED
  BY <1>2, <1>4, <1>6, <1>8, <1>9, <1>10

\* What counts how many messages there are.
LEMMA Counts == ASSUME ShellInv, NEW t PROVE Count(t) \in Nat
<1>1. IsFiniteSet(DOMAIN items)
  <2>1. DOMAIN items = 1 .. Len(items) /\ Len(items) \in Nat
    BY LenProperties DEF ShellInv, ShellTypeOK
  <2> QED
    BY <2>1, FS_Interval
<1>2. IsFiniteSet({i \in DOMAIN items : items[i].thread = t})
  BY <1>1, FS_Subset
<1> QED
  BY <1>2, FS_CardinalityType DEF Count

\* How many connections there are.
LEMMA Sizes == ASSUME NEW S \in SUBSET Conns PROVE IsFiniteSet(S) /\ Cardinality(S) \in Nat
BY ShellAssumption, FS_Subset, FS_CardinalityType

\* A handler that ends leaves what its clients were told.
LEMMA CloseAnswers ==
  ASSUME ShellInv, NEW c \in Conns, UNCHANGED items,
         handler' = [handler EXCEPT ![c] = "gone"], ask' = [ask EXCEPT ![c] = 0]
  PROVE  ShellAnswers'
<1>1. /\ handler \in [Conns -> {"new", "idle", "sent", "cast1", "list1", "call", "cast2", "list2", "gone"}]
      /\ ask \in [Conns -> 0 .. Len(items)]
  BY DEF ShellInv, ShellTypeOK
<1>2. \A d \in Conns : /\ handler'[d] = IF d = c THEN "gone" ELSE handler[d]
                       /\ ask'[d] = IF d = c THEN 0 ELSE ask[d]
  BY <1>1
<1>3. \A i : Answers(i)' = Answers(i)
  BY DEF Answers
<1>4. \A d \in Conns : Owing(d)' => d # c /\ Owing(d)
  BY <1>2 DEF Owing
<1>5. \A d \in Conns : Owing(d) => d = c \/ Owing(d)'
  BY <1>2 DEF Owing
<1> QED
  BY <1>2, <1>3, <1>4, <1>5 DEF ShellInv, ShellAnswers, AskKept, Due

\* So do steps that touch no message and no handler.
LEMMA SameAnswers ==
  ASSUME ShellAnswers, UNCHANGED <<items, handler, ask>>
  PROVE  ShellAnswers'
BY DEF ShellAnswers, AskKept, Due, Answers, Owing

\* A handler that ends keeps the invariant, whatever it was doing and has stored,
\* if what the answers are stays in order.
LEMMA Closes ==
  ASSUME ShellInv, NEW c \in Conns, NEW dead, Close(c, dead), ShellAnswers',
         items' \in Seq(ItemType), Len(items') \in Nat, Len(items) <= Len(items'),
         fresh' \subseteq Threads, moved' \subseteq todo', spoiled' \subseteq Threads, UNCHANGED <<poll, todo>>,
         present' \subseteq Conns, asked' \in [Conns -> 0 .. MaxAsked],
         cast' = cast \/ cast' = [cast EXCEPT ![c] = NoCast], cast[c] = NoCast \/ cast'[c] = NoCast
  PROVE  ShellInv'
<1>2. /\ handler \in [Conns -> {"new", "idle", "sent", "cast1", "list1", "call", "cast2", "list2", "gone"}]
      /\ ask \in [Conns -> 0 .. Len(items)] /\ view \in [Conns -> [Threads -> Nat]]
      /\ active \subseteq Conns /\ keyed \subseteq Conns /\ subs \in [Conns -> SUBSET Threads]
      /\ cast \in [Coroutines -> Casts] /\ Len(items) \in Nat
  BY LenProperties DEF ShellInv, ShellTypeOK, ShellCasts
<1>3. \A d \in Conns : handler'[d] = IF d = c THEN "gone" ELSE handler[d]
  BY <1>2 DEF Close
<1>4. NoCast \in Casts
  BY DEF NoCast, Casts, CastType
<1>5. ShellTypeOK'
  <2>1. /\ handler' \in [Conns -> {"new", "idle", "sent", "cast1", "list1", "call", "cast2", "list2", "gone"}]
        /\ view' \in [Conns -> [Threads -> Nat]]
        /\ active' \subseteq Conns /\ keyed' \subseteq Conns /\ subs' \in [Conns -> SUBSET Threads]
    BY <1>2 DEF Close, Disconnect
  <2>2. cast' \in [Coroutines -> Casts]
    BY <1>2, <1>4
  <2>3. ask' \in [Conns -> 0 .. Len(items')]
    <3>1. \A n \in 0 .. Len(items) : n \in 0 .. Len(items')
      BY <1>2
    <3> QED
      BY <1>2, <3>1 DEF Close
  <2> QED
    BY <2>1, <2>2, <2>3 DEF ShellInv, ShellTypeOK, Casts
<1>6. NoGhosts'
  BY <1>2, <1>3 DEF ShellInv, NoGhosts, Close, Disconnect
<1>7. ShellCasts'
  <2>1. \A d \in Conns : d \in Coroutines /\ (cast'[d] = cast[d] \/ cast'[d] = NoCast)
    BY <1>2 DEF Coroutines
  <2> QED
    BY <1>2, <1>3, <1>4, <2>1 DEF ShellInv, ShellCasts
<1> QED
  BY <1>5, <1>6, <1>7 DEF ShellInv

\* A handler that ends and has stored nothing keeps the invariant.
LEMMA ClosesQuietly ==
  ASSUME ShellInv, NEW c \in Conns, NEW dead, Close(c, dead), UNCHANGED <<items, loop, spoiled>>,
         present' \subseteq Conns, asked' \in [Conns -> 0 .. MaxAsked],
         cast' = cast \/ cast' = [cast EXCEPT ![c] = NoCast], cast[c] = NoCast \/ cast'[c] = NoCast
  PROVE  ShellInv'
<1>1. ShellAnswers'
  BY CloseAnswers DEF Close
<1>2. /\ items' \in Seq(ItemType) /\ Len(items') \in Nat /\ Len(items) <= Len(items')
      /\ fresh' \subseteq Threads /\ moved' \subseteq todo' /\ spoiled' \subseteq Threads /\ UNCHANGED <<poll, todo>>
  BY LenProperties DEF ShellInv, ShellTypeOK, loop
<1> QED
  BY <1>1, <1>2, Closes

\* A message is of a thread.
LEMMA ThreadTyped == ASSUME ShellInv, NEW i \in DOMAIN items PROVE items[i].thread \in Threads
<1>1. items \in Seq(ItemType)
  BY DEF ShellInv, ShellTypeOK
<1>2. \A m \in ItemType : m.thread \in Threads
  BY DEF ItemType
<1>3. items[i] \in ItemType
  BY <1>1
<1> QED
  BY <1>2, <1>3

\* What goes to the manager when those that are dead are disconnected.
LEMMA Disconnects ==
  ASSUME ShellInv, NEW gone, Disconnect(gone)
  PROVE  /\ active' \subseteq Conns /\ keyed' \subseteq Conns /\ subs' \in [Conns -> SUBSET Threads]
         /\ active' \subseteq active /\ keyed' \subseteq keyed
         /\ \A c \in Conns : subs'[c] \subseteq subs[c]
BY DEF Disconnect, ShellInv, ShellTypeOK

\* A broadcast that is under way was begun by a handler, or by the poll loop.
LEMMA SendNextInv == ASSUME ShellInv, NEW p \in Coroutines, SendNext(p) PROVE ShellInv'
<1> DEFINE b == cast[p]
<1>1. PICK c \in Getting(b) \ b.done :
        /\ \E raises \in {FALSE, c \notin present} :
             cast' = [cast EXCEPT ![p].done = @ \cup {c}, ![p].dead = IF raises THEN @ \cup {c} ELSE @]
        /\ IF c \in present
           THEN /\ view' = [view EXCEPT ![c][b.thread] = b.count]
                /\ spoiled' = IF p # "poll" /\ b.count < view[c][b.thread]
                              THEN spoiled \cup {b.thread} ELSE spoiled
           ELSE UNCHANGED <<view, spoiled>>
  BY DEF SendNext
<1>2. b.thread \in Threads /\ Cardinality(keyed) = b.size /\ UNCHANGED <<items, people, handler, ask, manager, loop>>
  BY DEF SendNext
<1>3. c \in Conns /\ c \in keyed /\ keyed \subseteq Conns
  BY <1>1 DEF Getting, ShellInv, ShellTypeOK
<1>4. cast \in [Coroutines -> Casts] /\ view \in [Conns -> [Threads -> Nat]] /\ spoiled \subseteq Threads
  BY DEF ShellInv, ShellTypeOK, ShellCasts
<1>5. b \in Casts
  BY <1>4
<1>6. PICK raises : cast' = [cast EXCEPT ![p].done = @ \cup {c}, ![p].dead = IF raises THEN @ \cup {c} ELSE @]
  BY <1>1
<1>7. cast' \in [Coroutines -> Casts]
  <2> DEFINE n == [b EXCEPT !.done = @ \cup {c}, !.dead = IF raises THEN @ \cup {c} ELSE @]
  <2>1. n \in Casts
    BY <1>2, <1>3, <1>5 DEF Casts, CastType
  <2>2. cast' = [cast EXCEPT ![p] = n]
    BY <1>4, <1>6
  <2> HIDE DEF n
  <2> QED
    BY <1>4, <2>1, <2>2
<1>8. \A q \in Coroutines : q # p => cast'[q] = cast[q]
  BY <1>4, <1>6
<1>9. b # NoCast
  <2> SUFFICES ASSUME b = NoCast PROVE FALSE
    OBVIOUS
  <2>1. Cardinality(keyed) = 0
    BY <1>2 DEF NoCast
  <2>2. keyed = {}
    BY <1>3, <2>1, Sizes, FS_EmptySet
  <2> QED
    BY <1>3, <2>2
<1>10. ShellTypeOK'
  <2>1. view' \in [Conns -> [Threads -> Nat]]
    <3>1. b.thread \in Threads /\ b.count \in Nat
      BY <1>2, <1>5 DEF Casts, CastType
    <3>2. view' = view \/ view' = [view EXCEPT ![c][b.thread] = b.count]
      BY <1>1
    <3> HIDE DEF b
    <3> QED
      BY <1>3, <1>4, <3>1, <3>2
  <2>2. spoiled' \subseteq Threads
    BY <1>1, <1>2, <1>4
  <2> QED
    BY <1>2, <1>7, <2>1, <2>2 DEF ShellInv, ShellTypeOK, Casts, people, manager, loop
<1>11. ShellCasts'
  BY <1>2, <1>7, <1>8, <1>9 DEF ShellInv, ShellCasts, loop, Coroutines
<1>12. NoGhosts' /\ ShellAnswers'
  BY <1>2, SameAnswers DEF ShellInv, NoGhosts, manager
<1> QED
  BY <1>10, <1>11, <1>12 DEF ShellInv

\* The broadcasts that are begun are broadcasts.
LEMMA CastTypes ==
  ASSUME ShellInv, NEW S \in SUBSET Conns
  PROVE  /\ [CastAll EXCEPT !.size = Cardinality(S)] \in Casts
         /\ CastAll \in Casts /\ NoCast \in Casts
         /\ \A t \in Threads, n \in Nat : CastThread(t, n, S) \in Casts
<1>1. Cardinality(S) \in Nat /\ Cardinality(active) \in Nat
  BY Sizes DEF ShellInv, ShellTypeOK
<1> QED
  BY <1>1 DEF CastAll, Casts, CastType, NoCast, CastThread

\* A broadcast that has reached everybody disconnects those it did not reach.
LEMMA FinishedDisconnects ==
  ASSUME NEW p, Finished(p)
  PROVE  cast[p] # NoCast /\ \E gone : Disconnect(gone)
BY DEF Finished, Visited

\* EndCast (websocket_endpoint()) keeps the invariant.
LEMMA EndCastInv == ASSUME ShellInv, NEW c \in Conns, EndCast(c) PROVE ShellInv'
<1>1. PICK gone : Disconnect(gone)
  BY FinishedDisconnects DEF EndCast
<1>2. /\ active' \subseteq Conns /\ keyed' \subseteq Conns /\ subs' \in [Conns -> SUBSET Threads]
      /\ active' \subseteq active /\ keyed' \subseteq keyed
      /\ \A d \in Conns : subs'[d] \subseteq subs[d]
  BY <1>1, Disconnects
<1>3. handler[c] \in {"cast1", "list1", "cast2", "list2"}
  BY FinishedDisconnects DEF EndCast, ShellInv, ShellCasts
<1>4. UNCHANGED <<items, people, view, loop, spoiled>>
  BY DEF EndCast
<1>5. /\ handler \in [Conns -> {"new", "idle", "sent", "cast1", "list1", "call", "cast2", "list2", "gone"}]
      /\ ask \in [Conns -> 0 .. Len(items)] /\ cast \in [Coroutines -> Casts] /\ c \in Coroutines
      /\ Len(items) \in Nat
  BY DEF ShellInv, ShellTypeOK, ShellCasts, Coroutines
<1>6. /\ [CastAll EXCEPT !.size = Cardinality(active')] \in Casts /\ NoCast \in Casts
  BY <1>2, CastTypes
<1>7. /\ cast' \in [Coroutines -> Casts]
      /\ handler' \in [Conns -> {"new", "idle", "sent", "cast1", "list1", "call", "cast2", "list2", "gone"}]
      /\ ask' \in [Conns -> 0 .. Len(items)]
      /\ \A d \in Conns : d # c => handler'[d] = handler[d] /\ ask'[d] = ask[d] /\ cast'[d] = cast[d]
      /\ \/ handler[c] = "cast1" /\ handler'[c] = "list1" /\ ask'[c] = ask[c]
         \/ handler[c] = "cast2" /\ handler'[c] = "list2" /\ ask'[c] = ask[c]
         \/ handler[c] = "list1" /\ handler'[c] = "call" /\ ask'[c] = ask[c] /\ cast'[c] = NoCast
         \/ handler[c] = "list2" /\ handler'[c] = "idle" /\ ask'[c] = 0 /\ cast'[c] = NoCast
  <2>1. CASE handler[c] \in {"cast1", "cast2"}
    <3>1. /\ cast' = [cast EXCEPT ![c] = [CastAll EXCEPT !.size = Cardinality(active')]]
          /\ handler' = [handler EXCEPT ![c] = IF @ = "cast1" THEN "list1" ELSE "list2"]
          /\ ask' = ask
      BY <2>1 DEF EndCast
    <3>2. cast' \in [Coroutines -> Casts]
      BY <1>5, <1>6, <3>1
    <3> QED
      BY <1>5, <2>1, <3>1, <3>2, \A d \in Conns : d \in Coroutines DEF Coroutines
  <2>2. CASE handler[c] \in {"list1", "list2"}
    <3>1. /\ cast' = [cast EXCEPT ![c] = NoCast]
          /\ handler' = [handler EXCEPT ![c] = IF @ = "list1" THEN "call" ELSE "idle"]
          /\ ask' = IF handler[c] = "list1" THEN ask ELSE [ask EXCEPT ![c] = 0]
      BY <2>2 DEF EndCast
    <3>2. cast' \in [Coroutines -> Casts]
      BY <1>5, <1>6, <3>1
    <3> QED
      BY <1>5, <2>2, <3>1, <3>2, \A d \in Conns : d \in Coroutines DEF Coroutines
  <2> QED
    BY <1>3, <2>1, <2>2
<1>8. ShellTypeOK'
  BY <1>2, <1>4, <1>7 DEF ShellInv, ShellTypeOK, Casts, people, loop
<1>9. NoGhosts'
  BY <1>2, <1>7 DEF ShellInv, NoGhosts
<1>10. ShellCasts'
  BY <1>4, <1>7 DEF ShellInv, ShellCasts, loop
<1>11. ShellAnswers'
  <2>1. \A i : Answers(i)' = Answers(i)
    BY <1>4 DEF Answers
  <2>2. \A d \in Conns : Owing(d)' => Owing(d) /\ ask'[d] = ask[d]
    BY <1>7 DEF Owing
  <2>3. \A d \in Conns : Owing(d) => Owing(d)'
    BY <1>7 DEF Owing
  <2>4. \A d \in Conns : handler'[d] # "new" \/ handler[d] = "new"
    BY <1>7
  <2>5. \A d \in Conns : handler[d] = "gone" => handler'[d] = "gone"
    BY <1>7
  <2>6. items' = items
    BY <1>4
  <2>7. ShellAnswers
    BY DEF ShellInv
  <2> QED
    BY <2>1, <2>2, <2>3, <2>4, <2>5, <2>6, <2>7 DEF ShellAnswers, AskKept, Due
<1> QED
  BY <1>8, <1>9, <1>10, <1>11 DEF ShellInv

\* The steps of the poll loop.
LEMMA PollInv == ASSUME ShellInv, Poll PROVE ShellInv'
<1>1. /\ cast \in [Coroutines -> Casts] /\ "poll" \in Coroutines /\ "poll" \notin Conns
      /\ fresh \subseteq Threads /\ todo \subseteq Threads /\ moved \subseteq todo
      /\ spoiled \subseteq Threads /\ active \subseteq Conns /\ keyed \subseteq Conns
  BY ShellAssumption DEF ShellInv, ShellTypeOK, ShellCasts, Coroutines
<1>2. poll # "round" => todo = {} /\ moved = {}
  BY <1>1 DEF ShellInv, ShellCasts
<1> DEFINE Fine == /\ UNCHANGED <<items, people, handler, ask, view>>
                   /\ active' \subseteq active /\ keyed' \subseteq keyed
                   /\ subs' \in [Conns -> SUBSET Threads] /\ \A d \in Conns : subs'[d] \subseteq subs[d]
                   /\ fresh' \subseteq Threads /\ todo' \subseteq Threads /\ moved' \subseteq todo'
                   /\ poll' \in {"off", "sleep", "round"} /\ (poll' # "round" => todo' = {})
                   /\ spoiled' \subseteq Threads
                   /\ \/ cast' = cast
                      \/ \E b \in Casts : cast' = [cast EXCEPT !["poll"] = b]
<1>3. subs \in [Conns -> SUBSET Threads]
  BY DEF ShellInv, ShellTypeOK
<1>7. Fine => ShellInv'
  <2> SUFFICES ASSUME Fine PROVE ShellInv'
    OBVIOUS
  <2>1. /\ cast' \in [Coroutines -> Casts]
        /\ \A c \in Conns : cast'[c] = cast[c]
    BY <1>1 DEF Coroutines
  <2>2. items' = items /\ present' = present /\ asked' = asked /\ handler' = handler /\ ask' = ask /\ view' = view
    BY DEF people
  <2>3. ShellTypeOK'
    <3>1. cast' \in [Coroutines -> CastType]
      BY <2>1 DEF Casts
    <3>2. active' \subseteq Conns /\ keyed' \subseteq Conns
      BY <1>1
    <3>3. ShellTypeOK
      BY DEF ShellInv
    <3> QED
      BY <2>2, <3>1, <3>2, <3>3 DEF ShellTypeOK
  <2>4. NoGhosts'
    BY <1>3, <2>2 DEF ShellInv, NoGhosts
  <2>5. ShellCasts'
    BY <2>1, <2>2 DEF ShellInv, ShellCasts
  <2>6. ShellAnswers'
    BY <2>2, SameAnswers DEF ShellInv
  <2> QED
    BY <2>3, <2>4, <2>5, <2>6 DEF ShellInv
<1>4. CASE BeginRound
  <2>1. Fine
    BY <1>1, <1>2, <1>3, <1>4 DEF BeginRound, manager
  <2> QED
    BY <1>7, <2>1
<1>5. CASE PollThread
  <2>1. PICK t \in todo :
         /\ todo' = todo \ {t} /\ moved' = moved \ {t}
         /\ fresh' = IF t \in moved THEN fresh ELSE fresh \ {t}
         /\ cast' = [cast EXCEPT !["poll"] = CastThread(t, Count(t), keyed)]
    BY <1>5 DEF PollThread
  <2>2. CastThread(t, Count(t), keyed) \in Casts
    BY <1>1, Counts, CastTypes
  <2>3. poll = "round" /\ UNCHANGED <<items, people, handler, ask, manager, view, poll, spoiled>>
    BY <1>5 DEF PollThread
  <2>4. Fine
    BY <1>1, <1>3, <2>1, <2>2, <2>3 DEF manager
  <2> QED
    BY <1>7, <2>4
<1>6. CASE EndPollCast
  <2>1. PICK gone : Disconnect(gone)
    BY <1>6, FinishedDisconnects DEF EndPollCast
  <2>2. /\ active' \subseteq Conns /\ keyed' \subseteq Conns /\ subs' \in [Conns -> SUBSET Threads]
        /\ active' \subseteq active /\ keyed' \subseteq keyed
        /\ \A d \in Conns : subs'[d] \subseteq subs[d]
    BY <2>1, Disconnects
  <2>3. [CastAll EXCEPT !.size = Cardinality(active')] \in Casts /\ NoCast \in Casts
    BY <2>2, CastTypes
  <2>4. \E b \in Casts : cast' = [cast EXCEPT !["poll"] = b]
    BY <1>6, <2>3 DEF EndPollCast
  <2>5. poll' = poll \/ (todo = {} /\ poll' = "sleep")
    BY <1>6 DEF EndPollCast
  <2>6. UNCHANGED <<items, people, handler, ask, view, fresh, todo, moved, spoiled>>
    BY <1>6 DEF EndPollCast
  <2>7. Fine
    <3>1. todo' = todo /\ fresh' = fresh /\ moved' = moved /\ spoiled' = spoiled
      BY <2>6
    <3>2. poll' \in {"off", "sleep", "round"} /\ (poll' # "round" => todo' = {})
      BY <1>2, <2>5, <3>1 DEF ShellInv, ShellTypeOK
    <3>3. fresh' \subseteq Threads /\ todo' \subseteq Threads /\ moved' \subseteq todo' /\ spoiled' \subseteq Threads
      BY <1>1, <3>1
    <3>4. UNCHANGED <<items, people, handler, ask, view>>
      BY <2>6
    <3> QED
      BY <2>2, <2>4, <3>2, <3>3, <3>4
  <2> QED
    BY <1>7, <2>7
<1>8. CASE QuietRound
  <2>1. /\ poll = "round" /\ todo = {} /\ UNCHANGED <<items, people, handler, ask, manager, view, fresh, todo, moved, spoiled>>
        /\ (poll' = "sleep" /\ cast' = cast) \/ (cast' = [cast EXCEPT !["poll"] = CastAll] /\ poll' = poll)
    BY <1>8 DEF QuietRound
  <2>2. CastAll \in Casts
    BY <1>1, CastTypes
  <2>3. Fine
    BY <1>1, <1>3, <2>1, <2>2 DEF manager
  <2> QED
    BY <1>7, <2>3
<1>9. CASE BreakPoll
  <2>1. /\ UNCHANGED <<items, people, handler, ask, manager, view, fresh>>
        /\ cast' = [cast EXCEPT !["poll"] = NoCast]
        /\ poll' = "sleep" /\ todo' = {} /\ moved' = {}
    BY <1>9 DEF BreakPoll
  <2>2. NoCast \in Casts
    BY <1>1, CastTypes
  <2>3. spoiled' \subseteq Threads
    <3>1. cast["poll"].thread \in Threads \cup {"all"}
      BY <1>1, <1>9 DEF BreakPoll, Broken, Casts
    <3> QED
      BY <1>1, <1>9, <3>1 DEF BreakPoll
  <2>4. Fine
    BY <1>1, <1>3, <2>1, <2>2, <2>3 DEF manager
  <2> QED
    BY <1>7, <2>4
<1>10. CASE LosePoll
  <2>1. /\ UNCHANGED <<items, people, handler, ask, manager, view, cast>>
        /\ poll' = "sleep" /\ todo' = {} /\ moved' = {}
        /\ fresh' \subseteq Threads /\ spoiled' \subseteq Threads
    BY <1>1, <1>10 DEF LosePoll
  <2>2. Fine
    BY <1>1, <1>3, <2>1 DEF manager
  <2> QED
    BY <1>7, <2>2
<1> QED
  BY <1>4, <1>5, <1>6, <1>8, <1>9, <1>10 DEF Poll

\* What is stored fits: answers are to a message r that had none, and of two the
\* first is by the agent and the second an error.
Fits(new, r) ==
  /\ \A k \in DOMAIN new : new[k].kind = "answer" => new[k].re = r /\ r \in DOMAIN items /\ Answers(r) = {}
  /\ \A k, l \in DOMAIN new : k < l => new[k].by = "agent" /\ new[l].by = "system"

\* Messages that fit leave the answers in order, and those to others as they are.
LEMMA StoredAnswers ==
  ASSUME ShellInv, NEW t \in Threads, NEW new \in Seq(ItemType), NEW r, Store(t, new), Fits(new, r)
  PROVE  /\ \A i \in DOMAIN items' : items'[i].kind = "answer" => items'[i].re \in DOMAIN items'
         /\ \A i, j \in DOMAIN items' :
              i < j /\ items'[i].kind = "answer" /\ items'[j].kind = "answer" /\ items'[i].re = items'[j].re =>
                items'[i].by = "agent" /\ items'[j].by = "system"
         /\ \A i : Answers(i) \subseteq Answers(i)' /\ (i # r => Answers(i)' = Answers(i))
         /\ \A k \in DOMAIN new : new[k].kind = "answer" => Answers(r)' # {}
<1> DEFINE n == Len(items)
<1>1. /\ n \in Nat /\ DOMAIN items \subseteq DOMAIN items' /\ DOMAIN items = 1 .. n
      /\ \A i \in DOMAIN items : items'[i] = items[i]
      /\ \A i \in DOMAIN items' : i \notin DOMAIN items =>
           i - n \in DOMAIN new /\ items'[i] = new[i - n] /\ \A j \in DOMAIN items : j < i
      /\ \A k \in DOMAIN new : n + k \in DOMAIN items' /\ items'[n + k] = new[k]
      /\ DOMAIN items' \subseteq Nat
  BY Stores
<1>2. /\ \A i \in DOMAIN items : items[i].kind = "answer" => items[i].re \in DOMAIN items
      /\ \A i, j \in DOMAIN items :
           i < j /\ items[i].kind = "answer" /\ items[j].kind = "answer" /\ items[i].re = items[j].re =>
             items[i].by = "agent" /\ items[j].by = "system"
  BY DEF ShellInv, ShellAnswers
<1> HIDE DEF n
<1>3. \A i \in DOMAIN items' : i \notin DOMAIN items /\ items'[i].kind = "answer" =>
         items'[i].re = r /\ r \in DOMAIN items /\ Answers(r) = {}
  BY <1>1 DEF Fits
<1>4. \A i \in DOMAIN items' : items'[i].kind = "answer" => items'[i].re \in DOMAIN items'
  BY <1>1, <1>2, <1>3
<1>5. ASSUME NEW i \in DOMAIN items', NEW j \in DOMAIN items', i < j,
             items'[i].kind = "answer", items'[j].kind = "answer", items'[i].re = items'[j].re
      PROVE  items'[i].by = "agent" /\ items'[j].by = "system"
  <2>1. CASE i \in DOMAIN items /\ j \in DOMAIN items
    BY <1>1, <1>2, <1>5, <2>1
  <2>2. CASE i \in DOMAIN items /\ j \notin DOMAIN items
    <3>1. items[i].re = r /\ items[i].kind = "answer" /\ Answers(r) = {}
      BY <1>1, <1>3, <1>5, <2>2
    <3>2. i \in Answers(r)
      BY <2>2, <3>1 DEF Answers
    <3> QED
      BY <3>1, <3>2
  <2>3. CASE i \notin DOMAIN items /\ j \notin DOMAIN items
    <3>1. /\ i - n \in DOMAIN new /\ j - n \in DOMAIN new
          /\ items'[i] = new[i - n] /\ items'[j] = new[j - n]
      BY <1>1, <2>3
    <3>2. i - n < j - n
      BY <1>1, <1>5
    <3> QED
      BY <3>1, <3>2 DEF Fits
  <2>4. CASE i \notin DOMAIN items /\ j \in DOMAIN items
    BY <1>1, <1>5, <2>4
  <2> QED
    BY <2>1, <2>2, <2>3, <2>4
<1>6. \A i : Answers(i) \subseteq Answers(i)'
  BY <1>1 DEF Answers
<1>7. ASSUME NEW i, i # r PROVE Answers(i)' \subseteq Answers(i)
  <2> SUFFICES ASSUME NEW j \in DOMAIN items', items'[j].kind = "answer", items'[j].re = i
               PROVE  j \in Answers(i)
    BY DEF Answers
  <2>1. j \in DOMAIN items
    BY <1>3, <1>7
  <2> QED
    BY <1>1, <2>1 DEF Answers
<1>8. ASSUME NEW k \in DOMAIN new, new[k].kind = "answer" PROVE Answers(r)' # {}
  <2>1. n + k \in DOMAIN items' /\ items'[n + k] = new[k]
    BY <1>1
  <2>2. new[k].re = r
    BY <1>8 DEF Fits
  <2> DEFINE m == n + k
  <2> HIDE DEF m
  <2>3. m \in DOMAIN items' /\ items'[m].kind = "answer" /\ items'[m].re = r
    BY <1>8, <2>1, <2>2 DEF m
  <2> QED
    BY <2>3 DEF Answers
<1>9. ASSUME NEW i, i # r PROVE Answers(i)' = Answers(i)
  <2>1. Answers(i)' \subseteq Answers(i) /\ Answers(i) \subseteq Answers(i)'
    BY <1>6, <1>7, <1>9
  <2> QED
    BY <2>1
<1> QED
  BY <1>4, <1>5, <1>6, <1>8, <1>9

\* What the handlers owe is kept by a step that stores what fits, if the handlers go
\* on from where they were, or have answered, or end.
LEMMA KeepsAnswers ==
  ASSUME ShellInv, NEW t \in Threads, NEW new \in Seq(ItemType), NEW r, Store(t, new), Fits(new, r),
         \A d \in Conns : /\ handler'[d] = "new" => handler[d] = "new"
                          /\ handler[d] = "gone" => handler'[d] = "gone"
                          /\ Owing(d) => \/ handler'[d] = "gone" \/ \A i : i = ask[d] => Answers(i)' # {}
                                         \/ Owing(d)' /\ ask'[d] = ask[d]
                          /\ Owing(d)' => Due(d)',
         \A i \in DOMAIN items' : i \notin DOMAIN items /\ items'[i].kind = "ask" => AskKept(i)'
  PROVE  ShellAnswers'
<1>1. /\ \A i \in DOMAIN items' : items'[i].kind = "answer" => items'[i].re \in DOMAIN items'
      /\ \A i, j \in DOMAIN items' :
           i < j /\ items'[i].kind = "answer" /\ items'[j].kind = "answer" /\ items'[i].re = items'[j].re =>
             items'[i].by = "agent" /\ items'[j].by = "system"
      /\ \A i : Answers(i) \subseteq Answers(i)'
  BY StoredAnswers
<1>2. \A i \in DOMAIN items : items'[i] = items[i]
  BY Stores
<1>3. ASSUME NEW i \in DOMAIN items', items'[i].kind = "ask" PROVE AskKept(i)'
  <2>1. CASE i \in DOMAIN items
    <3>1. AskKept(i) /\ items'[i] = items[i]
      BY <1>2, <1>3, <2>1 DEF ShellInv, ShellAnswers
    <3>2. /\ items[i].by \in Conns /\ handler[items[i].by] # "new"
          /\ \/ Answers(i) # {} \/ handler[items[i].by] = "gone"
             \/ Owing(items[i].by) /\ ask[items[i].by] = i
      BY <3>1 DEF AskKept
    <3>6. PICK d \in Conns : d = items[i].by
      BY <3>2
    <3>3. handler'[d] # "new"
      BY <3>2, <3>6
    <3>4. Answers(i)' # {} \/ handler'[d] = "gone" \/ (Owing(d)' /\ ask'[d] = i)
      <4>1. CASE Answers(i) # {}
        BY <1>1, <4>1
      <4>2. CASE handler[d] = "gone"
        BY <3>3, <4>2
      <4>3. CASE Owing(d) /\ ask[d] = i
        BY <3>3, <4>3
      <4> QED
        BY <3>2, <3>6, <4>1, <4>2, <4>3
    <3>5. items'[i].by = d
      BY <3>1, <3>6
    <3> QED
      BY <3>3, <3>4, <3>5 DEF AskKept
  <2> QED
    BY <1>3, <2>1
<1> QED
  BY <1>1, <1>3 DEF ShellAnswers

\* A message stays due if none of the answers that are stored is to it.
LEMMA DueStays ==
  ASSUME ShellInv, NEW t \in Threads, NEW new \in Seq(ItemType), NEW r, Store(t, new), Fits(new, r),
         NEW d \in Conns, Due(d), ask[d] # r, ask'[d] = ask[d]
  PROVE  Due(d)'
<1>1. ask[d] \in DOMAIN items' /\ items'[ask[d]] = items[ask[d]]
  BY Stores DEF Due
<1>2. Answers(ask[d])' = {}
  BY StoredAnswers DEF Due
<1> QED
  BY <1>1, <1>2 DEF Due

\* Post (api_send()) keeps the invariant.
LEMMA PostInv == ASSUME ShellInv, NEW t \in Threads, Post(t) PROVE ShellInv'
<1> DEFINE m == Item(t, "post", "other", 0)
           new == <<m>>
<1>1. Store(t, new) /\ UNCHANGED <<people, handler, ask, manager, view, cast>>
  BY DEF Post
<1>2. m \in ItemType /\ m.kind = "post"
  BY OneItem
<1> HIDE DEF m
<1>3. new \in Seq(ItemType) /\ DOMAIN new = {1} /\ Len(new) = 1 /\ new[1] = m
  BY <1>2, Short
<1> HIDE DEF new
<1>4. Fits(new, 0)
  BY <1>2, <1>3 DEF Fits
<1>5. /\ items' \in Seq(ItemType) /\ Len(items) \in Nat /\ Len(items') = Len(items) + 1
      /\ DOMAIN items = 1 .. Len(items)
      /\ fresh' \subseteq Threads /\ moved' \subseteq todo' /\ spoiled' \subseteq Threads
      /\ UNCHANGED <<poll, todo>>
  BY <1>1, <1>3, Stores
<1>6. ShellTypeOK'
  <2>1. ask' \in [Conns -> 0 .. Len(items')]
    BY <1>1, <1>5 DEF ShellInv, ShellTypeOK
  <2> QED
    BY <1>1, <1>5, <2>1 DEF ShellInv, ShellTypeOK, people, manager
<1>7. ShellCasts' /\ NoGhosts'
  BY <1>1, <1>5 DEF ShellInv, ShellCasts, NoGhosts, manager
<1>8. ShellAnswers'
  <2>1. \A d \in Conns : (Owing(d)' <=> Owing(d)) /\ handler'[d] = handler[d] /\ ask'[d] = ask[d]
    BY <1>1 DEF Owing
  <2>2. ASSUME NEW d \in Conns, Owing(d)' PROVE Due(d)'
    <3>1. Due(d)
      BY <2>1, <2>2 DEF ShellInv, ShellAnswers
    <3>2. ask[d] # 0
      BY <1>5, <3>1 DEF Due
    <3> QED
      BY <1>1, <1>3, <1>4, <2>1, <3>1, <3>2, DueStays
  <2>3. \A i \in DOMAIN items' : i \notin DOMAIN items => items'[i].kind # "ask"
    <3>1. \A i \in DOMAIN items' : i \notin DOMAIN items =>
             i - Len(items) \in DOMAIN new /\ items'[i] = new[i - Len(items)]
      BY <1>1, <1>3, Stores
    <3> QED
      BY <1>2, <1>3, <3>1
  <2> QED
    BY <1>1, <1>3, <1>4, <2>1, <2>2, <2>3, KeepsAnswers
<1> QED
  BY <1>6, <1>7, <1>8 DEF ShellInv

\* The steps that store nothing and end nothing.
LEMMA ClientInv ==
  ASSUME ShellInv, NEW c \in Conns, NEW t, Leave(c) \/ Connect(c) \/ Unsubscribe(c, t)
  PROVE  ShellInv'
<1>1. items' = items /\ asked' = asked /\ ask' = ask /\ cast' = cast /\ spoiled' = spoiled
  BY DEF Leave, Connect, Unsubscribe, people, loop
<1>2. /\ present' \subseteq present /\ keyed' = keyed /\ subs' \in [Conns -> SUBSET Threads] 
      /\ view' = view /\ fresh' = fresh /\ todo' = todo /\ moved' = moved
      /\ active' \subseteq Conns /\ \A d \in Conns : subs'[d] \subseteq subs[d]
  BY DEF Leave, Connect, Unsubscribe, people, loop, manager, ShellInv, ShellTypeOK
<1>3. /\ handler' \in [Conns -> {"new", "idle", "sent", "cast1", "list1", "call", "cast2", "list2", "gone"}]
      /\ poll' \in {"off", "sleep", "round"} /\ (poll' = "round" <=> poll = "round")
      /\ \/ handler' = handler /\ active' = active
         \/ /\ handler[c] = "new" /\ handler'[c] = "idle" /\ active' = active \cup {c}
            /\ \A d \in Conns : d # c => handler'[d] = handler[d]
  BY DEF Leave, Connect, Unsubscribe, people, loop, manager, ShellInv, ShellTypeOK
<1>4. ShellTypeOK'
  BY <1>1, <1>2, <1>3 DEF ShellInv, ShellTypeOK
<1>5. NoGhosts'
  BY <1>2, <1>3 DEF ShellInv, NoGhosts
<1>6. ShellCasts'
  BY <1>1, <1>2, <1>3 DEF ShellInv, ShellCasts
<1>7. ShellAnswers'
  <2>1. \A i : Answers(i)' = Answers(i)
    BY <1>1 DEF Answers
  <2>2. \A d \in Conns : Owing(d)' <=> Owing(d)
    BY <1>3 DEF Owing
  <2>3. \A d \in Conns : (handler'[d] = "new" => handler[d] = "new") /\ (handler[d] = "gone" => handler'[d] = "gone")
    BY <1>3
  <2>4. ShellAnswers
    BY DEF ShellInv
  <2> QED
    BY <1>1, <2>1, <2>2, <2>3, <2>4 DEF ShellAnswers, AskKept, Due
<1> QED
  BY <1>4, <1>5, <1>6, <1>7 DEF ShellInv

\* Subscribe (websocket_endpoint()) keeps the invariant.
LEMMA SubscribeInv == ASSUME ShellInv, NEW c \in Conns, NEW t \in Threads, Subscribe(c, t) PROVE ShellInv'
<1>1. handler[c] = "idle" /\ cast[c] = NoCast /\ asked[c] < MaxAsked
  BY DEF Subscribe, Receives, ShellInv, ShellCasts
<1>2. /\ items' = items /\ present' = present /\ asked' = [asked EXCEPT ![c] = @ + 1]
      /\ UNCHANGED loop /\ cast' = cast /\ spoiled' = spoiled
  BY DEF Subscribe, Receives
<1>3. asked' \in [Conns -> 0 .. MaxAsked]
  BY <1>1, <1>2, ShellAssumption DEF ShellInv, ShellTypeOK
<1>4. /\ keyed' = keyed \cup {c} /\ subs' = [subs EXCEPT ![c] = @ \cup {t}]
      /\ view' = [view EXCEPT ![c][t] = Count(t)]
      /\ handler' = handler /\ ask' = ask /\ active' = active
  BY DEF Subscribe
<1>5. view' \in [Conns -> [Threads -> Nat]]
  BY <1>4, Counts DEF ShellInv, ShellTypeOK
<1>6. ShellTypeOK'
  BY <1>2, <1>3, <1>4, <1>5 DEF ShellInv, ShellTypeOK, loop
<1>7. NoGhosts'
  <2>1. \A d \in Conns : d # c => subs'[d] = subs[d]
    BY <1>4 DEF ShellInv, ShellTypeOK
  <2> QED
    BY <1>1, <1>4, <2>1 DEF ShellInv, NoGhosts
<1>8. ShellCasts' /\ ShellAnswers'
  BY <1>2, <1>4, SameAnswers DEF ShellInv, ShellCasts, loop
<1> QED
  BY <1>6, <1>7, <1>8 DEF ShellInv

\* What clients keep to themselves keeps its type.
LEMMA PeopleTyped ==
  ASSUME ShellInv, UNCHANGED people PROVE present' \subseteq Conns /\ asked' \in [Conns -> 0 .. MaxAsked]
BY DEF people, ShellInv, ShellTypeOK

\* The steps with which a handler ends that stores nothing.
LEMMA EndsInv ==
  ASSUME ShellInv, NEW c \in Conns, Drop(c) \/ BreakCast(c) \/ LoseList(c)
  PROVE  ShellInv'
<1>1. /\ \E dead : Close(c, dead)
      /\ UNCHANGED <<items, people, loop, spoiled>>
      /\ \/ cast' = cast /\ cast[c] = NoCast
         \/ cast' = [cast EXCEPT ![c] = NoCast] /\ cast'[c] = NoCast
  <2>1. cast \in [Coroutines -> Casts] /\ c \in Coroutines
    BY DEF ShellInv, ShellCasts, Coroutines
  <2>2. CASE Drop(c)
    BY <2>2 DEF Drop, ShellInv, ShellCasts
  <2>3. CASE BreakCast(c)
    BY <2>1, <2>3 DEF BreakCast
  <2>4. CASE LoseList(c)
    BY <2>1, <2>4 DEF LoseList
  <2> QED
    BY <2>2, <2>3, <2>4
<1> QED
  BY <1>1, PeopleTyped, ClosesQuietly

\* Acknowledge (websocket_endpoint()) keeps the invariant.
LEMMA AcknowledgeInv == ASSUME ShellInv, NEW c \in Conns, Acknowledge(c) PROVE ShellInv'
<1>1. handler[c] = "sent" /\ cast[c] = NoCast /\ UNCHANGED <<items, people, loop, spoiled>>
  BY DEF Acknowledge, ShellInv, ShellCasts
<1>2. CASE Close(c, {}) /\ UNCHANGED cast
  BY <1>1, <1>2, PeopleTyped, ClosesQuietly
<1>3. CASE /\ handler' = [handler EXCEPT ![c] = "cast1"]
           /\ cast' = [cast EXCEPT ![c] = CastThread(ThreadOf(c), Count(ThreadOf(c)), keyed)]
           /\ UNCHANGED <<manager, ask, view>>
  <2>1. ThreadOf(c) \in Threads
    <3>1. ask[c] \in DOMAIN items
      BY <1>1 DEF ShellInv, ShellAnswers, Owing, Due
    <3> QED
      BY <3>1, ThreadTyped DEF ThreadOf
  <2>2. CastThread(ThreadOf(c), Count(ThreadOf(c)), keyed) \in Casts
    BY <2>1, Counts, CastTypes DEF ShellInv, ShellTypeOK
  <2>3. /\ handler \in [Conns -> {"new", "idle", "sent", "cast1", "list1", "call", "cast2", "list2", "gone"}]
        /\ cast \in [Coroutines -> Casts]
        /\ \A d \in Conns : d \in Coroutines
    BY DEF ShellInv, ShellTypeOK, ShellCasts, Coroutines
  <2>4. /\ handler' \in [Conns -> {"new", "idle", "sent", "cast1", "list1", "call", "cast2", "list2", "gone"}]
        /\ handler'[c] = "cast1" /\ \A d \in Conns : d # c => handler'[d] = handler[d]
    BY <1>3, <2>3
  <2>5. cast' \in [Coroutines -> Casts] /\ \A d \in Conns : d # c => cast'[d] = cast[d]
    BY <1>3, <2>2, <2>3
  <2>6. ShellTypeOK'
    BY <1>1, <1>3, <2>4, <2>5 DEF ShellInv, ShellTypeOK, Casts, people, loop, manager
  <2>7. NoGhosts'
    BY <1>3, <2>4 DEF ShellInv, NoGhosts, manager
  <2>8. ShellCasts'
    BY <1>1, <2>4, <2>5 DEF ShellInv, ShellCasts, loop
  <2>9. ShellAnswers'
    <3>1. \A i : Answers(i)' = Answers(i)
      BY <1>1 DEF Answers
    <3>2. \A d \in Conns : Owing(d)' <=> Owing(d)
      BY <1>1, <2>4 DEF Owing
    <3>3. \A d \in Conns : (handler'[d] = "new" <=> handler[d] = "new") /\ (handler[d] = "gone" <=> handler'[d] = "gone")
      BY <1>1, <2>4
    <3>4. items' = items /\ ask' = ask
      BY <1>1, <1>3
    <3>5. ShellAnswers
      BY DEF ShellInv
    <3> QED
      BY <3>1, <3>2, <3>3, <3>4, <3>5 DEF ShellAnswers, AskKept, Due
  <2> QED
    BY <2>6, <2>7, <2>8, <2>9 DEF ShellInv
<1> QED
  BY <1>1, <1>2, <1>3 DEF Acknowledge

\* Interactive (websocket_endpoint()) keeps the invariant.
LEMMA InteractiveInv == ASSUME ShellInv, NEW c \in Conns, NEW t \in Threads, Interactive(c, t) PROVE ShellInv'
<1> DEFINE n == Len(items) + 1
           m == Item(t, "ask", c, 0)
           new == <<m>>
<1>1. /\ handler[c] = "idle" /\ cast[c] = NoCast /\ asked[c] < MaxAsked
      /\ asked' = [asked EXCEPT ![c] = @ + 1] /\ present' = present
      /\ Store(t, new)
      /\ ask' = [ask EXCEPT ![c] = n]
      /\ keyed' = keyed \cup {c} /\ subs' = [subs EXCEPT ![c] = @ \cup {t}]
      /\ handler' = [handler EXCEPT ![c] = "sent"]
      /\ active' = active /\ view' = view /\ cast' = cast
  BY DEF Interactive, Receives, ShellInv, ShellCasts
<1>2. m \in ItemType /\ m.kind = "ask" /\ m.by = c
  <2>1. c \in Conns \cup {"other", "agent", "system"}
    OBVIOUS
  <2> QED
    BY <2>1, OneItem
<1> HIDE DEF m
<1>3. new \in Seq(ItemType) /\ DOMAIN new = {1} /\ Len(new) = 1 /\ new[1] = m
  BY <1>2, Short
<1> HIDE DEF new
<1>10. Fits(new, 0)
  BY <1>2, <1>3 DEF Fits
<1>11. /\ items' \in Seq(ItemType) /\ Len(items) \in Nat /\ Len(items') = n
      /\ DOMAIN items = 1 .. Len(items) /\ DOMAIN items' = 1 .. n
      /\ fresh' \subseteq Threads /\ moved' \subseteq todo' /\ spoiled' \subseteq Threads
      /\ UNCHANGED <<poll, todo>>
  BY <1>1, <1>3, Stores
<1>4. /\ handler \in [Conns -> {"new", "idle", "sent", "cast1", "list1", "call", "cast2", "list2", "gone"}]
      /\ ask \in [Conns -> 0 .. Len(items)] /\ asked \in [Conns -> 0 .. MaxAsked]
      /\ subs \in [Conns -> SUBSET Threads] /\ MaxAsked \in Nat
  BY ShellAssumption DEF ShellInv, ShellTypeOK
<1>5. /\ handler' \in [Conns -> {"new", "idle", "sent", "cast1", "list1", "call", "cast2", "list2", "gone"}]
      /\ handler'[c] = "sent" /\ ask'[c] = n /\ ask' \in [Conns -> 0 .. Len(items')]
      /\ \A d \in Conns : d # c => handler'[d] = handler[d] /\ ask'[d] = ask[d] /\ subs'[d] = subs[d]
      /\ subs' \in [Conns -> SUBSET Threads]
  BY <1>1, <1>4, <1>11
<1>6. ShellTypeOK'
  <2>1. asked' \in [Conns -> 0 .. MaxAsked]
    BY <1>1, <1>4
  <2> QED
    BY <1>1, <1>5, <1>11, <2>1 DEF ShellInv, ShellTypeOK
<1>7. NoGhosts'
  BY <1>1, <1>5 DEF ShellInv, NoGhosts
<1>8. ShellCasts'
  BY <1>1, <1>5, <1>11 DEF ShellInv, ShellCasts
<1>9. ShellAnswers'
  <2>1. PICK q : /\ q = n /\ q \in DOMAIN items' /\ items'[q] = m /\ q \notin DOMAIN items
                 /\ \A i \in DOMAIN items' : i \in DOMAIN items \/ i = q
    <3>1. \A k \in DOMAIN new : Len(items) + k \in DOMAIN items' /\ items'[Len(items) + k] = new[k]
      BY <1>1, <1>3, Stores
    <3> QED
      BY <1>3, <1>11, <3>1
  <2>2. ~Owing(c) /\ Owing(c)'
    BY <1>1, <1>5 DEF Owing
  <2>3. \A d \in Conns : d # c => (Owing(d)' <=> Owing(d)) /\ handler'[d] = handler[d] /\ ask'[d] = ask[d]
    BY <1>5 DEF Owing
  <2>4. Answers(q)' = {}
    <3>1. Answers(q) = {}
      BY <2>1 DEF ShellInv, ShellAnswers, Answers
    <3>2. q # 0
      BY <1>11, <2>1
    <3> QED
      BY <1>1, <1>3, <1>10, <3>1, <3>2, StoredAnswers
  <2>5. Due(c)'
    BY <1>2, <1>5, <2>1, <2>4 DEF Due
  <2>6. ASSUME NEW d \in Conns, Owing(d)' PROVE Due(d)'
    <3>1. CASE d = c
      BY <2>5, <3>1
    <3>2. CASE d # c
      <4>1. Due(d) /\ ask'[d] = ask[d]
        BY <2>3, <2>6, <3>2 DEF ShellInv, ShellAnswers
      <4>2. ask[d] # 0
        BY <1>11, <4>1 DEF Due
      <4> QED
        BY <1>1, <1>3, <1>10, <4>1, <4>2, DueStays
    <3> QED
      BY <3>1, <3>2
  <2>7. AskKept(q)'
    BY <1>2, <1>5, <2>1, <2>2 DEF AskKept
  <2>8. \A i \in DOMAIN items' : i \notin DOMAIN items /\ items'[i].kind = "ask" => AskKept(i)'
    BY <2>1, <2>7
  <2>9. /\ handler[c] = "idle" /\ handler'[c] = "sent"
        /\ \A d \in Conns : d # c => handler'[d] = handler[d] /\ ask'[d] = ask[d] /\ (Owing(d)' <=> Owing(d))
    BY <1>1, <1>5, <2>3
  <2>10. \A d \in Conns : /\ handler'[d] = "new" => handler[d] = "new"
                          /\ handler[d] = "gone" => handler'[d] = "gone"
                          /\ Owing(d) => Owing(d)' /\ ask'[d] = ask[d]
    BY <2>2, <2>9
  <2> QED
    BY <1>1, <1>3, <1>10, <2>6, <2>8, <2>10, KeepsAnswers
<1> QED
  BY <1>6, <1>7, <1>8, <1>9 DEF ShellInv

\* LoseRequest (websocket_endpoint()) keeps the invariant: who asked has gone.
LEMMA LoseRequestInv == ASSUME ShellInv, NEW c \in Conns, NEW t \in Threads, LoseRequest(c, t) PROVE ShellInv'
<1>1. /\ handler[c] = "idle" /\ cast[c] = NoCast /\ asked[c] < MaxAsked
      /\ asked' = [asked EXCEPT ![c] = @ + 1] /\ present' = present
      /\ Close(c, {}) /\ cast' = cast
  BY DEF LoseRequest, Receives, ShellInv, ShellCasts
<1>2. present' \subseteq Conns /\ asked' \in [Conns -> 0 .. MaxAsked]
  BY <1>1, ShellAssumption DEF ShellInv, ShellTypeOK
<1>3. CASE UNCHANGED <<items, loop, spoiled>>
  BY <1>1, <1>2, <1>3, ClosesQuietly
<1>4. CASE Store(t, <<Item(t, "ask", c, 0)>>)
  <2> DEFINE m == Item(t, "ask", c, 0)
             new == <<m>>
  <2>1. m \in ItemType /\ m.kind = "ask" /\ m.by = c
    <3>1. c \in Conns \cup {"other", "agent", "system"}
      OBVIOUS
    <3> QED
      BY <3>1, OneItem
  <2>2. Store(t, new)
    BY <1>4
  <2> HIDE DEF m
  <2>3. new \in Seq(ItemType) /\ DOMAIN new = {1} /\ Len(new) = 1 /\ new[1] = m
    BY <2>1, Short
  <2> HIDE DEF new
  <2>4. Fits(new, 0)
    BY <2>1, <2>3 DEF Fits
  <2>5. /\ items' \in Seq(ItemType) /\ Len(items) \in Nat /\ Len(items') = Len(items) + 1
        /\ DOMAIN items = 1 .. Len(items)
        /\ fresh' \subseteq Threads /\ moved' \subseteq todo' /\ spoiled' \subseteq Threads
        /\ UNCHANGED <<poll, todo>>
    BY <2>2, <2>3, Stores
  <2>6. \A d \in Conns : /\ handler'[d] = IF d = c THEN "gone" ELSE handler[d]
                         /\ ask'[d] = IF d = c THEN 0 ELSE ask[d]
    BY <1>1 DEF Close, ShellInv, ShellTypeOK
  <2>7. \A d \in Conns : /\ Owing(d)' => d # c /\ Owing(d)
                         /\ Owing(d) => d # c /\ Owing(d)'
    BY <1>1, <2>6 DEF Owing
  <2>8. ASSUME NEW d \in Conns, Owing(d)' PROVE Due(d)'
    <3>1. Due(d) /\ ask'[d] = ask[d]
      BY <2>6, <2>7, <2>8 DEF ShellInv, ShellAnswers
    <3>2. ask[d] # 0
      BY <2>5, <3>1 DEF Due
    <3> QED
      BY <2>2, <2>3, <2>4, <3>1, <3>2, DueStays
  <2>9. ASSUME NEW i \in DOMAIN items', i \notin DOMAIN items PROVE AskKept(i)'
    <3>1. i - Len(items) \in DOMAIN new /\ items'[i] = new[i - Len(items)]
      BY <2>2, <2>3, <2>9, Stores
    <3>2. items'[i].by = c
      BY <2>1, <2>3, <3>1
    <3> QED
      BY <2>6, <3>2 DEF AskKept
  <2>10. \A d \in Conns : /\ handler'[d] = "new" => handler[d] = "new"
                          /\ handler[d] = "gone" => handler'[d] = "gone"
                          /\ Owing(d) => Owing(d)' /\ ask'[d] = ask[d]
    BY <2>6, <2>7
  <2>11. ShellAnswers'
    BY <2>2, <2>3, <2>4, <2>8, <2>9, <2>10, KeepsAnswers
  <2>12. Len(items') \in Nat /\ Len(items) <= Len(items')
    BY <2>5
  <2> QED
    BY <1>1, <1>2, <2>5, <2>11, <2>12, Closes
<1> QED
  BY <1>3, <1>4 DEF LoseRequest

\* What is stored of an answer fits the message that it is to.
LEMMA RepliesFit ==
  ASSUME ShellInv, NEW c \in Conns, handler[c] = "call", NEW new \in Replies(c)
  PROVE  /\ Owing(c) /\ Due(c) /\ ThreadOf(c) \in Threads
         /\ new \in Seq(ItemType) /\ Len(new) \in Nat /\ Fits(new, ask[c])
         /\ 1 \in DOMAIN new /\ \A k \in DOMAIN new : new[k].kind = "answer"
<1>1. Owing(c) /\ Due(c) /\ ask[c] \in DOMAIN items /\ Answers(ask[c]) = {}
  BY DEF ShellInv, ShellAnswers, Owing, Due
<1>2. ThreadOf(c) \in Threads /\ ask[c] \in Nat
  <2>1. ThreadOf(c) \in Threads
    BY <1>1, ThreadTyped DEF ThreadOf
  <2>2. DOMAIN items = 1 .. Len(items) /\ Len(items) \in Nat
    BY LenProperties DEF ShellInv, ShellTypeOK
  <2> QED
    BY <1>1, <2>1, <2>2
<1> DEFINE a == AnswerOf(c)
           e == ErrorOf(c)
<1>3. /\ a \in ItemType /\ a.kind = "answer" /\ a.re = ask[c] /\ a.by = "agent"
      /\ e \in ItemType /\ e.kind = "answer" /\ e.re = ask[c] /\ e.by = "system"
  <2>1. "answer" \in {"post", "ask", "answer"}
    OBVIOUS
  <2>2. "agent" \in Conns \cup {"other", "agent", "system"} /\ "system" \in Conns \cup {"other", "agent", "system"}
    OBVIOUS
  <2>3. a \in ItemType /\ a.kind = "answer" /\ a.re = ask[c] /\ a.by = "agent"
    BY <1>2, <2>1, <2>2, OneItem DEF AnswerOf
  <2>4. e \in ItemType /\ e.kind = "answer" /\ e.re = ask[c] /\ e.by = "system"
    BY <1>2 DEF ErrorOf, Item, ItemType
  <2> QED
    BY <2>3, <2>4
<1>4. new = <<a>> \/ new = <<e>> \/ new = <<a, e>>
  BY DEF Replies
<1> HIDE DEF a, e
<1>5. /\ new \in Seq(ItemType) /\ Len(new) \in Nat
      /\ \/ DOMAIN new = {1} /\ new[1] \in {a, e}
         \/ DOMAIN new = {1, 2} /\ new[1] = a /\ new[2] = e
  <2>1. a \in ItemType /\ e \in ItemType
    BY <1>3
  <2>2. CASE new = <<a>>
    BY <2>1, <2>2
  <2>3. CASE new = <<e>>
    BY <2>1, <2>3
  <2>4. CASE new = <<a, e>>
    BY <2>1, <2>4
  <2> QED
    BY <1>4, <2>2, <2>3, <2>4
<1>6. 1 \in DOMAIN new /\ \A k \in DOMAIN new : new[k].kind = "answer" /\ new[k].re = ask[c]
  BY <1>3, <1>5
<1>7. \A k, l \in DOMAIN new : k < l => new[k].by = "agent" /\ new[l].by = "system"
  BY <1>3, <1>5
<1> QED
  BY <1>1, <1>2, <1>5, <1>6, <1>7 DEF Fits

\* An answer that is stored keeps what the handlers owe, whether its own goes on or ends.
LEMMA ReplyAnswers ==
  ASSUME ShellInv, NEW c \in Conns, handler[c] = "call", NEW new \in Replies(c), Store(ThreadOf(c), new),
         handler'[c] \in {"cast2", "gone"},
         \A d \in Conns : d # c => handler'[d] = handler[d] /\ ask'[d] = ask[d]
  PROVE  ShellAnswers'
<1>1. /\ Owing(c) /\ Due(c) /\ ThreadOf(c) \in Threads
      /\ new \in Seq(ItemType) /\ Fits(new, ask[c])
      /\ 1 \in DOMAIN new /\ \A k \in DOMAIN new : new[k].kind = "answer"
  BY RepliesFit
<1>2. PICK q : q = ask[c]
  OBVIOUS
<1>7. Answers(q)' # {}
  <2>1. Fits(new, q)
    BY <1>1, <1>2
  <2> QED
    BY <1>1, <2>1, StoredAnswers
<1>3. ~Owing(c)' /\ \A d \in Conns : d # c => (Owing(d)' <=> Owing(d))
  BY DEF Owing
<1>4. ASSUME NEW d \in Conns, Owing(d)' PROVE Due(d)'
  <2>1. d # c /\ Due(d) /\ ask'[d] = ask[d]
    BY <1>3, <1>4 DEF ShellInv, ShellAnswers
  <2>2. ask[d] # ask[c]
    BY <1>1, <2>1 DEF Due
  <2> QED
    BY <1>1, <2>1, <2>2, DueStays
<1>5. \A i \in DOMAIN items' : i \notin DOMAIN items => items'[i].kind # "ask"
  <2>1. \A i \in DOMAIN items' : i \notin DOMAIN items =>
           i - Len(items) \in DOMAIN new /\ items'[i] = new[i - Len(items)]
    BY <1>1, Stores
  <2> QED
    BY <1>1, <2>1
<1>6. \A d \in Conns : /\ handler'[d] = "new" => handler[d] = "new"
                       /\ handler[d] = "gone" => handler'[d] = "gone"
                       /\ Owing(d) => \/ handler'[d] = "gone" \/ \A i : i = ask[d] => Answers(i)' # {}
                                      \/ Owing(d)' /\ ask'[d] = ask[d]
  BY <1>2, <1>3, <1>7
<1> QED
  BY <1>1, <1>4, <1>5, <1>6, KeepsAnswers

\* Reply (websocket_endpoint()) keeps the invariant.
LEMMA ReplyInv == ASSUME ShellInv, NEW c \in Conns, Reply(c) PROVE ShellInv'
<1>1. PICK new \in Replies(c) :
        /\ Store(ThreadOf(c), new)
        /\ cast' = [cast EXCEPT ![c] = CastThread(ThreadOf(c), Count(ThreadOf(c)) + Len(new), keyed)]
  BY DEF Reply
<1>2. /\ handler[c] = "call" /\ handler' = [handler EXCEPT ![c] = "cast2"]
      /\ present' = present /\ asked' = asked /\ ask' = ask /\ view' = view
      /\ active' = active /\ keyed' = keyed /\ subs' = subs
  BY DEF Reply, people, manager
<1>3. /\ ask \in [Conns -> 0 .. Len(items)] /\ keyed \subseteq Conns
      /\ handler \in [Conns -> {"new", "idle", "sent", "cast1", "list1", "call", "cast2", "list2", "gone"}]
      /\ cast \in [Coroutines -> Casts] /\ \A d \in Conns : d \in Coroutines
  BY DEF ShellInv, ShellTypeOK, ShellCasts, Coroutines
<1>4. ThreadOf(c) \in Threads /\ new \in Seq(ItemType) /\ Len(new) \in Nat
  BY <1>2, RepliesFit
<1>5. /\ items' \in Seq(ItemType) /\ Len(items) \in Nat /\ Len(items') = Len(items) + Len(new)
      /\ fresh' \subseteq Threads /\ moved' \subseteq todo' /\ spoiled' \subseteq Threads
      /\ UNCHANGED <<poll, todo>>
  BY <1>1, <1>4, Stores
<1>7. /\ handler' \in [Conns -> {"new", "idle", "sent", "cast1", "list1", "call", "cast2", "list2", "gone"}]
      /\ handler'[c] = "cast2" /\ \A d \in Conns : d # c => handler'[d] = handler[d]
  BY <1>2, <1>3
<1>8. cast' \in [Coroutines -> Casts] /\ \A d \in Conns : d # c => cast'[d] = cast[d]
  <2> DEFINE k == Count(ThreadOf(c)) + Len(new)
  <2>1. k \in Nat
    BY <1>4, Counts
  <2> HIDE DEF k
  <2>2. CastThread(ThreadOf(c), k, keyed) \in Casts
    BY <1>3, <1>4, <2>1, CastTypes
  <2>3. cast' = [cast EXCEPT ![c] = CastThread(ThreadOf(c), k, keyed)]
    BY <1>1 DEF k
  <2> QED
    BY <1>3, <2>2, <2>3
<1>9. ShellTypeOK'
  <2>1. ask' \in [Conns -> 0 .. Len(items')]
    BY <1>2, <1>3, <1>4, <1>5
  <2>2. cast' \in [Coroutines -> CastType]
    BY <1>8 DEF Casts
  <2> QED
    BY <1>2, <1>5, <1>7, <2>1, <2>2 DEF ShellInv, ShellTypeOK
<1>10. NoGhosts'
  BY <1>2, <1>7 DEF ShellInv, NoGhosts
<1>11. ShellCasts'
  BY <1>5, <1>7, <1>8 DEF ShellInv, ShellCasts
<1>12. ShellAnswers'
  BY <1>1, <1>2, <1>7, ReplyAnswers
<1> QED
  BY <1>9, <1>10, <1>11, <1>12 DEF ShellInv

\* LoseReply (websocket_endpoint()) keeps the invariant, whatever has been stored.
LEMMA LoseReplyInv == ASSUME ShellInv, NEW c \in Conns, LoseReply(c) PROVE ShellInv'
<1>1. handler[c] = "call" /\ cast[c] = NoCast /\ Close(c, {}) /\ UNCHANGED people /\ cast' = cast
  BY DEF LoseReply, ShellInv, ShellCasts
<1>2. CASE UNCHANGED <<items, loop, spoiled>>
  BY <1>1, <1>2, PeopleTyped, ClosesQuietly
<1>3. ASSUME NEW new \in Replies(c), Store(ThreadOf(c), new) PROVE ShellInv'
  <2>1. ThreadOf(c) \in Threads /\ new \in Seq(ItemType)
    BY <1>1, RepliesFit
  <2>2. /\ items' \in Seq(ItemType) /\ Len(items) \in Nat /\ Len(new) \in Nat
        /\ Len(items') = Len(items) + Len(new)
        /\ fresh' \subseteq Threads /\ moved' \subseteq todo' /\ spoiled' \subseteq Threads
        /\ UNCHANGED <<poll, todo>>
    BY <1>3, <2>1, Stores
  <2>3. /\ handler'[c] = "gone"
        /\ \A d \in Conns : d # c => handler'[d] = handler[d] /\ ask'[d] = ask[d]
    BY <1>1 DEF Close, ShellInv, ShellTypeOK
  <2>4. ShellAnswers'
    BY <1>1, <1>3, <2>3, ReplyAnswers
  <2>5. Len(items') \in Nat /\ Len(items) <= Len(items')
    BY <2>2
  <2> QED
    BY <1>1, <2>2, <2>4, <2>5, PeopleTyped, Closes
<1> QED
  BY <1>2, <1>3 DEF LoseReply

\* No step of the shell leaves its invariant.
LEMMA ShellStep == ShellInv /\ [ShellNext]_shellVars => ShellInv'
<1> SUFFICES ASSUME ShellInv, [ShellNext]_shellVars PROVE ShellInv'
  OBVIOUS
<1>1. ASSUME NEW c \in Conns, Handle(c) PROVE ShellInv'
  BY <1>1, EndsInv, AcknowledgeInv, EndCastInv, ReplyInv, LoseReplyInv DEF Handle
<1>2. ASSUME NEW c \in Conns, Ask(c) PROVE ShellInv'
  <2>1. ASSUME NEW t \in Threads,
               Subscribe(c, t) \/ Unsubscribe(c, t) \/ Interactive(c, t) \/ LoseRequest(c, t)
        PROVE  ShellInv'
    BY <2>1, SubscribeInv, ClientInv, InteractiveInv, LoseRequestInv
  <2>2. ASSUME Connect(c) \/ Leave(c) PROVE ShellInv'
    BY <2>2, ClientInv
  <2> QED
    BY <1>2, <2>1, <2>2 DEF Ask
<1>3. ASSUME UNCHANGED shellVars PROVE ShellInv'
  BY <1>3, SameAnswers DEF shellVars, ShellInv, ShellTypeOK, NoGhosts, ShellCasts
<1> QED
  BY <1>1, <1>2, <1>3, PollInv, SendNextInv, PostInv DEF ShellNext

\* The invariant has the property in it.
LEMMA ShellInvImplies == ShellInv => OneAnswer
<1> SUFFICES ASSUME ShellInv, NEW i \in DOMAIN items, items[i].kind = "ask"
             PROVE  /\ \A j, k \in Answers(i) : j < k => items[j].by = "agent" /\ items[k].by = "system"
                    /\ handler[items[i].by] = "idle" => Answers(i) # {}
  BY DEF OneAnswer
<1>1. AskKept(i)
  BY DEF ShellInv, ShellAnswers
<1>2. handler[items[i].by] = "idle" => Answers(i) # {}
  BY <1>1 DEF AskKept, Owing
<1>3. \A j, k \in Answers(i) : j < k => items[j].by = "agent" /\ items[k].by = "system"
  BY DEF ShellInv, ShellAnswers, Answers
<1> QED
  BY <1>2, <1>3

\* The values of the shell have their types, for any number of connections,
\* threads and messages.
THEOREM ShellTypeCorrect == ShellSpec => []ShellTypeOK
<1>1. ShellInv => ShellTypeOK
  BY DEF ShellInv
<1> QED
  BY <1>1, ShellInitInv, ShellStep, PTL DEF ShellSpec

\* The agent answers an interactive message once at most, an answer is followed by
\* nothing but one error, which is stored when create_item() raises after its commit,
\* and a handler that listens again has stored one of them, whatever broke off on the
\* way (websocket_endpoint()).
THEOREM ShellCorrect == ShellSpec => []OneAnswer
BY ShellInitInv, ShellStep, ShellInvImplies, PTL DEF ShellSpec

\* Whoever has gone is in none of the manager's tables, although broadcasts of
\* other coroutines disconnect clients, too, and a client may ask for more after that
\* (disconnect() and subscribe() of ConnectionManager).
THEOREM NobodyLeft == ShellSpec => []NoGhosts
<1>1. ShellInv => NoGhosts
  BY DEF ShellInv
<1> QED
  BY <1>1, ShellInitInv, ShellStep, PTL DEF ShellSpec

----------------------------------------------------------------------------
(* The agents that work over HTTP *)

\* A program that has been given a name has one, and the token of a program
\* that has been started exists.
AgentNames ==
  \A x \in Tokens :
    /\ program[x] \in {"named", "ready", "beating", "working", "reading"} => tokens[x].name \in Names
    /\ program[x] # "off" => tokens[x].state # "none"

AgentsInv == AgentsTypeOK /\ AgentNames

MaybeNames == Names \cup {""}
Tokened == [state : {"none", "active", "revoked"}, label : MaybeNames, name : MaybeNames]
Mail == [thread : Nat, from : Names \cup {"human"}, to : Names \cup {"human", "any"}, at : Nat,
         status : {"sent", "read", "complete"}]

\* The bounds are numbers.
LEMMA AgentsLimits == MaxManaged \in Nat /\ MaxCrashes \in Nat
BY AgentsAssumption, Zenon

\* No name is empty.
LEMMA Nameless == "" \notin Names
BY AgentsAssumption, Zenon

\* Without tokens and programs the invariant holds.
LEMMA AgentsInitInv == AgentsInit => AgentsInv
<1> SUFFICES ASSUME AgentsInit PROVE AgentsInv
  OBVIOUS
<1>1. mail \in Seq(Mail)
  <2>1. mail = <<>>
    BY DEF AgentsInit
  <2> QED
    BY <2>1
<1>2. Idle \in Tokened
  BY DEF Idle, Tokened, MaybeNames
<1>3. 0 \in 0 .. MaxManaged /\ 0 \in 0 .. MaxCrashes
  BY AgentsLimits
<1>4. AgentsTypeOK
  BY <1>1, <1>2, <1>3 DEF AgentsInit, AgentsTypeOK, MaybeNames, Tokened, Mail
<1>5. AgentNames
  BY DEF AgentsInit, AgentNames
<1> QED
  BY <1>4, <1>5 DEF AgentsInv

\* A new item is appended, and its thread is that of one before it or a new one.
LEMMA Creates ==
  ASSUME mail \in Seq(Mail), NEW from \in Names \cup {"human"}, NEW to \in Names \cup {"human", "any"},
         NEW re \in {0} \cup DOMAIN mail, NEW before, CreateItem(from, to, re, before)
  PROVE  mail' \in Seq(Mail) /\ DOMAIN mail \subseteq DOMAIN mail'
<1>1. Len(mail) \in Nat /\ DOMAIN mail = 1 .. Len(mail) /\ \A i \in DOMAIN mail : mail[i] \in Mail
  OBVIOUS
<1>2. \A m \in Mail : m.thread \in Nat /\ m.at \in Nat
  BY DEF Mail
<1>3. LastSecond \in Nat
  <2>1. CASE mail = <<>>
    BY <2>1 DEF LastSecond
  <2>2. CASE mail # <<>>
    <3>1. Len(mail) \in DOMAIN mail
      BY <1>1, <2>2
    <3> QED
      BY <1>1, <1>2, <2>2, <3>1 DEF LastSecond
  <2> QED
    BY <2>1, <2>2
<1> DEFINE thread == IF re = 0 THEN Len(mail) + 1 ELSE mail[re].thread
<1>4. PICK at \in {LastSecond, LastSecond + 1} :
        mail' = Append(mail, [thread |-> thread, from |-> from, to |-> to, at |-> at, status |-> "sent"])
  BY DEF CreateItem
<1>5. thread \in Nat
  BY <1>1, <1>2
<1>6. at \in Nat
  BY <1>3
<1> HIDE DEF thread
<1>7. [thread |-> thread, from |-> from, to |-> to, at |-> at, status |-> "sent"] \in Mail
  BY <1>5, <1>6 DEF Mail
<1> QED
  BY <1>1, <1>4, <1>7

\* A change of the people or of one program keeps the types of the rest.
LEMMA AgentsTypes ==
  ASSUME AgentsInv
  PROVE  /\ tokens \in [Tokens -> Tokened] /\ mail \in Seq(Mail)
         /\ Len(mail) \in Nat /\ DOMAIN mail = 1 .. Len(mail) /\ \A i \in DOMAIN mail : mail[i] \in Mail
         /\ rows \subseteq Names
         /\ program \in [Tokens -> {"off", "checked", "named", "ready", "beating", "working", "reading", "down"}]
         /\ work \in [Tokens -> SUBSET DOMAIN mail]
         /\ deleting \in MaybeNames
         /\ managed \in 0 .. MaxManaged /\ crashes \in 0 .. MaxCrashes
<1>1. tokens \in [Tokens -> Tokened] /\ mail \in Seq(Mail)
  BY DEF AgentsInv, AgentsTypeOK, MaybeNames, Tokened, Mail
<1>2. Len(mail) \in Nat /\ DOMAIN mail = 1 .. Len(mail) /\ \A i \in DOMAIN mail : mail[i] \in Mail
  BY <1>1
<1> QED
  BY <1>1, <1>2 DEF AgentsInv, AgentsTypeOK, MaybeNames

\* What the invariant needs of a step, part by part.
LEMMA AgentsKept ==
  ASSUME tokens' \in [Tokens -> Tokened], mail' \in Seq(Mail), rows' \subseteq Names,
         program' \in [Tokens -> {"off", "checked", "named", "ready", "beating", "working", "reading", "down"}],
         work' \in [Tokens -> SUBSET DOMAIN mail'], deleting' \in MaybeNames,
         managed' \in 0 .. MaxManaged, crashes' \in 0 .. MaxCrashes, AgentNames'
  PROVE  AgentsInv'
BY DEF AgentsInv, AgentsTypeOK, MaybeNames, Tokened, Mail

\* A change of status keeps the mail as it is otherwise.
LEMMA SetStatusTypes ==
  ASSUME mail \in Seq(Mail), NEW i \in DOMAIN mail, NEW status \in {"sent", "read", "complete"}, SetStatus(i, status)
  PROVE  mail' \in Seq(Mail) /\ DOMAIN mail' = DOMAIN mail
<1>1. Len(mail) \in Nat /\ DOMAIN mail = 1 .. Len(mail) /\ mail[i] \in Mail
  OBVIOUS
<1> DEFINE m == [mail[i] EXCEPT !.status = status]
<1>2. m \in Mail
  BY <1>1 DEF Mail
<1>3. mail' = [mail EXCEPT ![i] = m]
  BY DEF SetStatus
<1> HIDE DEF m
<1> QED
  BY <1>1, <1>2, <1>3

\* A message or a reply that is posted keeps the invariant (create_item()).
LEMMA SendInv ==
  ASSUME AgentsInv, NEW to \in Names \cup {"any"}, NEW re \in {0} \cup DOMAIN mail, Send(to, re)
  PROVE  AgentsInv'
<1>1. CreateItem("human", to, re, 0) /\ UNCHANGED <<tokens, rows, management, programs>>
  BY DEF Send
<1>2. mail' \in Seq(Mail) /\ DOMAIN mail \subseteq DOMAIN mail'
  <2>1. "human" \in Names \cup {"human"} /\ to \in Names \cup {"human", "any"}
    OBVIOUS
  <2> QED
    BY <1>1, <2>1, AgentsTypes, Creates
<1>3. AgentNames'
  BY <1>1 DEF AgentsInv, AgentNames, programs
<1>4. work' \in [Tokens -> SUBSET DOMAIN mail']
  BY <1>1, <1>2, AgentsTypes DEF programs
<1> QED
  BY <1>1, <1>2, <1>3, <1>4, AgentsTypes, AgentsKept DEF programs, management

\* What people do with items, agents and tokens.
LEMMA ManagedInv ==
  ASSUME AgentsInv, Manage, UNCHANGED mail, tokens' \in [Tokens -> Tokened], rows' \subseteq Names,
         deleting' \in MaybeNames, 
         \A x \in Tokens : /\ tokens[x].name \in Names => tokens'[x].name \in Names
                           /\ tokens[x].state # "none" => tokens'[x].state # "none"
  PROVE  AgentsInv'
<1>1. managed' \in 0 .. MaxManaged /\ program' = program /\ work' = work /\ crashes' = crashes
  BY AgentsTypes, AgentsLimits DEF Manage, programs
<1>2. AgentNames'
  BY <1>1 DEF AgentsInv, AgentNames
<1> QED
  BY <1>1, <1>2, AgentsTypes, AgentsKept

\* An item that a person completes or routes keeps the invariant.
LEMMA ItemInv ==
  ASSUME AgentsInv, NEW i \in DOMAIN mail, Complete(i) \/ \E to \in Names : RouteItem(i, to)
  PROVE  AgentsInv'
<1>1. Manage /\ UNCHANGED <<tokens, rows, deleting>>
  BY DEF Complete, RouteItem
<1>2. mail' \in Seq(Mail) /\ DOMAIN mail' = DOMAIN mail
  <2>1. CASE Complete(i)
    BY <2>1, AgentsTypes, SetStatusTypes DEF Complete
  <2>2. ASSUME NEW to \in Names, RouteItem(i, to) PROVE mail' \in Seq(Mail) /\ DOMAIN mail' = DOMAIN mail
    <3> DEFINE m == [mail[i] EXCEPT !.to = to]
    <3>1. m \in Mail
      BY AgentsTypes DEF Mail
    <3>2. mail' = [mail EXCEPT ![i] = m]
      BY <2>2 DEF RouteItem
    <3>3. mail \in Seq(Mail) /\ i \in 1 .. Len(mail) /\ Len(mail) \in Nat
      BY AgentsTypes
    <3> HIDE DEF m
    <3> QED
      BY <3>1, <3>2, <3>3
  <2> QED
    BY <2>1, <2>2
<1>3. managed' \in 0 .. MaxManaged /\ program' = program /\ work' = work /\ crashes' = crashes
  BY <1>1, AgentsTypes, AgentsLimits DEF Manage, programs
<1>4. AgentNames'
  BY <1>1, <1>3 DEF AgentsInv, AgentNames
<1> QED
  BY <1>1, <1>2, <1>3, <1>4, AgentsTypes, AgentsKept

\* A token that is created has its type, and takes no name from another.
LEMMA NewTokenTypes ==
  ASSUME AgentsInv, NEW x \in Tokens, NEW label \in MaybeNames, NEW name \in MaybeNames, NewToken(x, label, name)
  PROVE  /\ tokens' \in [Tokens -> Tokened]
         /\ \A y \in Tokens : /\ tokens[y].name \in Names => tokens'[y].name \in Names
                              /\ tokens[y].state # "none" => tokens'[y].state # "none"
<1> DEFINE k == [state |-> "active", label |-> label, name |-> name]
<1>1. k \in Tokened /\ k.state = "active"
  BY DEF Tokened
<1>2. tokens[x] = Idle /\ tokens' = [tokens EXCEPT ![x] = k]
  BY DEF NewToken
<1>3. tokens[x].name \notin Names
  <2>1. Idle.name = ""
    BY DEF Idle
  <2> QED
    BY <1>2, <2>1, Nameless, Zenon
<1> HIDE DEF k
<1> QED
  BY <1>1, <1>2, <1>3, AgentsTypes

\* Tokens that are created, revoked or activated keep the invariant.
LEMMA TokenInv ==
  ASSUME AgentsInv, NEW x \in Tokens,
         \/ \E label \in MaybeNames : CreateToken(x, label)
         \/ \E state \in {"active", "revoked"} : SetActive(x, state)
  PROVE  AgentsInv'
<1>1. ASSUME NEW label \in MaybeNames, CreateToken(x, label) PROVE AgentsInv'
  <2>1. Manage /\ NewToken(x, label, "") /\ UNCHANGED <<rows, mail, deleting>>
    BY <1>1 DEF CreateToken
  <2>2. "" \in MaybeNames
    BY DEF MaybeNames
  <2>3. /\ tokens' \in [Tokens -> Tokened]
        /\ \A y \in Tokens : /\ tokens[y].name \in Names => tokens'[y].name \in Names
                             /\ tokens[y].state # "none" => tokens'[y].state # "none"
    BY <2>1, <2>2, NewTokenTypes
  <2>4. Manage /\ UNCHANGED <<rows, mail, deleting>>
    BY <2>1
  <2> HIDE <2>1
  <2> QED
    BY <2>3, <2>4, AgentsTypes, ManagedInv
<1>2. ASSUME NEW state \in {"active", "revoked"}, SetActive(x, state) PROVE AgentsInv'
  <2>1. /\ Manage /\ UNCHANGED <<rows, mail, deleting>>
        /\ tokens' = [tokens EXCEPT ![x].state = state]
    BY <1>2 DEF SetActive
  <2>2. /\ tokens' \in [Tokens -> Tokened]
        /\ \A y \in Tokens : /\ tokens'[y].name = tokens[y].name
                             /\ tokens[y].state # "none" => tokens'[y].state # "none"
    BY <2>1, AgentsTypes DEF Tokened
  <2> QED
    BY <2>1, <2>2, AgentsTypes, ManagedInv
<1> QED
  BY <1>1, <1>2

\* Agents that are created, changed or deleted keep the invariant.
LEMMA AgentInv ==
  ASSUME AgentsInv, NEW n \in Names, CreateAgent(n) \/ UpdateAgent(n) \/ DeleteAgent(n)
  PROVE  AgentsInv'
<1>1. CASE CreateAgent(n)
  <2>1. Manage /\ rows' = rows \cup {n} /\ UNCHANGED <<mail, deleting>>
    BY <1>1 DEF CreateAgent
  <2>2. CASE UNCHANGED tokens
    BY <2>1, <2>2, AgentsTypes, ManagedInv
  <2>3. ASSUME NEW x \in Tokens, NewToken(x, n, n) PROVE AgentsInv'
    <3>1. n \in MaybeNames
      BY DEF MaybeNames
    <3> QED
      BY <2>1, <2>3, <3>1, NewTokenTypes, AgentsTypes, ManagedInv
  <2> QED
    BY <1>1, <2>2, <2>3 DEF CreateAgent
<1>2. CASE UpdateAgent(n)
  <2>1. /\ Manage /\ UNCHANGED <<rows, mail, deleting>>
        /\ tokens' = [x \in Tokens |-> IF x \in OfName(n) /\ tokens[x].name = ""
                                       THEN [tokens[x] EXCEPT !.name = n] ELSE tokens[x]]
    BY <1>2 DEF UpdateAgent
  <2>2. \A k \in Tokened : [k EXCEPT !.name = n] \in Tokened /\ [k EXCEPT !.name = n].name \in Names
                           /\ [k EXCEPT !.name = n].state = k.state
    BY DEF Tokened, MaybeNames
  <2>3. tokens' = [x \in Tokens |-> IF x \in OfName(n) /\ tokens[x].name = ""
                                     THEN [tokens[x] EXCEPT !.name = n] ELSE tokens[x]]
    BY <2>1
  <2> DEFINE Renamed(x) == x \in OfName(n) /\ tokens[x].name = ""
  <2>4. tokens' = [x \in Tokens |-> IF Renamed(x) THEN [tokens[x] EXCEPT !.name = n] ELSE tokens[x]]
    BY <2>3, Zenon
  <2>5. Manage /\ UNCHANGED <<rows, mail, deleting>>
    BY <2>1, Zenon
  <2> HIDE <2>1, <2>3 DEF Renamed
  <2> QED
    BY <2>2, <2>4, <2>5, AgentsTypes, ManagedInv
<1>3. CASE DeleteAgent(n)
  <2>1. /\ Manage /\ UNCHANGED <<rows, mail>> /\ deleting' = n
        /\ tokens' = [x \in Tokens |-> IF x \in OfName(n) THEN [tokens[x] EXCEPT !.state = "revoked"] ELSE tokens[x]]
    BY <1>3 DEF DeleteAgent
  <2>2. \A k \in Tokened : [k EXCEPT !.state = "revoked"] \in Tokened /\ [k EXCEPT !.state = "revoked"].name = k.name
                           /\ [k EXCEPT !.state = "revoked"].state = "revoked"
    BY DEF Tokened
  <2>3. deleting' \in MaybeNames
    BY <2>1 DEF MaybeNames
  <2> QED
    BY <2>1, <2>2, <2>3, AgentsTypes, ManagedInv
<1> QED
  BY <1>1, <1>2, <1>3

\* Whatever people do keeps the invariant.
LEMMA PersonInv == ASSUME AgentsInv, Person PROVE AgentsInv'
<1>1. ASSUME EndDeletion PROVE AgentsInv'
  <2>1. deleting' \in MaybeNames /\ rows' = rows \ {deleting} /\ UNCHANGED <<tokens, mail, managed, programs>>
    BY <1>1 DEF EndDeletion, MaybeNames
  <2>2. AgentNames'
    BY <2>1 DEF AgentsInv, AgentNames, programs
  <2> QED
    BY <2>1, <2>2, AgentsTypes, AgentsKept DEF programs
<1> QED
  <2>1. ASSUME NEW to \in Names \cup {"any"}, NEW re \in {0} \cup DOMAIN mail, Send(to, re) PROVE AgentsInv'
    BY <2>1, SendInv
  <2>2. ASSUME NEW i \in DOMAIN mail, Complete(i) \/ \E to \in Names : RouteItem(i, to) PROVE AgentsInv'
    BY <2>2, ItemInv
  <2>3. ASSUME NEW x \in Tokens, NEW label \in Names \cup {""}, CreateToken(x, label) PROVE AgentsInv'
    BY <2>3, TokenInv DEF MaybeNames
  <2>4. ASSUME NEW x \in Tokens, NEW state \in {"active", "revoked"}, SetActive(x, state) PROVE AgentsInv'
    BY <2>4, TokenInv
  <2>5. ASSUME NEW n \in Names, CreateAgent(n) \/ UpdateAgent(n) \/ DeleteAgent(n) PROVE AgentsInv'
    BY <2>5, AgentInv
  <2> QED
    BY <1>1, <2>1, <2>2, <2>3, <2>4, <2>5, Zenon DEF Person

\* One program goes on, with work that the mail has.
Programs == {"off", "checked", "named", "ready", "beating", "working", "reading", "down"}

\* A step of one program keeps the invariant, if it has a name where it needs
\* one.
LEMMA ProgramInv ==
  ASSUME AgentsInv, NEW x \in Tokens, tokens[x].state # "none",
         NEW to \in Programs, program' = [program EXCEPT ![x] = to],
         NEW w \in SUBSET DOMAIN mail', work' = [work EXCEPT ![x] = w],
         NEW name, to \in {"named", "ready", "beating", "working", "reading"} => name \in Names,
         (tokens' = tokens /\ name = tokens[x].name) \/ (tokens' = [tokens EXCEPT ![x].name = name] /\ name \in Names),
         mail' = mail \/ (mail' \in Seq(Mail) /\ DOMAIN mail \subseteq DOMAIN mail'),
         rows' \subseteq Names, UNCHANGED management, crashes' \in 0 .. MaxCrashes
  PROVE  AgentsInv'
<1>1. mail' \in Seq(Mail) /\ DOMAIN mail \subseteq DOMAIN mail'
  BY AgentsTypes
<1>2. work' \in [Tokens -> SUBSET DOMAIN mail']
  BY <1>1, AgentsTypes
<1>3. program' \in [Tokens -> Programs]
  BY AgentsTypes DEF Programs
<1>4. /\ tokens' \in [Tokens -> Tokened] /\ tokens'[x].state = tokens[x].state /\ tokens'[x].name = name
      /\ \A y \in Tokens : y # x => tokens'[y] = tokens[y]
  <2>1. CASE tokens' = tokens /\ name = tokens[x].name
    BY <2>1, AgentsTypes
  <2>2. CASE tokens' = [tokens EXCEPT ![x].name = name] /\ name \in Names
    <3> DEFINE k == [tokens[x] EXCEPT !.name = name]
    <3>1. name \in MaybeNames
      BY <2>2 DEF MaybeNames
    <3>2. k \in Tokened /\ k.state = tokens[x].state /\ k.name = name
      BY <3>1, AgentsTypes DEF Tokened
    <3>3. tokens' = [tokens EXCEPT ![x] = k]
      BY <2>2
    <3> HIDE DEF k
    <3> QED
      BY <3>2, <3>3, AgentsTypes
  <2> QED
    BY <2>1, <2>2
<1>5. AgentNames'
  <2>1. \A y \in Tokens : program'[y] = IF y = x THEN to ELSE program[y]
    BY AgentsTypes
  <2> QED
    BY <1>4, <2>1 DEF AgentsInv, AgentNames
<1>6. deleting' \in MaybeNames /\ managed' \in 0 .. MaxManaged
  BY AgentsTypes DEF management
<1> QED
  BY <1>1, <1>2, <1>3, <1>4, <1>5, <1>6, AgentsKept DEF Programs

\* A program that starts keeps the invariant.
LEMMA BeginInv == ASSUME AgentsInv, NEW x \in Tokens, Begin(x) PROVE AgentsInv'
<1>1. CASE Onboard(x)
  <2>1. /\ program' = [program EXCEPT ![x] = "checked"] /\ UNCHANGED <<tokens, rows, mail, management, work, crashes>>
        /\ tokens[x].state # "none"
    BY <1>1 DEF Onboard, At, Valid
  <2>2. work' = [work EXCEPT ![x] = work[x]] /\ work[x] \in SUBSET DOMAIN mail'
    BY <2>1, AgentsTypes
  <2>3. "checked" \in Programs /\ rows' \subseteq Names /\ crashes' \in 0 .. MaxCrashes
    BY <2>1, AgentsTypes DEF Programs
  <2>4. "checked" \notin {"named", "ready", "beating", "working", "reading"}
    OBVIOUS
  <2>5. tokens' = tokens /\ tokens[x].name = tokens[x].name
    BY <2>1
  <2> QED
    BY <2>1, <2>2, <2>3, <2>4, <2>5, ProgramInv
<1>2. ASSUME NEW name \in Names, Rename(x, name) PROVE AgentsInv'
  <2>1. /\ program[x] = "checked" /\ program' = [program EXCEPT ![x] = "named"]
        /\ tokens' = [tokens EXCEPT ![x].name = name]
        /\ rows' = rows \ {tokens[x].name} \/ rows' = rows
        /\ UNCHANGED <<mail, management, work, crashes>>
    BY <1>2 DEF Rename, At
  <2>2. work' = [work EXCEPT ![x] = work[x]] /\ work[x] \in SUBSET DOMAIN mail'
    BY <2>1, AgentsTypes
  <2>3. tokens[x].state # "none"
    BY <2>1 DEF AgentsInv, AgentNames
  <2>4. "named" \in Programs /\ rows' \subseteq Names /\ crashes' \in 0 .. MaxCrashes
    BY <2>1, AgentsTypes DEF Programs
  <2> QED
    BY <1>2, <2>1, <2>2, <2>3, <2>4, ProgramInv
<1>3. CASE Register(x)
  <2>1. /\ program[x] = "named" /\ program' = [program EXCEPT ![x] = "ready"]
        /\ rows' = rows \cup {tokens[x].name}
        /\ UNCHANGED <<tokens, mail, management, work, crashes>>
    BY <1>3 DEF Register, At
  <2>2. work' = [work EXCEPT ![x] = work[x]] /\ work[x] \in SUBSET DOMAIN mail'
    BY <2>1, AgentsTypes
  <2>3. tokens[x].state # "none" /\ tokens[x].name \in Names
    BY <2>1 DEF AgentsInv, AgentNames
  <2>4. "ready" \in Programs /\ rows' \subseteq Names /\ crashes' \in 0 .. MaxCrashes
    BY <2>1, <2>3, AgentsTypes DEF Programs
  <2> QED
    BY <2>1, <2>2, <2>3, <2>4, ProgramInv
<1> QED
  BY <1>1, <1>2, <1>3 DEF Begin

\* A call that leaves the tokens as they are.
LEMMA CallKeeps ==
  ASSUME AgentsInv, NEW x \in Tokens,
         NEW to \in {"ready", "beating", "working", "reading"},
         program[x] \in {"ready", "beating", "working", "reading"},
         program' = [program EXCEPT ![x] = to], UNCHANGED <<tokens, rows, management, crashes>>,
         mail' = mail \/ (mail' \in Seq(Mail) /\ DOMAIN mail \subseteq DOMAIN mail'),
         NEW w \in SUBSET DOMAIN mail', work' = [work EXCEPT ![x] = w]
  PROVE  AgentsInv'
<1>1. tokens[x].state # "none" /\ tokens[x].name \in Names
  BY DEF AgentsInv, AgentNames
<1>2. to \in Programs /\ rows' \subseteq Names /\ crashes' \in 0 .. MaxCrashes
  BY AgentsTypes DEF Programs
<1> QED
  BY <1>1, <1>2, ProgramInv

\* Each call of a program keeps the invariant.
LEMMA CallInv == ASSUME AgentsInv, NEW x \in Tokens, Call(x) PROVE AgentsInv'
<1>1. \A name, status : Listed(status, name) \in SUBSET DOMAIN mail
  BY DEF Listed
<1>2. CASE Heartbeat(x)
  <2>1. /\ program[x] = "ready" /\ program' = [program EXCEPT ![x] = "beating"]
        /\ work' = [work EXCEPT ![x] = Listed("sent", tokens[x].name)]
        /\ UNCHANGED <<tokens, rows, mail, management, crashes>>
    BY <1>2 DEF Heartbeat, At
  <2> QED
    BY <1>1, <2>1, CallKeeps
<1>3. CASE HeartbeatAnswers(x)
  <2> DEFINE w == work[x] \cup NeedsResponse(tokens[x].name)
  <2>1. /\ program[x] = "beating" /\ program' = [program EXCEPT ![x] = "working"]
        /\ work' = [work EXCEPT ![x] = w]
        /\ UNCHANGED <<tokens, rows, mail, management, crashes>>
    BY <1>3 DEF HeartbeatAnswers, At
  <2>2. w \in SUBSET DOMAIN mail
    <3>1. NeedsResponse(tokens[x].name) \in SUBSET DOMAIN mail
      BY <1>1 DEF NeedsResponse
    <3> QED
      BY <3>1, AgentsTypes
  <2> HIDE DEF w
  <2> QED
    BY <2>1, <2>2, CallKeeps
<1>4. CASE NothingToDo(x)
  <2>1. /\ program[x] = "working" /\ program' = [program EXCEPT ![x] = "ready"]
        /\ UNCHANGED <<tokens, rows, mail, management, work, crashes>>
    BY <1>4 DEF NothingToDo, At
  <2>2. work' = [work EXCEPT ![x] = work[x]] /\ work[x] \in SUBSET DOMAIN mail'
    BY <2>1, AgentsTypes
  <2> QED
    BY <2>1, <2>2, CallKeeps
<1>5. CASE Refused(x)
  <2>1. /\ program[x] \in {"ready", "working", "reading"} /\ program' = [program EXCEPT ![x] = "ready"]
        /\ work' = [work EXCEPT ![x] = {}]
        /\ UNCHANGED <<tokens, rows, mail, management, crashes>>
    BY <1>5 DEF Refused
  <2>2. {} \in SUBSET DOMAIN mail'
    OBVIOUS
  <2> QED
    BY <2>1, <2>2, CallKeeps
<1>6. ASSUME NEW i \in DOMAIN mail, MarkRead(x, i) PROVE AgentsInv'
  <2>1. /\ program[x] = "working" /\ program' = [program EXCEPT ![x] = "reading"]
        /\ work' = [work EXCEPT ![x] = {i}] /\ SetStatus(i, "read")
        /\ UNCHANGED <<tokens, rows, management, crashes>>
    BY <1>6 DEF MarkRead, At
  <2>2. mail' \in Seq(Mail) /\ DOMAIN mail' = DOMAIN mail
    <3>1. "read" \in {"sent", "read", "complete"}
      OBVIOUS
    <3> QED
      BY <2>1, <3>1, AgentsTypes, SetStatusTypes
  <2>3. {i} \in SUBSET DOMAIN mail'
    BY <2>2
  <2> QED
    BY <2>1, <2>2, <2>3, CallKeeps
<1>7. CASE PostReply(x)
  <2>1. /\ program[x] = "reading" /\ program' = [program EXCEPT ![x] = "ready"]
        /\ work' = [work EXCEPT ![x] = {}]
        /\ UNCHANGED <<tokens, rows, management, crashes>>
    BY <1>7 DEF PostReply, At
  <2>2. PICK i \in work[x] : CreateItem(tokens[x].name, mail[i].from, i, mail[i].at)
    BY <1>7 DEF PostReply
  <2>3. i \in DOMAIN mail
    BY AgentsTypes
  <2>4. mail[i].from \in Names \cup {"human", "any"}
    <3>1. \A m \in Mail : m.from \in Names \cup {"human"}
      BY DEF Mail
    <3> QED
      BY <2>3, <3>1, AgentsTypes
  <2>5. tokens[x].name \in Names \cup {"human"}
    BY <2>1 DEF AgentsInv, AgentNames
  <2>6. mail' \in Seq(Mail) /\ DOMAIN mail \subseteq DOMAIN mail'
    BY <2>2, <2>3, <2>4, <2>5, AgentsTypes, Creates
  <2> QED
    BY <2>1, <2>6, CallKeeps
<1> QED
  BY <1>2, <1>3, <1>4, <1>5, <1>6, <1>7 DEF Call

\* A program that crashes keeps the invariant.
LEMMA CrashInv == ASSUME AgentsInv, NEW x \in Tokens, Crash(x) PROVE AgentsInv'
<1>1. /\ program[x] # "off" /\ program' = [program EXCEPT ![x] = "down"] /\ work' = [work EXCEPT ![x] = {}]
      /\ crashes < MaxCrashes /\ crashes' = crashes + 1
      /\ UNCHANGED <<tokens, rows, mail, management>>
  BY DEF Crash
<1>2. crashes' \in 0 .. MaxCrashes
  BY <1>1, AgentsTypes, AgentsLimits
<1>3. tokens[x].state # "none"
  BY <1>1 DEF AgentsInv, AgentNames
<1>4. "down" \in Programs /\ rows' \subseteq Names /\ {} \in SUBSET DOMAIN mail'
  BY <1>1, AgentsTypes DEF Programs
<1>5. "down" \notin {"named", "ready", "beating", "working", "reading"} /\ tokens' = tokens /\ tokens[x].name = tokens[x].name
  BY <1>1
<1> QED
  BY <1>1, <1>2, <1>3, <1>4, <1>5, ProgramInv

\* No step of agents and people leaves the invariant.
LEMMA AgentsStep == AgentsInv /\ [AgentsNext]_agentVars => AgentsInv'
<1> SUFFICES ASSUME AgentsInv, [AgentsNext]_agentVars PROVE AgentsInv'
  OBVIOUS
<1>1. ASSUME UNCHANGED agentVars PROVE AgentsInv'
  <2>1. UNCHANGED <<tokens, rows, mail, management, programs>>
    BY <1>1 DEF agentVars
  <2>2. AgentNames'
    BY <2>1 DEF AgentsInv, AgentNames, programs
  <2> QED
    BY <2>1, <2>2, AgentsTypes, AgentsKept DEF programs, management
<1> QED
  BY <1>1, PersonInv, BeginInv, CallInv, CrashInv DEF AgentsNext

\* The values of the agents have their types: in particular, whoever replies has
\* a name (onboard_agent() and heartbeat()).
THEOREM AgentsTypeCorrect == AgentsSpec => []AgentsTypeOK
<1>1. AgentsInv => AgentsTypeOK
  BY DEF AgentsInv
<1> QED
  BY <1>1, AgentsInitInv, AgentsStep, PTL DEF AgentsSpec

----------------------------------------------------------------------------
(* The services together *)

ServicesInv ==
  /\ ShellInv /\ SessionInv /\ AgentsInv
  /\ BrainInv /\ RunnerInv /\ WatchInv

\* The invariants of all services hold at the start.
LEMMA ServicesInitInv == Init => ServicesInv
BY ShellInitInv, SessionInitInv, AgentsInitInv, BrainInitInv, RunnerInitInv, WatchInitInv DEF Init, ServicesInv

\* A step of the whole is one of each service, or leaves it as it is.
LEMMA Apart ==
  ASSUME [Next]_vars
  PROVE  /\ [ShellNext]_shellVars /\ [SessionNext]_sessionVars /\ [AgentsNext]_agentVars
         /\ [BrainNext]_brainVars /\ [RunnerNext]_runnerVars /\ [WatchNext]_watchVars
<1>1. CASE UNCHANGED vars
  BY <1>1 DEF vars
<1>2. CASE Next
  BY <1>2 DEF Next
<1> QED
  BY <1>1, <1>2

\* No step of the whole leaves the invariant of any service.
LEMMA ServicesStep == ServicesInv /\ [Next]_vars => ServicesInv'
<1> SUFFICES ASSUME ServicesInv, [Next]_vars PROVE ServicesInv'
  OBVIOUS
<1>1. /\ [ShellNext]_shellVars /\ [SessionNext]_sessionVars /\ [AgentsNext]_agentVars
      /\ [BrainNext]_brainVars /\ [RunnerNext]_runnerVars /\ [WatchNext]_watchVars
  BY Apart
<1>2. ShellInv /\ SessionInv /\ AgentsInv /\ BrainInv /\ RunnerInv /\ WatchInv
  BY DEF ServicesInv
<1>3. ShellInv' /\ SessionInv' /\ AgentsInv' /\ BrainInv' /\ RunnerInv' /\ WatchInv'
  BY <1>1, <1>2, ShellStep, SessionStep, AgentsStep, BrainStep, RunnerInvStep, WatchStep
<1> QED
  BY <1>3 DEF ServicesInv

\* All values of the services have their types, whichever of them runs.
THEOREM ServicesTypeCorrect == Spec => []ServicesTypeOK
<1>1. ServicesInv => ServicesTypeOK
  BY DEF ServicesInv, ServicesTypeOK, ShellInv, SessionInv, AgentsInv, BrainInv, BrainRows, RunnerInv, WatchInv
<1> QED
  BY <1>1, ServicesInitInv, ServicesStep, PTL DEF Spec

\* What each service promises it also keeps where they stand together.
THEOREM ServicesCorrect ==
  Spec => [](OneAnswer /\ NoGhosts /\ SessionUsable /\ BrainConsistent /\ OutcomeHonest /\ RunsTold)
<1>1. ServicesInv => OneAnswer /\ NoGhosts /\ SessionUsable /\ BrainConsistent /\ OutcomeHonest /\ RunsTold
  BY ShellInvImplies, SessionInvImplies, BrainInvImplies, RunnerInvImplies, WatchInvImplies DEF ServicesInv, ShellInv
<1> QED
  BY <1>1, ServicesInitInv, ServicesStep, PTL DEF Spec

=============================================================================
