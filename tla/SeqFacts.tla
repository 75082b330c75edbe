------------------------------ MODULE SeqFacts ------------------------------
(***************************************************************************)
(* Facts about sequences whose elements have no type of their own, such as *)
(* events that hold hashes: the sequence is one over its own elements; and *)
(* induction, stated for sets, from the well-foundedness of <.             *)
(***************************************************************************)
EXTENDS Integers, Sequences, SequenceTheorems, WellFoundedInduction, TLAPS

IsSeq(s) == s \in Seq({s[i] : i \in DOMAIN s})

\* What Append does: one longer, the old events in place.
LEMMA AppendIsSeq ==
  ASSUME NEW s, IsSeq(s), NEW e
  PROVE  /\ IsSeq(Append(s, e))
         /\ Len(s) \in Nat
         /\ Len(Append(s, e)) = Len(s) + 1
         /\ \A i \in 1..Len(s) : Append(s, e)[i] = s[i]
         /\ Append(s, e)[Len(s) + 1] = e
<1> DEFINE T == {s[i] : i \in DOMAIN s} \cup {e}
           t == Append(s, e)
           U == {t[i] : i \in DOMAIN t}
<1>1. s \in Seq(T)
  BY SeqMonotonic DEF IsSeq
<1>2. /\ t \in Seq(T)
      /\ Len(s) \in Nat
      /\ Len(t) = Len(s) + 1
      /\ \A i \in 1..Len(s) : t[i] = s[i]
      /\ t[Len(s) + 1] = e
  BY <1>1, AppendProperties, LenProperties
<1>3. t \in [1..Len(t) -> T] /\ Len(t) \in Nat /\ DOMAIN t = 1..Len(t)
  BY <1>2, LenProperties
<1>4. t \in [1..Len(t) -> U]
  BY <1>3
<1>5. t \in Seq(U)
  BY <1>3, <1>4, SeqDef
<1> QED
  BY <1>2, <1>5 DEF IsSeq

\* Setting a key to the event it holds already changes nothing.
LEMMA PutAgain ==
  ASSUME NEW s, IsSeq(s), NEW i \in 1..Len(s), NEW e, s[i] = e
  PROVE  [s EXCEPT ![i] = e] = s
<1> DEFINE S == {s[j] : j \in DOMAIN s}
<1>1. s \in Seq(S) /\ Len(s) \in Nat /\ s \in [1..Len(s) -> S]
  BY LenProperties DEF IsSeq
<1> QED
  BY <1>1

\* The sequence up to its last event, and the domain.
LEMMA SeqShape ==
  ASSUME NEW s, IsSeq(s)
  PROVE  Len(s) \in Nat /\ DOMAIN s = 1..Len(s)
BY LenProperties DEF IsSeq

\* Every set of numbers has a least one.
LEMMA LeastNumber ==
  ASSUME NEW T \in SUBSET Nat, T # {}
  PROVE  \E x \in T : \A y \in T : x <= y
<1> DEFINE R == OpToRel(<, Nat)
<1>1. R = {ss \in Nat \X Nat : ss[1] < ss[2]}
  BY DEF OpToRel
<1>2. IsWellFoundedOn(R, Nat)
  BY NatLessThanWellFounded
<1> HIDE DEF R
<1>3. PICK x \in T : \A y \in T : ~(<<y, x>> \in R)
  BY <1>2, WFMin
<1>4. ASSUME NEW y \in T PROVE x <= y
  <2>1. <<y, x>> \in Nat \X Nat /\ x \in Nat /\ y \in Nat
    OBVIOUS
  <2>2. ~(y < x)
    BY <1>1, <1>3, <2>1
  <2> QED
    BY <2>1, <2>2
<1> QED
  BY <1>4

\* Induction: a set that has 0, and with each number the next, has all.
LEMMA NatSetInduction ==
  ASSUME NEW S, 0 \in S, \A n \in Nat : n \in S => n + 1 \in S
  PROVE  \A n \in Nat : n \in S
<1> SUFFICES ASSUME Nat \ S # {} PROVE FALSE
  OBVIOUS
<1>1. PICK x \in Nat \ S : \A y \in Nat \ S : x <= y
  BY LeastNumber
<1>2. x - 1 \in Nat /\ x - 1 \in S
  BY <1>1
<1> QED
  BY <1>1, <1>2

=============================================================================
