----------------------------- MODULE QueueLemmas -----------------------------
(***************************************************************************)
(* What enqueueing at the tail of a queue and dequeueing at its head do to *)
(* the set of its members and to its freedom from duplicates.  Both kinds  *)
(* of queue of the RTX (MsgEnvQ and proc_queue) are used as FIFOs.         *)
(***************************************************************************)
EXTENDS Integers, Sequences, FiniteSets, Functions, SequenceTheorems, FiniteSetTheorems,
        WellFoundedInduction, TLAPS

(* An enqueued element joins the members of the queue, once if it was not there. *)
LEMMA Enqueued ==
  ASSUME NEW S, NEW s \in Seq(S), NEW e \in S
  PROVE  /\ Append(s, e) \in Seq(S)
         /\ Append(s, e) # <<>>
         /\ Range(Append(s, e)) = Range(s) \cup {e}
         /\ IsInjective(s) /\ e \notin Range(s) => IsInjective(Append(s, e))
<1> DEFINE t == Append(s, e)
<1>1. /\ t \in Seq(S) /\ Len(t) = Len(s) + 1 /\ t[Len(t)] = e
      /\ \A i \in 1 .. Len(s) : t[i] = s[i]
  BY AppendProperties
<1>2. DOMAIN s = 1 .. Len(s) /\ DOMAIN t = 1 .. Len(t) /\ Len(s) \in Nat
  BY <1>1, LenProperties
<1>3. Range(t) = Range(s) \cup {e}
  <2>1. ASSUME NEW x \in Range(t) PROVE x \in Range(s) \cup {e}
    <3>1. PICK i \in 1 .. Len(t) : x = t[i]
      BY <1>2 DEF Range
    <3>2. CASE i = Len(t)
      BY <3>1, <3>2, <1>1
    <3>3. CASE i # Len(t)
      <4>1. i \in 1 .. Len(s)
        BY <3>3, <1>1, <1>2
      <4> QED BY <4>1, <3>1, <1>1, <1>2 DEF Range
    <3> QED BY <3>2, <3>3
  <2>2. ASSUME NEW x \in Range(s) PROVE x \in Range(t)
    <3>1. PICK i \in 1 .. Len(s) : x = s[i]
      BY <1>2 DEF Range
    <3>2. i \in 1 .. Len(t) /\ x = t[i]
      BY <3>1, <1>1, <1>2
    <3> QED BY <3>2, <1>2 DEF Range
  <2>3. e \in Range(t)
    <3>1. Len(t) \in DOMAIN t
      BY <1>1, <1>2
    <3> QED BY <3>1, <1>1 DEF Range
  <2> QED BY <2>1, <2>2, <2>3
<1>4. ASSUME IsInjective(s), e \notin Range(s) PROVE IsInjective(t)
  <2>1. SUFFICES ASSUME NEW a \in 1 .. Len(t), NEW b \in 1 .. Len(t), t[a] = t[b]
                 PROVE  a = b
    BY <1>2 DEF IsInjective
  <2>2. \A i \in 1 .. Len(s) : t[i] # e
    BY <1>1, <1>2, <1>4 DEF Range
  <2>3. CASE a = Len(t) \/ b = Len(t)
    BY <2>1, <2>2, <2>3, <1>1, <1>2
  <2>4. CASE a # Len(t) /\ b # Len(t)
    <3>1. a \in 1 .. Len(s) /\ b \in 1 .. Len(s)
      BY <2>4, <1>1, <1>2
    <3> QED BY <3>1, <2>1, <1>1, <1>2, <1>4 DEF IsInjective
  <2> QED BY <2>3, <2>4
<1>5. t # <<>>
  BY <1>1, <1>2, EmptySeq
<1> HIDE DEF t
<1>6. /\ t \in Seq(S)
      /\ t # <<>>
      /\ Range(t) = Range(s) \cup {e}
      /\ IsInjective(s) /\ e \notin Range(s) => IsInjective(t)
  BY <1>1, <1>3, <1>4, <1>5
<1> QED BY <1>6 DEF t

(* A dequeued element was a member and, in a queue without duplicates, no longer is. *)
LEMMA Dequeued ==
  ASSUME NEW S, NEW s \in Seq(S), s # <<>>
  PROVE  /\ Head(s) \in S
         /\ Head(s) \in Range(s)
         /\ Tail(s) \in Seq(S)
         /\ Range(Tail(s)) \subseteq Range(s)
         /\ IsInjective(s) => /\ IsInjective(Tail(s))
                              /\ Range(Tail(s)) = Range(s) \ {Head(s)}
<1> DEFINE t == Tail(s)
           h == Head(s)
<1>1. /\ t \in Seq(S) /\ Len(t) = Len(s) - 1 /\ h \in S /\ h = s[1]
      /\ \A i \in 1 .. Len(t) : t[i] = s[i + 1]
  BY HeadTailProperties
<1>2. DOMAIN s = 1 .. Len(s) /\ DOMAIN t = 1 .. Len(t) /\ Len(s) \in Nat /\ Len(s) # 0
  BY <1>1, LenProperties, EmptySeq
<1>3. h \in Range(s)
  BY <1>1, <1>2 DEF Range
<1>4. \A x \in Range(t) : \E i \in 1 .. Len(s) : i # 1 /\ x = s[i]
  <2>1. TAKE x \in Range(t)
  <2>2. PICK i \in 1 .. Len(t) : x = t[i]
    BY <2>1, <1>2 DEF Range
  <2>3. i + 1 \in 1 .. Len(s) /\ i + 1 # 1 /\ x = s[i + 1]
    BY <2>2, <1>1, <1>2
  <2> QED BY <2>3
<1>5. Range(t) \subseteq Range(s)
  BY <1>4, <1>2 DEF Range
<1>6. \A x \in Range(s) : x # h => x \in Range(t)
  <2>1. SUFFICES ASSUME NEW x \in Range(s), x # h PROVE x \in Range(t)
    OBVIOUS
  <2>2. PICK i \in 1 .. Len(s) : x = s[i]
    BY <2>1, <1>2 DEF Range
  <2>3. i - 1 \in 1 .. Len(t) /\ (i - 1) + 1 = i
    BY <2>1, <2>2, <1>1, <1>2
  <2>4. x = t[i - 1]
    BY <2>2, <2>3, <1>1
  <2> QED BY <2>3, <2>4, <1>2 DEF Range
<1>7. ASSUME IsInjective(s) PROVE IsInjective(t) /\ Range(t) = Range(s) \ {h}
  <2>1. h \notin Range(t)
    BY <1>1, <1>2, <1>4, <1>7 DEF IsInjective
  <2>2. ASSUME NEW a \in 1 .. Len(t), NEW b \in 1 .. Len(t), t[a] = t[b] PROVE a = b
    <3>1. /\ a + 1 \in 1 .. Len(s) /\ b + 1 \in 1 .. Len(s)
          /\ s[a + 1] = s[b + 1]
      BY <2>2, <1>1, <1>2
    <3>2. a + 1 = b + 1
      BY <3>1, <1>2, <1>7 DEF IsInjective
    <3> QED BY <3>2
  <2> QED BY <2>1, <2>2, <1>2, <1>5, <1>6 DEF IsInjective
<1> HIDE DEF t, h
<1>8. /\ h \in S
      /\ h \in Range(s)
      /\ t \in Seq(S)
      /\ Range(t) \subseteq Range(s)
      /\ IsInjective(s) => IsInjective(t) /\ Range(t) = Range(s) \ {h}
  BY <1>1, <1>3, <1>5, <1>7
<1> QED BY <1>8 DEF t, h

(* The empty queue has no members. *)
LEMMA EmptyQueue ==
  /\ Range(<<>>) = {}
  /\ IsInjective(<<>>)
  /\ \A S : <<>> \in Seq(S)
  /\ \A S : \A s \in Seq(S) : s # <<>> <=> Range(s) # {}
<1>1. DOMAIN <<>> = {}
  OBVIOUS
<1>2. ASSUME NEW S, NEW s \in Seq(S), s # <<>> PROVE Range(s) # {}
  BY <1>2, Dequeued
<1> QED BY <1>1, <1>2, EmptySeq DEF Range, IsInjective

(* A nonempty set of numbers has a least element. *)
LEMMA LeastElement ==
  ASSUME NEW S \in SUBSET Nat, S # {}
  PROVE  \E k \in S : \A j \in S : k <= j
<1> DEFINE R == OpToRel(<, Nat)
<1>1. IsWellFoundedOn(R, Nat) BY NatLessThanWellFounded
<1>2. \A x, y \in Nat : y < x => <<y, x>> \in R BY DEF OpToRel
<1> HIDE DEF R
<1>3. PICK k \in S : \A j \in S : ~ (<<j, k>> \in R) BY <1>1, WFMin
<1>4. \A j \in S : ~ (j < k) BY <1>2, <1>3
<1> QED BY <1>4

(* A queue without duplicates is as long as the set of its members is large, and not longer
   than a finite set they come from. *)
LEMMA InjectiveFits ==
  ASSUME NEW S, IsFiniteSet(S), NEW q \in Seq(S), IsInjective(q)
  PROVE  /\ Len(q) <= Cardinality(S)
         /\ Cardinality(Range(q)) = Len(q)
<1> DEFINE n == Len(q)
<1>1. n \in Nat /\ q \in [1 .. n -> S] /\ DOMAIN q = 1 .. n
  OBVIOUS
<1>2. q \in Injection(1 .. n, S)
  BY <1>1 DEF Injection
<1> HIDE DEF n
<1>3. Cardinality(1 .. n) = n
  BY <1>1, FS_Interval
<1>4. n <= Cardinality(S)
  BY <1>2, <1>3, FS_Injection
<1>5. q \in Injection(1 .. n, Range(q)) /\ q \in Surjection(1 .. n, Range(q))
  BY <1>1 DEF Injection, Surjection, Range
<1>6. Range(q) \in SUBSET S
  BY <1>1 DEF Range
<1>7. IsFiniteSet(Range(q))
  BY <1>6, FS_Subset
<1>8. Cardinality(Range(q)) = n
  BY <1>3, <1>5, <1>7, FS_Injection
<1> QED
  BY <1>4, <1>8 DEF n
=============================================================================
