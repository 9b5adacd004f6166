--------------------------- MODULE SchedulerProofs ---------------------------
(***************************************************************************)
(* Proofs about Scheduler: the process queues of processQ.c and procPQ.c,  *)
(* linked through pcb.next, hold one sequence of processes each, whatever  *)
(* is done to them except a change of priority of the last process of a    *)
(* queue, and under the scheduling operations they implement FifoScheduler.*)
(*                                                                         *)
(* The sequences are not in the code: the invariant says that there are    *)
(* some.  First what a walk along a list reads, then what each operation   *)
(* does to the sequences, then which process stands on which queue, then   *)
(* one lemma per action, and the theorems at the end.                      *)
(***************************************************************************)
EXTENDS Scheduler, QueueLemmas, TLAPS

(* The lists as values. *)
Lists == [head : [ProcQueues -> Pointer], tail : [ProcQueues -> Pointer], next : [UserProcs -> Pointer]]

(* The links of the queue q lead from its head to its tail through s.  The tail pointer of
   an empty queue may point anywhere. *)
Chain(L, q, s) ==
  IF s = <<>> THEN L.head[q] = NULL
  ELSE /\ L.head[q] = s[1] /\ L.tail[q] = Last(s) /\ L.next[Last(s)] = NULL
       /\ \A i \in 1 .. Len(s) - 1 : L.next[s[i]] = s[i + 1]

LEMMA FiniteProcs ==
  IsFiniteSet(UserProcs) /\ Cardinality(UserProcs) \in Nat /\ NULL \notin UserProcs /\ NullProc \in UserProcs
<1>1. IsFiniteSet(UserProcs)
  BY SchedulerConstants, FS_AddElement DEF UserProcs
<1> QED
  BY <1>1, SchedulerConstants, FS_CardinalityType DEF UserProcs

-----------------------------------------------------------------------------
(* Walking along a list. *)

(* The walk meets the processes of the list, and then the null pointer. *)
LEMMA WalkOfChain ==
  ASSUME NEW L \in Lists, NEW q \in ProcQueues, NEW s \in Seq(UserProcs), Chain(L, q, s)
  PROVE  Walk(L, q) = [i \in 0 .. Cardinality(UserProcs) |-> IF i < Len(s) THEN s[i + 1] ELSE NULL]
<1> DEFINE N == Cardinality(UserProcs)
           W == [i \in 0 .. N |-> IF i < Len(s) THEN s[i + 1] ELSE NULL]
           E(g) == g = [i \in 0 .. N |-> IF i = 0 THEN L.head[q]
                                         ELSE IF g[i - 1] = NULL THEN NULL ELSE L.next[g[i - 1]]]
<1>1. N \in Nat /\ Len(s) \in Nat /\ (s = <<>> <=> Len(s) = 0) /\ NULL \notin UserProcs
      /\ \A i \in 1 .. Len(s) : s[i] \in UserProcs
  BY FiniteProcs, EmptySeq
<1>2. \A i \in 0 .. N : W[i] = IF i < Len(s) THEN s[i + 1] ELSE NULL
  OBVIOUS
<1> HIDE DEF N, W
<1>3. ASSUME NEW i \in 0 .. N
      PROVE  W[i] = IF i = 0 THEN L.head[q] ELSE IF W[i - 1] = NULL THEN NULL ELSE L.next[W[i - 1]]
  <2>1. CASE i = 0
    <3>1. W[0] = IF 0 < Len(s) THEN s[0 + 1] ELSE NULL
      BY <1>2, <2>1
    <3>2. CASE s = <<>>
      BY <1>1, <2>1, <3>1, <3>2 DEF Chain
    <3>3. CASE s # <<>>
      BY <1>1, <2>1, <3>1, <3>3 DEF Chain
    <3> QED
      BY <3>2, <3>3
  <2>2. CASE i # 0
    <3>1. /\ i - 1 \in 0 .. N /\ W[i - 1] = IF i - 1 < Len(s) THEN s[i] ELSE NULL
          /\ W[i] = IF i < Len(s) THEN s[i + 1] ELSE NULL
      <4>1. i - 1 \in 0 .. N /\ (i - 1) + 1 = i
        BY <1>1, <2>2
      <4> QED
        BY <1>2, <4>1
    <3>2. CASE i - 1 >= Len(s)
      BY <1>1, <2>2, <3>1, <3>2
    <3>3. CASE i < Len(s)
      <4>1. s # <<>> /\ i \in 1 .. Len(s) - 1 /\ i \in 1 .. Len(s)
        BY <1>1, <2>2, <3>3
      <4>2. L.next[s[i]] = s[i + 1] /\ s[i] # NULL
        BY <1>1, <4>1 DEF Chain
      <4> QED
        BY <1>1, <2>2, <3>1, <3>3, <4>2
    <3>4. CASE i = Len(s)
      <4>1. s # <<>> /\ i \in 1 .. Len(s)
        BY <1>1, <2>2, <3>4
      <4>2. L.next[s[i]] = NULL /\ s[i] # NULL
        BY <1>1, <3>4, <4>1 DEF Chain, Last
      <4> QED
        BY <1>1, <2>2, <3>1, <3>4, <4>2
    <3> QED
      BY <1>1, <3>2, <3>3, <3>4
  <2> QED
    BY <2>1, <2>2
<1>4. E(W)
  <2>1. W = [i \in 0 .. N |-> W[i]]
    BY DEF W
  <2> QED
    BY <1>3, <2>1
<1>5. ASSUME NEW g, E(g) PROVE g = W
  <2>1. \A i \in 0 .. N : g[i] = IF i = 0 THEN L.head[q] ELSE IF g[i - 1] = NULL THEN NULL ELSE L.next[g[i - 1]]
    BY <1>5
  <2> DEFINE D == {i \in 0 .. N : g[i] # W[i]}
  <2>2. D = {}
    <3> SUFFICES ASSUME D # {} PROVE FALSE
      OBVIOUS
    <3>1. D \in SUBSET Nat
      BY <1>1
    <3>2. PICK k \in D : \A j \in D : k <= j
      BY <3>1, LeastElement
    <3>3. k # 0
      BY <1>1, <1>3, <2>1, <3>2
    <3>4. k - 1 \in 0 .. N /\ k - 1 \notin D
      BY <1>1, <3>2, <3>3
    <3>5. g[k - 1] = W[k - 1]
      BY <3>4
    <3> QED
      BY <1>3, <2>1, <3>2, <3>3, <3>5
  <2>3. g = [i \in 0 .. N |-> g[i]] /\ W = [i \in 0 .. N |-> W[i]]
    BY <1>5 DEF W
  <2> QED
    BY <2>2, <2>3
<1>6. Walk(L, q) = CHOOSE g : E(g)
  BY DEF Walk, N
<1>7. E(CHOOSE g : E(g))
  BY <1>4
<1> QED
  BY <1>5, <1>6, <1>7 DEF W, N

ContentsOf(L, q) == [i \in 1 .. Cardinality(Members(L, q)) |-> Walk(L, q)[i - 1]]

(* What is met on the way is the sequence. *)
LEMMA ContentsOfChain ==
  ASSUME NEW L \in Lists, NEW q \in ProcQueues, NEW s \in Seq(UserProcs), IsInjective(s), Chain(L, q, s)
  PROVE  Members(L, q) = Range(s) /\ ContentsOf(L, q) = s
<1> DEFINE N == Cardinality(UserProcs)
<1>1. /\ N \in Nat /\ Len(s) \in Nat /\ Len(s) <= N /\ Cardinality(Range(s)) = Len(s) /\ DOMAIN s = 1 .. Len(s)
      /\ NULL \notin UserProcs /\ \A i \in 1 .. Len(s) : s[i] \in UserProcs
  BY FiniteProcs, InjectiveFits
<1>2. \A i \in 0 .. N : Walk(L, q)[i] = IF i < Len(s) THEN s[i + 1] ELSE NULL
  <2>1. Walk(L, q) = [i \in 0 .. N |-> IF i < Len(s) THEN s[i + 1] ELSE NULL]
    BY WalkOfChain
  <2> QED
    BY <2>1
<1> HIDE DEF N
<1>3. Members(L, q) = Range(s)
  <2>1. ASSUME NEW x \in Members(L, q) PROVE x \in Range(s)
    <3>1. PICK i \in 0 .. N : x = Walk(L, q)[i] /\ x # NULL
      BY DEF Members, N
    <3>2. i < Len(s) /\ x = s[i + 1] /\ i + 1 \in 1 .. Len(s)
      BY <1>1, <1>2, <3>1
    <3> QED
      BY <1>1, <3>2 DEF Range
  <2>2. ASSUME NEW x \in Range(s) PROVE x \in Members(L, q)
    <3>1. PICK i \in 1 .. Len(s) : x = s[i]
      BY <1>1 DEF Range
    <3>2. i - 1 \in 0 .. N /\ i - 1 < Len(s) /\ (i - 1) + 1 = i
      BY <1>1
    <3>3. x = Walk(L, q)[i - 1] /\ x # NULL
      BY <1>1, <1>2, <3>1, <3>2
    <3> QED
      BY <3>2, <3>3 DEF Members, N
  <2> QED
    BY <2>1, <2>2
<1>4. \A i \in 1 .. Len(s) : Walk(L, q)[i - 1] = s[i]
  <2> TAKE i \in 1 .. Len(s)
  <2>1. i - 1 \in 0 .. N /\ i - 1 < Len(s) /\ (i - 1) + 1 = i
    BY <1>1
  <2> QED
    BY <1>2, <2>1
<1>5. s = [i \in 1 .. Len(s) |-> s[i]]
  BY <1>1
<1> QED
  BY <1>1, <1>3, <1>4, <1>5 DEF ContentsOf

-----------------------------------------------------------------------------
(* The operations of processQ.c on the lists that hold the sequences g. *)

(* A sequence without one of its elements, which occurs in place j. *)
LEMMA ElementRemoved ==
  ASSUME NEW S, NEW s \in Seq(S), IsInjective(s), NEW j \in 1 .. Len(s)
  PROVE  LET t == RemoveFirst(s, s[j])
         IN  /\ t \in Seq(S) /\ Len(t) = Len(s) - 1
             /\ \A i \in 1 .. Len(s) - 1 : t[i] = IF i < j THEN s[i] ELSE s[i + 1]
             /\ IsInjective(t) /\ Range(t) = Range(s) \ {s[j]}
<1> DEFINE I == {i \in 1 .. Len(s) : s[i] = s[j]}
           t == RemoveFirst(s, s[j])
           n == Len(s)
<1>1. n \in Nat /\ DOMAIN s = 1 .. n /\ \A i \in 1 .. n : s[i] \in S
  OBVIOUS
<1>2. I = {j}
  BY <1>1 DEF IsInjective
<1>3. Min({j}) = j
  BY DEF Min
<1>4. t = RemoveAt(s, Min(I))
  BY DEF RemoveFirst, SelectInSeq
<1>5. t = SubSeq(s, 1, j - 1) \o SubSeq(s, j + 1, n)
  <2> HIDE DEF I, t
  <2>1. t = RemoveAt(s, j)
    BY <1>2, <1>3, <1>4
  <2> QED
    BY <2>1 DEF RemoveAt
<1> HIDE DEF I, t
<1>6. /\ t \in Seq(S) /\ Len(t) = n - 1
      /\ \A i \in 1 .. n - 1 : t[i] = IF i < j THEN s[i] ELSE s[i + 1]
  <2> DEFINE a == SubSeq(s, 1, j - 1)
             b == SubSeq(s, j + 1, n)
  <2>1. a \in Seq(S) /\ Len(a) = j - 1 /\ \A i \in 1 .. j - 1 : a[i] = s[i]
    BY <1>1
  <2>2. b \in Seq(S) /\ Len(b) = n - j /\ \A i \in 1 .. n - j : b[i] = s[j + i]
    <3>1. n \in Int /\ j \in Int /\ j + 1 \in Int /\ j <= n /\ \A i \in j + 1 .. n : i \in 1 .. n
      BY <1>1
    <3> HIDE DEF n
    <3>2. \A i \in j + 1 .. n : s[i] \in S
      BY <1>1, <3>1
    <3>3. /\ b \in Seq(S) /\ Len(b) = IF j + 1 <= n THEN n - (j + 1) + 1 ELSE 0
          /\ \A i \in 1 .. n - (j + 1) + 1 : b[i] = s[(j + 1) + i - 1]
      BY <3>1, <3>2, SubSeqProperties
    <3> HIDE DEF b
    <3>4. \A i \in 1 .. n - j : i \in 1 .. n - (j + 1) + 1 /\ (j + 1) + i - 1 = j + i
      BY <3>1
    <3> QED
      BY <3>1, <3>3, <3>4
  <2> HIDE DEF a, b
  <2>3. /\ t \in Seq(S) /\ Len(t) = Len(a) + Len(b)
        /\ \A i \in 1 .. Len(a) + Len(b) : t[i] = IF i <= Len(a) THEN a[i] ELSE b[i - Len(a)]
    BY <1>5, <2>1, <2>2, ConcatProperties DEF a, b
  <2>4. Len(t) = n - 1
    BY <1>1, <2>1, <2>2, <2>3
  <2>5. ASSUME NEW i \in 1 .. n - 1 PROVE t[i] = IF i < j THEN s[i] ELSE s[i + 1]
    <3>1. CASE i < j
      <4>1. i \in 1 .. j - 1 /\ i <= Len(a) /\ i \in 1 .. Len(a) + Len(b)
        BY <1>1, <2>1, <2>2, <3>1
      <4>2. t[i] = a[i] /\ a[i] = s[i]
        BY <2>1, <2>3, <4>1
      <4> QED
        BY <3>1, <4>2
    <3>2. CASE i >= j
      <4>1. i - Len(a) \in 1 .. n - j /\ j + (i - Len(a)) = i + 1 /\ ~ (i <= Len(a)) /\ i \in 1 .. Len(a) + Len(b)
        BY <1>1, <2>1, <2>2, <3>2
      <4>2. t[i] = b[i - Len(a)] /\ b[i - Len(a)] = s[j + (i - Len(a))]
        BY <2>2, <2>3, <4>1
      <4> QED
        BY <1>1, <3>2, <4>1, <4>2
    <3> QED
      BY <1>1, <3>1, <3>2
  <2> QED
    BY <2>3, <2>4, <2>5
<1> DEFINE at(i) == IF i < j THEN i ELSE i + 1
<1>7. \A i \in 1 .. n - 1 : at(i) \in 1 .. n /\ at(i) # j /\ t[i] = s[at(i)]
  BY <1>1, <1>6
<1>8. \A x, y \in 1 .. n - 1 : at(x) = at(y) => x = y
  BY <1>1
<1>9. \A i \in 1 .. n : i # j => \E x \in 1 .. n - 1 : at(x) = i
  <2> TAKE i \in 1 .. n
  <2>1. i < j => i \in 1 .. n - 1 /\ at(i) = i
    BY <1>1
  <2>2. i > j => i - 1 \in 1 .. n - 1 /\ at(i - 1) = i
    BY <1>1
  <2> HIDE DEF at
  <2> QED
    BY <1>1, <2>1, <2>2
<1> HIDE DEF at, n
<1>10. IsInjective(t)
  <2>1. DOMAIN t = 1 .. n - 1
    BY <1>6
  <2> QED
    BY <1>1, <1>7, <1>8, <2>1 DEF IsInjective
<1>11. Range(t) = Range(s) \ {s[j]}
  <2>1. DOMAIN t = 1 .. n - 1
    BY <1>6
  <2>2. Range(t) \subseteq Range(s) \ {s[j]}
    BY <1>1, <1>7, <2>1 DEF IsInjective, Range, n
  <2>3. ASSUME NEW x \in Range(s), x # s[j] PROVE x \in Range(t)
    <3>1. PICK i \in 1 .. n : x = s[i]
      BY <1>1 DEF Range
    <3>2. PICK k \in 1 .. n - 1 : at(k) = i
      BY <1>9, <2>3, <3>1
    <3> QED
      BY <1>7, <2>1, <3>1, <3>2 DEF Range
  <2> QED
    BY <2>2, <2>3
<1> QED
  BY <1>6, <1>10, <1>11 DEF t, n

(* Each queue is a chain, no process is in two, and one that is in none is not linked. *)
Whole(L, g) ==
  /\ L \in Lists /\ g \in [ProcQueues -> Seq(UserProcs)]
  /\ \A q \in ProcQueues : Chain(L, q, g[q]) /\ IsInjective(g[q])
  /\ \A q, r \in ProcQueues : q # r => Range(g[q]) \cap Range(g[r]) = {}
  /\ \A p \in UserProcs : (\A q \in ProcQueues : p \notin Range(g[q])) => L.next[p] = NULL

LEMMA ChainEnds ==
  ASSUME NEW L \in Lists, NEW q \in ProcQueues, NEW s \in Seq(UserProcs), Chain(L, q, s)
  PROVE  /\ proc_q_is_empty(L, q) <=> s = <<>>
         /\ s # <<>> => /\ L.head[q] = s[1] /\ L.tail[q] = s[Len(s)]
                        /\ s[1] = Head(s) /\ s[1] \in UserProcs /\ s[Len(s)] \in UserProcs
                        /\ s[1] \in Range(s) /\ s[Len(s)] \in Range(s)
                        /\ 1 \in 1 .. Len(s) /\ Len(s) \in 1 .. Len(s)
<1>1. CASE s = <<>>
  BY <1>1 DEF Chain, proc_q_is_empty
<1>2. CASE s # <<>>
  <2>1. /\ 1 \in 1 .. Len(s) /\ Len(s) \in 1 .. Len(s) /\ DOMAIN s = 1 .. Len(s) /\ s[1] = Head(s)
        /\ \A i \in 1 .. Len(s) : s[i] \in UserProcs
    BY <1>2, EmptySeq
  <2>2. L.head[q] = s[1] /\ L.tail[q] = s[Len(s)]
    BY <1>2 DEF Chain, Last
  <2> QED
    BY <1>2, <2>1, <2>2, FiniteProcs DEF Range, proc_q_is_empty
<1> QED
  BY <1>1, <1>2

(* A chain depends on its own ends and links alone. *)
LEMMA ChainFrame ==
  ASSUME NEW L \in Lists, NEW M \in Lists, NEW q \in ProcQueues, NEW s \in Seq(UserProcs), Chain(L, q, s),
         M.head[q] = L.head[q], M.tail[q] = L.tail[q], \A x \in Range(s) : M.next[x] = L.next[x]
  PROVE  Chain(M, q, s)
<1>1. CASE s = <<>>
  BY <1>1 DEF Chain
<1>2. CASE s # <<>>
  <2>1. \A i \in 1 .. Len(s) : s[i] \in Range(s)
    BY LenProperties DEF Range
  <2>2. Len(s) \in 1 .. Len(s) /\ \A i \in 1 .. Len(s) - 1 : i \in 1 .. Len(s)
    BY <1>2, EmptySeq
  <2> QED
    BY <1>2, <2>1, <2>2 DEF Chain, Last
<1> QED
  BY <1>1, <1>2

(* What an operation on the queue q must do. *)
LEMMA WholeChanged ==
  ASSUME NEW L, NEW g, Whole(L, g), NEW q \in ProcQueues, NEW M \in Lists, NEW t \in Seq(UserProcs),
         NEW p \in UserProcs, Chain(M, q, t), IsInjective(t),
         \A r \in ProcQueues \ {q} : M.head[r] = L.head[r] /\ M.tail[r] = L.tail[r] /\ p \notin Range(g[r]),
         \A x \in UserProcs : x # p /\ x \notin Range(g[q]) => M.next[x] = L.next[x],
         Range(g[q]) \subseteq Range(t) \cup {p}, Range(t) \subseteq Range(g[q]) \cup {p},
         p \notin Range(t) => M.next[p] = NULL
  PROVE  Whole(M, [g EXCEPT ![q] = t])
<1> DEFINE h == [g EXCEPT ![q] = t]
<1>1. /\ h \in [ProcQueues -> Seq(UserProcs)] /\ h[q] = t
      /\ \A r \in ProcQueues : r # q => h[r] = g[r]
  BY DEF Whole
<1>2. \A r \in ProcQueues : r # q => Range(g[r]) \cap (Range(g[q]) \cup {p}) = {} /\ Range(g[r]) \subseteq UserProcs
  <2>1. \A r \in ProcQueues : g[r] \in Seq(UserProcs)
    BY DEF Whole
  <2>2. \A s \in Seq(UserProcs) : Range(s) \subseteq UserProcs
    BY DEF Range
  <2> QED
    BY <2>1, <2>2 DEF Whole
<1>3. \A r \in ProcQueues : Chain(M, r, h[r]) /\ IsInjective(h[r])
  <2> TAKE r \in ProcQueues
  <2>1. CASE r = q
    BY <1>1, <2>1
  <2>2. CASE r # q
    <3>1. \A x \in Range(g[r]) : M.next[x] = L.next[x]
      BY <1>2, <2>2
    <3>2. L \in Lists /\ g[r] \in Seq(UserProcs) /\ Chain(L, r, g[r]) /\ IsInjective(g[r])
      BY DEF Whole
    <3>3. Chain(M, r, g[r])
      BY <2>2, <3>1, <3>2, ChainFrame
    <3> QED
      BY <1>1, <2>2, <3>2, <3>3
  <2> QED
    BY <2>1, <2>2
<1>4. \A r, u \in ProcQueues : r # u => Range(h[r]) \cap Range(h[u]) = {}
  <2>1. \A r, u \in ProcQueues : r # u => Range(g[r]) \cap Range(g[u]) = {}
    BY DEF Whole
  <2> QED
    BY <1>1, <1>2, <2>1
<1>5. \A x \in UserProcs : (\A r \in ProcQueues : x \notin Range(h[r])) => M.next[x] = NULL
  <2> SUFFICES ASSUME NEW x \in UserProcs, \A r \in ProcQueues : x \notin Range(h[r]) PROVE M.next[x] = NULL
    OBVIOUS
  <2>1. x \notin Range(t) /\ \A r \in ProcQueues : r # q => x \notin Range(g[r])
    BY <1>1
  <2>2. CASE x = p
    BY <2>1, <2>2
  <2>3. CASE x # p
    <3>1. x \notin Range(g[q])
      BY <2>1, <2>3
    <3>2. L.next[x] = NULL
      BY <2>1, <3>1 DEF Whole
    <3> QED
      BY <2>3, <3>1, <3>2
  <2> QED
    BY <2>2, <2>3
<1> HIDE DEF h
<1>6. Whole(M, h)
  BY <1>1, <1>3, <1>4, <1>5 DEF Whole
<1> QED
  BY <1>6 DEF h

(* At the tail. *)
LEMMA WholeEnqueue ==
  ASSUME NEW L, NEW g, Whole(L, g), NEW q \in ProcQueues, NEW p \in UserProcs,
         \A r \in ProcQueues : p \notin Range(g[r])
  PROVE  Whole(proc_q_enqueue(L, q, p), [g EXCEPT ![q] = Append(@, p)])
<1> DEFINE M == proc_q_enqueue(L, q, p)
           s == g[q]
           t == Append(s, p)
<1>1. L \in Lists /\ s \in Seq(UserProcs) /\ Chain(L, q, s) /\ IsInjective(s) /\ p \notin Range(s)
  BY DEF Whole
<1>2. /\ t \in Seq(UserProcs) /\ t # <<>> /\ IsInjective(t) /\ Range(t) = Range(s) \cup {p}
      /\ Len(t) = Len(s) + 1 /\ Len(s) \in Nat /\ t[Len(t)] = p /\ \A i \in 1 .. Len(s) : t[i] = s[i]
  BY <1>1, Enqueued, AppendProperties
<1>3. CASE s = <<>>
  <2>1. M = [L EXCEPT !.head[q] = p, !.tail[q] = p, !.next[p] = NULL]
    BY <1>1, <1>3, ChainEnds, ZenonT(40) DEF proc_q_enqueue
  <2> HIDE DEF M
  <2>2. /\ M \in Lists /\ M.head[q] = p /\ M.tail[q] = p /\ M.next[p] = NULL
        /\ \A r \in ProcQueues \ {q} : M.head[r] = L.head[r] /\ M.tail[r] = L.tail[r]
        /\ \A x \in UserProcs : x # p => M.next[x] = L.next[x]
    BY <1>1, <2>1 DEF Lists, Pointer
  <2>3. Len(t) = 1 /\ t # <<>> /\ t[1] = p
    BY <1>2, <1>3
  <2> HIDE DEF t
  <2>4. Chain(M, q, t)
    <3>1. Last(t) = p /\ t[1] = p /\ t # <<>> /\ \A i \in 1 .. Len(t) - 1 : FALSE
      BY <2>3 DEF Last
    <3> QED
      BY <2>2, <3>1 DEF Chain
  <2>5. Whole(M, [g EXCEPT ![q] = t])
    BY <1>1, <1>2, <2>2, <2>4, WholeChanged
  <2> QED
    BY <2>5 DEF M, t
<1>4. CASE s # <<>>
  <2> DEFINE l == s[Len(s)]
  <2>1. L.head[q] = s[1] /\ L.tail[q] = l /\ l \in UserProcs /\ l \in Range(s) /\ l # p
        /\ ~ proc_q_is_empty(L, q) /\ 1 \in 1 .. Len(s) /\ Len(s) \in 1 .. Len(s)
    BY <1>1, <1>4, ChainEnds
  <2>2. M = [L EXCEPT !.next[l] = p, !.tail[q] = p, !.next[p] = NULL]
    BY <2>1 DEF proc_q_enqueue
  <2> HIDE DEF M, l
  <2>3. /\ M \in Lists /\ M.head = L.head /\ M.tail[q] = p /\ M.next[p] = NULL /\ M.next[l] = p
        /\ \A r \in ProcQueues \ {q} : M.tail[r] = L.tail[r]
        /\ \A x \in UserProcs : x # p /\ x # l => M.next[x] = L.next[x]
    BY <1>1, <2>1, <2>2 DEF Lists, Pointer
  <2>4. Chain(M, q, t)
    <3>1. M.head[q] = t[1] /\ M.tail[q] = t[Len(t)] /\ M.next[t[Len(t)]] = NULL
      BY <1>2, <2>1, <2>3
    <3>2. \A i \in 1 .. Len(t) - 1 : M.next[t[i]] = t[i + 1]
      <4> TAKE i \in 1 .. Len(t) - 1
      <4>1. i \in 1 .. Len(s) /\ t[i] = s[i]
        BY <1>2
      <4>2. CASE i = Len(s)
        <5>1. t[i + 1] = p
          BY <1>2, <4>2
        <5> QED
          BY <2>3, <4>1, <4>2, <5>1 DEF l
      <4>3. CASE i # Len(s)
        <5>1. i \in 1 .. Len(s) - 1 /\ i + 1 \in 1 .. Len(s)
          BY <1>2, <4>1, <4>3
        <5>2. s[i] \in UserProcs /\ s[i] # l /\ s[i] # p
          BY <1>1, <2>1, <4>1, <4>3 DEF IsInjective, Range, l
        <5>3. L.next[s[i]] = s[i + 1]
          BY <1>1, <1>4, <5>1 DEF Chain
        <5> QED
          BY <1>2, <2>3, <4>1, <5>1, <5>2, <5>3
      <4> QED
        BY <4>2, <4>3
    <3> HIDE DEF t
    <3> QED
      BY <1>2, <3>1, <3>2 DEF Chain, Last
  <2> HIDE DEF t
  <2>5. Whole(M, [g EXCEPT ![q] = t])
    BY <1>1, <1>2, <2>1, <2>3, <2>4, WholeChanged, SMTT(30)
  <2> QED
    BY <2>5 DEF M, t
<1> QED
  BY <1>3, <1>4

(* At the head. *)
LEMMA WholeDequeue ==
  ASSUME NEW L, NEW g, Whole(L, g), NEW q \in ProcQueues, g[q] # <<>>
  PROVE  Whole(proc_q_dequeue(L, q), [g EXCEPT ![q] = Tail(@)])
<1> DEFINE M == proc_q_dequeue(L, q)
           s == g[q]
           t == Tail(s)
           p == s[1]
<1>1. L \in Lists /\ s \in Seq(UserProcs) /\ Chain(L, q, s) /\ IsInjective(s)
  BY DEF Whole
<1>2. /\ L.head[q] = p /\ L.tail[q] = s[Len(s)] /\ p = Head(s) /\ p \in UserProcs /\ p \in Range(s)
      /\ Len(s) \in 1 .. Len(s) /\ 1 \in 1 .. Len(s)
  BY <1>1, ChainEnds
<1>3. /\ t \in Seq(UserProcs) /\ IsInjective(t) /\ Range(t) = Range(s) \ {p}
      /\ Len(t) = Len(s) - 1 /\ \A i \in 1 .. Len(t) : t[i] = s[i + 1]
  BY <1>1, <1>2, Dequeued, HeadTailProperties
<1>4. M = [L EXCEPT !.head[q] = L.next[p], !.next[p] = NULL]
  BY <1>2 DEF proc_q_dequeue
<1> HIDE DEF M, p
<1>5. /\ M \in Lists /\ M.head[q] = L.next[p] /\ M.tail = L.tail /\ M.next[p] = NULL
      /\ \A r \in ProcQueues \ {q} : M.head[r] = L.head[r]
      /\ \A x \in UserProcs : x # p => M.next[x] = L.next[x]
  BY <1>1, <1>2, <1>4 DEF Lists, Pointer
<1>6. Chain(M, q, t)
  <2>1. CASE Len(s) = 1
    <3>1. t = <<>>
      <4>1. Len(t) = 0
        BY <1>3, <2>1
      <4> HIDE DEF t
      <4> QED
        BY <1>3, <4>1, EmptySeq
    <3>2. L.next[p] = NULL
      BY <1>1, <2>1 DEF Chain, Last, p
    <3> QED
      BY <1>5, <3>1, <3>2 DEF Chain
  <2>2. CASE Len(s) # 1
    <3> DEFINE n == Len(s)
    <3>1. n \in Nat /\ n >= 2 /\ Len(t) = n - 1 /\ t # <<>>
      <4>1. n \in Nat /\ n # 0 /\ n # 1
        BY <1>2, <2>2
      <4>2. Len(t) # 0
        BY <1>3, <4>1
      <4> HIDE DEF t
      <4>3. Len(t) = n - 1
        BY <1>3
      <4> HIDE DEF n
      <4>4. n >= 2
        BY <4>1
      <4>5. t # <<>>
        BY <1>3, <4>2, EmptySeq
      <4> QED
        BY <4>1, <4>3, <4>5, <4>4
    <3>2. /\ \A i \in 1 .. n - 1 : L.next[s[i]] = s[i + 1]
          /\ L.next[s[n]] = NULL
      BY <1>1 DEF Chain, Last
    <3>3. \A i \in 2 .. n : M.next[s[i]] = L.next[s[i]]
      <4> TAKE i \in 2 .. n
      <4>1. i \in 1 .. n /\ i # 1 /\ 1 \in 1 .. n
        BY <3>1
      <4>2. s[i] \in UserProcs /\ s[i] # p
        BY <1>1, <4>1 DEF IsInjective, p
      <4> QED
        BY <1>5, <4>2
    <3>4. M.head[q] = t[1] /\ M.tail[q] = t[Len(t)] /\ M.next[t[Len(t)]] = NULL
      <4>1. 1 \in 1 .. n - 1 /\ 1 \in 1 .. Len(t) /\ Len(t) \in 1 .. Len(t) /\ Len(t) + 1 = n /\ n \in 2 .. n
        BY <3>1
      <4>2. t[1] = s[2] /\ t[Len(t)] = s[n] /\ L.next[s[1]] = s[2]
        BY <1>3, <3>2, <4>1
      <4> QED
        BY <1>2, <1>5, <3>2, <3>3, <4>1, <4>2 DEF p
    <3>5. \A i \in 1 .. Len(t) - 1 : M.next[t[i]] = t[i + 1]
      <4> TAKE i \in 1 .. Len(t) - 1
      <4>1. i \in 1 .. Len(t) /\ i + 1 \in 1 .. Len(t) /\ i + 1 \in 2 .. n /\ i + 1 \in 1 .. n - 1
        BY <3>1
      <4>2. t[i] = s[i + 1] /\ t[i + 1] = s[(i + 1) + 1]
        BY <1>3, <4>1
      <4>3. M.next[s[i + 1]] = s[(i + 1) + 1]
        BY <3>2, <3>3, <4>1
      <4> QED
        BY <4>2, <4>3
    <3> HIDE DEF t
    <3> QED
      BY <3>1, <3>4, <3>5 DEF Chain, Last
  <2> QED
    BY <2>1, <2>2
<1>7. \A r \in ProcQueues \ {q} : p \notin Range(g[r])
  BY <1>2 DEF Whole
<1> HIDE DEF t
<1>8. Range(g[q]) \subseteq Range(t) \cup {p} /\ Range(t) \subseteq Range(g[q]) \cup {p}
  BY <1>3
<1>9. \A x \in UserProcs : x # p /\ x \notin Range(g[q]) => M.next[x] = L.next[x]
  BY <1>5
<1>10. \A r \in ProcQueues \ {q} : M.head[r] = L.head[r] /\ M.tail[r] = L.tail[r] /\ p \notin Range(g[r])
  BY <1>5, <1>7
<1>11. /\ M \in Lists /\ t \in Seq(UserProcs) /\ p \in UserProcs /\ IsInjective(t)
       /\ p \notin Range(t) => M.next[p] = NULL
  BY <1>2, <1>3, <1>5
<1> HIDE DEF s
<1>12. Whole(M, [g EXCEPT ![q] = t])
  BY <1>6, <1>8, <1>9, <1>10, <1>11, WholeChanged
<1> QED
  BY <1>12 DEF M, t, s

(* From the place it has. *)
LEMMA WholeRemove ==
  ASSUME NEW L, NEW g, Whole(L, g), NEW q \in ProcQueues, NEW p \in Range(g[q]),
         L.tail[q] = p => L.head[q] = p
  PROVE  Whole(proc_q_remove(L, q, p), [g EXCEPT ![q] = RemoveFirst(@, p)])
<1> DEFINE M == proc_q_remove(L, q, p)
           s == g[q]
           t == RemoveFirst(s, p)
           n == Len(s)
<1>1. /\ L \in Lists /\ s \in Seq(UserProcs) /\ Chain(L, q, s) /\ IsInjective(s)
      /\ DOMAIN s = 1 .. n /\ n \in Nat /\ \A i \in 1 .. n : s[i] \in UserProcs /\ s[i] \in Range(s)
  BY LenProperties DEF Whole, Range
<1>2. PICK j \in 1 .. n : p = s[j]
  BY <1>1 DEF Range
<1>3. s # <<>> /\ p \in UserProcs
  BY <1>1, <1>2
<1>4. /\ L.head[q] = s[1] /\ L.tail[q] = s[n] /\ 1 \in 1 .. n /\ n \in 1 .. n /\ s[1] = Head(s)
      /\ ~ proc_q_is_empty(L, q)
  BY <1>1, <1>3, ChainEnds
<1>5. /\ t \in Seq(UserProcs) /\ Len(t) = n - 1 /\ IsInjective(t) /\ Range(t) = Range(s) \ {p}
      /\ \A i \in 1 .. n - 1 : t[i] = IF i < j THEN s[i] ELSE s[i + 1]
  <2>1. s \in Seq(UserProcs) /\ IsInjective(s) /\ j \in 1 .. Len(s) /\ t = RemoveFirst(s, s[j])
    BY <1>1, <1>2
  <2> HIDE DEF s, t
  <2>2. /\ t \in Seq(UserProcs) /\ Len(t) = Len(s) - 1
        /\ \A i \in 1 .. Len(s) - 1 : t[i] = IF i < j THEN s[i] ELSE s[i + 1]
        /\ IsInjective(t) /\ Range(t) = Range(s) \ {s[j]}
    BY ONLY <2>1, ElementRemoved, ZenonT(40)
  <2> QED
    BY <1>2, <2>2
<1>6. CASE j = 1
  <2>1. M = proc_q_dequeue(L, q)
    BY <1>2, <1>4, <1>6 DEF proc_q_remove
  <2>2. t = Tail(s)
    <3>1. \A i \in 1 .. n - 1 : t[i] = s[i + 1]
      BY <1>5, <1>6
    <3>2. Tail(s) \in Seq(UserProcs) /\ Len(Tail(s)) = n - 1 /\ \A i \in 1 .. n - 1 : Tail(s)[i] = s[i + 1]
      BY <1>1, <1>3, HeadTailProperties
    <3> HIDE DEF t, n
    <3> QED
      BY <1>5, <3>1, <3>2, SeqEqual
  <2>3. Whole(proc_q_dequeue(L, q), [g EXCEPT ![q] = Tail(@)])
    BY <1>3, WholeDequeue
  <2> QED
    BY <2>1, <2>2, <2>3
<1>7. CASE j # 1
  <2>1. j \in 2 .. n - 1 /\ L.head[q] # p
    <3>1. s[1] # s[j]
      BY <1>1, <1>4, <1>7 DEF IsInjective
    <3>2. j # n
      BY <1>2, <1>4, <3>1
    <3> QED
      BY <1>1, <1>2, <1>4, <1>7, <3>1, <3>2
  <2> DEFINE N == Cardinality(UserProcs)
             W == Walk(L, q)
             at == {i \in 1 .. N : W[i] = p}
             v == s[j - 1]
  <2>2. N \in Nat /\ n <= N /\ NULL \notin UserProcs
    BY <1>1, FiniteProcs, InjectiveFits
  <2>3. \A i \in 0 .. N : W[i] = IF i < n THEN s[i + 1] ELSE NULL
    <3>1. W = [i \in 0 .. N |-> IF i < n THEN s[i + 1] ELSE NULL]
      BY <1>1, WalkOfChain
    <3> QED
      BY <3>1
  <2> HIDE DEF W, N
  <2>4. at = {j - 1}
    <3>1. j - 1 \in 1 .. N /\ j - 1 \in 0 .. N /\ j - 1 < n /\ (j - 1) + 1 = j
      BY <2>1, <2>2
    <3>2. W[j - 1] = p
      BY <1>2, <2>3, <3>1
    <3>3. ASSUME NEW i \in 1 .. N, W[i] = p PROVE i = j - 1
      <4>1. i \in 0 .. N /\ i + 1 \in Int
        BY <2>2
      <4>2. i < n /\ s[i + 1] = s[j]
        BY <1>2, <1>3, <2>2, <2>3, <3>3, <4>1
      <4>3. i + 1 \in 1 .. n
        BY <2>2, <4>2
      <4>4. i + 1 = j
        BY <1>1, <1>2, <4>2, <4>3 DEF IsInjective
      <4> QED
        BY <2>2, <4>4
    <3> QED
      BY <3>1, <3>2, <3>3
  <2>5. (CHOOSE i \in at : \A k \in at : i <= k) = j - 1
    <3> HIDE DEF at
    <3>1. j - 1 \in at /\ \A k \in at : j - 1 <= k
      BY <2>1, <2>4
    <3> QED
      BY <2>4, <3>1
  <2>6. W[(j - 1) - 1] = v
    <3>1. (j - 1) - 1 \in 0 .. N /\ (j - 1) - 1 < n /\ ((j - 1) - 1) + 1 = j - 1
      BY <2>1, <2>2
    <3> QED
      BY <2>3, <3>1
  <2>7. M = [L EXCEPT !.next[v] = L.next[p], !.next[p] = NULL]
    <3>1. at # {} /\ at = {i \in 1 .. Cardinality(UserProcs) : Walk(L, q)[i] = p}
      BY <2>4 DEF W, N
    <3> HIDE DEF at
    <3>2. M = [L EXCEPT !.next[W[(CHOOSE i \in at : \A k \in at : i <= k) - 1]] = L.next[p], !.next[p] = NULL]
      BY <1>4, <2>1, <3>1 DEF proc_q_remove, W
    <3> HIDE DEF M
    <3> QED
      BY <2>5, <2>6, <3>2
  <2>8. j - 1 \in 1 .. n /\ j \in 1 .. n /\ j + 1 \in 1 .. n /\ j - 1 # j /\ j \in 1 .. n - 1 /\ j - 1 \in 1 .. n - 1
    BY <2>1
  <2>9. v \in UserProcs /\ v \in Range(s) /\ v # p
    BY <1>1, <1>2, <2>8 DEF IsInjective
  <2>10. /\ \A i \in 1 .. n - 1 : L.next[s[i]] = s[i + 1]
         /\ L.next[s[n]] = NULL
    BY <1>1, <1>3 DEF Chain, Last
  <2>11. L.next[p] = s[j + 1] /\ L.next[p] \in UserProcs
    BY <1>1, <1>2, <2>8, <2>10
  <2> HIDE DEF M, v
  <2>12. /\ M \in Lists /\ M.head = L.head /\ M.tail = L.tail /\ M.next[p] = NULL /\ M.next[v] = s[j + 1]
         /\ \A x \in UserProcs : x # p /\ x # v => M.next[x] = L.next[x]
    BY <1>1, <1>3, <2>7, <2>9, <2>11 DEF Lists, Pointer
  <2>13. Chain(M, q, t)
    <3>1. n >= 3 /\ Len(t) \in 1 .. n - 1 /\ 1 \in 1 .. n - 1 /\ n - 1 \in 1 .. n - 1 /\ 1 < j /\ ~ (n - 1 < j)
          /\ (n - 1) + 1 = n /\ Len(t) # 0
      BY <1>1, <1>5, <2>1
    <3>2. M.head[q] = t[1] /\ t[Len(t)] = s[n] /\ M.tail[q] = t[Len(t)]
      BY <1>4, <1>5, <2>12, <3>1
    <3>3. \A i \in 1 .. n : i # j /\ i # j - 1 => M.next[s[i]] = L.next[s[i]]
      <4> TAKE i \in 1 .. n
      <4>1. i # j /\ i # j - 1 => s[i] # p /\ s[i] # v
        BY <1>1, <1>2, <2>8 DEF IsInjective, v
      <4> QED
        BY <1>1, <2>12, <4>1
    <3>4. M.next[s[n]] = NULL
      BY <2>1, <2>10, <3>1, <3>3, SMTT(30)
    <3>5. \A i \in 1 .. Len(t) - 1 : M.next[t[i]] = t[i + 1]
      <4> TAKE i \in 1 .. Len(t) - 1
      <4>1. i \in 1 .. n - 1 /\ i + 1 \in 1 .. n - 1 /\ i \in 1 .. n /\ i + 1 \in 1 .. n
        BY <1>1, <1>5
      <4>2. /\ t[i] = IF i < j THEN s[i] ELSE s[i + 1]
            /\ t[i + 1] = IF i + 1 < j THEN s[i + 1] ELSE s[(i + 1) + 1]
        BY <1>5, <4>1
      <4>3. CASE i + 1 < j
        <5>1. i < j /\ i # j /\ i # j - 1
          BY <1>1, <2>1, <4>1, <4>3
        <5> QED
          BY <2>10, <3>3, <4>1, <4>2, <4>3, <5>1
      <4>4. CASE i + 1 = j
        <5>1. i < j /\ ~ (i + 1 < j) /\ i = j - 1
          BY <1>1, <2>1, <4>1, <4>4
        <5>2. t[i] = v /\ t[i + 1] = s[j + 1]
          BY <4>2, <4>4, <5>1 DEF v
        <5> QED
          BY <2>12, <5>2
      <4>5. CASE i + 1 > j
        <5>1. ~ (i < j) /\ ~ (i + 1 < j) /\ i + 1 # j /\ i + 1 # j - 1
          BY <1>1, <2>1, <4>1, <4>5
        <5> QED
          BY <2>10, <3>3, <4>1, <4>2, <5>1
      <4> QED
        BY <1>1, <2>1, <4>1, <4>3, <4>4, <4>5
    <3> HIDE DEF t
    <3>6. t # <<>>
      BY <1>5, <3>1, EmptySeq
    <3>7. M.next[t[Len(t)]] = NULL
      BY <3>2, <3>4
    <3> QED
      BY <3>2, <3>5, <3>6, <3>7 DEF Chain, Last
  <2>14. \A r \in ProcQueues \ {q} : M.head[r] = L.head[r] /\ M.tail[r] = L.tail[r] /\ p \notin Range(g[r])
    BY <2>12 DEF Whole
  <2>15. Range(g[q]) \subseteq Range(t) \cup {p} /\ Range(t) \subseteq Range(g[q]) \cup {p} /\ p \notin Range(t)
    BY <1>5
  <2>16. \A x \in UserProcs : x # p /\ x \notin Range(g[q]) => M.next[x] = L.next[x]
    BY <2>9, <2>12
  <2>17. M \in Lists /\ M.next[p] = NULL /\ t \in Seq(UserProcs) /\ IsInjective(t)
    BY <1>5, <2>12
  <2> HIDE DEF t, s
  <2>18. Whole(M, [g EXCEPT ![q] = t])
    BY <1>3, <2>13, <2>14, <2>15, <2>16, <2>17, WholeChanged
  <2> QED
    BY <2>18 DEF M, t, s
<1> QED
  BY <1>6, <1>7

(* A process that is not in a sequence is not removed from it. *)
LEMMA NothingRemoved ==
  ASSUME NEW S, NEW s \in Seq(S), NEW e, e \notin Range(s)
  PROVE  RemoveFirst(s, e) = s
<1>1. \A i \in 1 .. Len(s) : s[i] # e
  BY LenProperties DEF Range
<1> QED
  BY <1>1 DEF RemoveFirst

-----------------------------------------------------------------------------
(* Which process is on which queue. *)

(* A function with another value in one place. *)
With(f, x, v) == [f EXCEPT ![x] = v]

States == {"READY", "EXECUTING", "BLOCKED_ON_ENV_REQUEST", "BLOCKED_ON_RCV"}

(* The sequences g are the queues of L, and every process stands on the one its state and
   its priority say. *)
Filed(L, g, st, pr) ==
  /\ Whole(L, g)
  /\ st \in [UserProcs -> States] /\ pr \in [UserProcs -> Priorities]
  /\ \A p \in UserProcs : p \in Range(g[BLOCKED_QUEUE]) <=> st[p] = "BLOCKED_ON_ENV_REQUEST"
  /\ \A pri \in Priorities : \A p \in UserProcs : p \in Range(g[pri]) <=> st[p] = "READY" /\ pr[p] = pri

LEMMA Queues ==
  ProcQueues = Priorities \cup {BLOCKED_QUEUE} /\ BLOCKED_QUEUE \notin Priorities
  BY SchedulerConstants DEF ProcQueues, Priorities, BLOCKED_QUEUE

(* The states of a process on no queue. *)
OffQueues == {"EXECUTING", "BLOCKED_ON_RCV"}

LEMMA OnNoQueue ==
  ASSUME NEW L, NEW g, NEW st, NEW pr, Filed(L, g, st, pr), NEW p \in UserProcs, st[p] \in OffQueues
  PROVE  (\A q \in ProcQueues : p \notin Range(g[q])) /\ Unlinked(L, p)
<1>1. \A q \in ProcQueues : p \notin Range(g[q])
  BY Queues DEF Filed, OffQueues
<1> QED
  BY <1>1 DEF Filed, Whole, Unlinked

LEMMA FiledElsewhere ==
  ASSUME NEW L, NEW g, NEW st, NEW pr, Filed(L, g, st, pr), NEW p \in UserProcs, st[p] \in OffQueues,
         NEW v \in OffQueues
  PROVE  Filed(L, g, With(st, p, v), pr)
  BY DEF Filed, OffQueues, States, With

LEMMA FiledEnqueue ==
  ASSUME NEW L, NEW g, NEW st, NEW pr, Filed(L, g, st, pr), NEW p \in UserProcs, st[p] \in OffQueues,
         NEW q, NEW v, \/ q = pr[p] /\ v = "READY"
                       \/ q = BLOCKED_QUEUE /\ v = "BLOCKED_ON_ENV_REQUEST"
  PROVE  Filed(proc_q_enqueue(L, q, p), With(g, q, Append(g[q], p)), With(st, p, v), pr)
<1> USE DEF With
<1> DEFINE h == With(g, q, Append(g[q], p))
           u == With(st, p, v)
<1>1. q \in ProcQueues /\ v \in States /\ pr \in [UserProcs -> Priorities] /\ st \in [UserProcs -> States]
  BY Queues DEF Filed, States
<1>2. Whole(proc_q_enqueue(L, q, p), h)
  BY <1>1, OnNoQueue, WholeEnqueue DEF Filed
<1>3. /\ u \in [UserProcs -> States] /\ u[p] = v
      /\ \A x \in UserProcs : x # p => u[x] = st[x]
  BY <1>1
<1>4. /\ Range(h[q]) = Range(g[q]) \cup {p}
      /\ \A r \in ProcQueues : r # q => h[r] = g[r]
  <2>1. g \in [ProcQueues -> Seq(UserProcs)]
    BY DEF Filed, Whole
  <2>2. Range(Append(g[q], p)) = Range(g[q]) \cup {p}
    BY <1>1, <2>1, Enqueued
  <2> QED
    BY <1>1, <2>1, <2>2
<1> HIDE DEF h, u
<1>5. \A x \in UserProcs : x \in Range(h[BLOCKED_QUEUE]) <=> u[x] = "BLOCKED_ON_ENV_REQUEST"
  BY <1>1, <1>3, <1>4, Queues DEF Filed, OffQueues
<1>6. \A pri \in Priorities : \A x \in UserProcs : x \in Range(h[pri]) <=> u[x] = "READY" /\ pr[x] = pri
  BY <1>1, <1>3, <1>4, Queues DEF Filed, OffQueues
<1> QED
  BY <1>1, <1>2, <1>3, <1>5, <1>6 DEF Filed, h, u

(* Taken off its queue. *)
LEMMA FiledWithout ==
  ASSUME NEW L, NEW g, NEW st, NEW pr, Filed(L, g, st, pr), NEW q \in ProcQueues, NEW M, NEW t, NEW p,
         p \in Range(g[q]), Range(t) = Range(g[q]) \ {p}, Whole(M, With(g, q, t)),
         NEW v \in OffQueues
  PROVE  p \in UserProcs /\ Filed(M, With(g, q, t), With(st, p, v), pr)
<1> USE DEF With
<1> DEFINE h == With(g, q, t)
           u == With(st, p, v)
<1>1. /\ g \in [ProcQueues -> Seq(UserProcs)] /\ pr \in [UserProcs -> Priorities] /\ st \in [UserProcs -> States]
      /\ v \in States
  BY DEF Filed, Whole, OffQueues, States
<1>2. p \in UserProcs
  <2>1. g[q] \in Seq(UserProcs)
    BY <1>1
  <2> QED
    BY <2>1 DEF Range
<1>3. /\ u \in [UserProcs -> States] /\ u[p] = v
      /\ \A x \in UserProcs : x # p => u[x] = st[x]
  BY <1>1, <1>2
<1>4. /\ Range(h[q]) = Range(g[q]) \ {p}
      /\ \A r \in ProcQueues : r # q => h[r] = g[r]
      /\ \A r \in ProcQueues : r # q => p \notin Range(g[r])
  BY <1>1 DEF Filed, Whole
<1> HIDE DEF h, u
<1>5. \A x \in UserProcs : x \in Range(h[BLOCKED_QUEUE]) <=> u[x] = "BLOCKED_ON_ENV_REQUEST"
  <2> TAKE x \in UserProcs
  <2>1. CASE x = p
    BY <1>3, <1>4, <2>1, Queues DEF Filed, OffQueues
  <2>2. CASE x # p
    BY <1>3, <1>4, <2>2, Queues DEF Filed
  <2> QED
    BY <2>1, <2>2
<1>6. \A pri \in Priorities : \A x \in UserProcs : x \in Range(h[pri]) <=> u[x] = "READY" /\ pr[x] = pri
  <2> TAKE pri \in Priorities
  <2> TAKE x \in UserProcs
  <2>1. CASE x = p
    BY <1>3, <1>4, <2>1, Queues DEF Filed, OffQueues
  <2>2. CASE x # p
    BY <1>3, <1>4, <2>2, Queues DEF Filed
  <2> QED
    BY <2>1, <2>2
<1>7. Filed(M, h, u, pr)
  BY <1>1, <1>3, <1>5, <1>6 DEF Filed, h
<1> QED
  BY <1>2, <1>7 DEF h, u

LEMMA FiledDequeue ==
  ASSUME NEW L, NEW g, NEW st, NEW pr, Filed(L, g, st, pr), NEW q \in ProcQueues, g[q] # <<>>,
         NEW v \in OffQueues
  PROVE  /\ L.head[q] \in UserProcs /\ L.head[q] = Head(g[q]) /\ L.head[q] \in Range(g[q])
         /\ ~ proc_q_is_empty(L, q)
         /\ Filed(proc_q_dequeue(L, q), With(g, q, Tail(g[q])), With(st, L.head[q], v), pr)
<1> DEFINE p == L.head[q]
           t == Tail(g[q])
<1>1. L \in Lists /\ g[q] \in Seq(UserProcs) /\ Chain(L, q, g[q]) /\ IsInjective(g[q])
  BY DEF Filed, Whole
<1>2. p \in UserProcs /\ p \in Range(g[q]) /\ p = Head(g[q]) /\ ~ proc_q_is_empty(L, q)
  BY <1>1, ChainEnds
<1>3. Range(t) = Range(g[q]) \ {p}
  BY <1>1, <1>2, Dequeued
<1>4. Whole(proc_q_dequeue(L, q), With(g, q, t))
  BY WholeDequeue DEF Filed, With
<1>5. Filed(proc_q_dequeue(L, q), With(g, q, t), With(st, p, v), pr)
  <2> HIDE DEF p, t
  <2> QED
    BY <1>2, <1>3, <1>4, FiledWithout
<1> QED
  BY <1>2, <1>5

LEMMA FiledRemove ==
  ASSUME NEW L, NEW g, NEW st, NEW pr, Filed(L, g, st, pr), NEW q \in ProcQueues, NEW p \in Range(g[q]),
         L.tail[q] = p => L.head[q] = p, NEW v \in OffQueues
  PROVE  /\ p \in UserProcs
         /\ Filed(proc_q_remove(L, q, p), With(g, q, RemoveFirst(g[q], p)), With(st, p, v), pr)
<1> DEFINE t == RemoveFirst(g[q], p)
<1>1. g[q] \in Seq(UserProcs) /\ IsInjective(g[q])
  BY DEF Filed, Whole
<1>2. PICK j \in 1 .. Len(g[q]) : p = g[q][j]
  BY <1>1 DEF Range
<1>3. Range(t) = Range(g[q]) \ {p}
  BY <1>1, <1>2, ElementRemoved
<1>4. Whole(proc_q_remove(L, q, p), With(g, q, t))
  BY WholeRemove DEF Filed, With
<1> HIDE DEF t
<1>5. p \in UserProcs /\ Filed(proc_q_remove(L, q, p), With(g, q, t), With(st, p, v), pr)
  BY <1>3, <1>4, FiledWithout
<1> QED
  BY <1>5 DEF t

NoneRuns(st) == \A p \in UserProcs : st[p] # "EXECUTING"

(* The processor given to the first ready process. *)
Sound(L, g, st, pr, cur) ==
  /\ Filed(L, g, st, pr) /\ cur \in UserProcs
  /\ \A p \in UserProcs : st[p] = "EXECUTING" <=> p = cur
  /\ st[NullProc] \in {"READY", "EXECUTING"}

LEMMA Dispatched ==
  ASSUME NEW L, NEW g, NEW st, NEW pr, Filed(L, g, st, pr), NEW pri \in Priorities, IsFirstReady(L, pri),
         NoneRuns(st), st[NullProc] = "READY"
  PROVE  /\ g[pri] # <<>> /\ \A j \in 0 .. pri - 1 : g[j] = <<>>
         /\ L.head[pri] \in UserProcs /\ L.head[pri] = Head(g[pri])
         /\ Sound(proc_q_dequeue(L, pri), With(g, pri, Tail(g[pri])),
                  With(st, L.head[pri], "EXECUTING"), pr, L.head[pri])
<1> DEFINE p == L.head[pri]
           u == With(st, p, "EXECUTING")
<1>1. \A q \in ProcQueues : proc_q_is_empty(L, q) <=> g[q] = <<>>
  BY ChainEnds DEF Filed, Whole
<1>2. pri \in ProcQueues /\ \A j \in 0 .. pri - 1 : j \in ProcQueues
  BY SchedulerConstants DEF ProcQueues, Priorities
<1>3. g[pri] # <<>> /\ \A j \in 0 .. pri - 1 : g[j] = <<>>
  BY <1>1, <1>2 DEF IsFirstReady
<1>4. /\ p \in UserProcs /\ p = Head(g[pri])
      /\ Filed(proc_q_dequeue(L, pri), With(g, pri, Tail(g[pri])), u, pr)
  <2>1. "EXECUTING" \in OffQueues
    BY DEF OffQueues
  <2> QED
    BY <1>2, <1>3, <2>1, FiledDequeue
<1>5. (\A x \in UserProcs : u[x] = "EXECUTING" <=> x = p) /\ u[NullProc] \in {"READY", "EXECUTING"}
  BY <1>4, FiniteProcs DEF Filed, With, NoneRuns
<1> HIDE DEF p, u
<1>6. Sound(proc_q_dequeue(L, pri), With(g, pri, Tail(g[pri])), u, pr, p)
  BY <1>4, <1>5 DEF Sound
<1> QED
  BY <1>3, <1>4, <1>6 DEF p, u

(* The null process is ready when it does not run: there is always a first ready process. *)
LEMMA SomeoneReady ==
  ASSUME NEW L, NEW g, NEW st, NEW pr, Filed(L, g, st, pr), st[NullProc] = "READY"
  PROVE  \E pri \in Priorities : ~ proc_q_is_empty(L, pri)
<1>1. pr[NullProc] \in Priorities /\ NullProc \in Range(g[pr[NullProc]])
  BY FiniteProcs DEF Filed
<1>2. g[pr[NullProc]] # <<>> /\ pr[NullProc] \in ProcQueues
  BY <1>1, EmptyQueue, Queues
<1>3. ~ proc_q_is_empty(L, pr[NullProc])
  BY <1>2, ChainEnds DEF Filed, Whole
<1> QED
  BY <1>1, <1>3

-----------------------------------------------------------------------------
(* The inductive invariant, and the queues FifoScheduler sees. *)

SchedInv ==
  /\ TypeOK /\ ~ aborted
  /\ \E g : Sound(lists, g, state, prio, current)

Ready     == [pri \in Priorities |-> Contents(pri)]
Receiving == {p \in UserProcs : state[p] = "BLOCKED_ON_RCV"}

(* A walk along the list reads the sequence it holds. *)
LEMMA Readable ==
  ASSUME NEW L, NEW g, Whole(L, g), NEW q \in ProcQueues
  PROVE  Members(L, q) = Range(g[q]) /\ ContentsOf(L, q) = g[q]
<1>1. L \in Lists /\ g[q] \in Seq(UserProcs) /\ Chain(L, q, g[q]) /\ IsInjective(g[q])
  BY DEF Whole
<1> QED
  BY <1>1, ContentsOfChain

LEMMA ReadNow ==
  ASSUME NEW g, Whole(lists, g)
  PROVE  Ready = [pri \in Priorities |-> g[pri]] /\ Contents(BLOCKED_QUEUE) = g[BLOCKED_QUEUE]
<1>1. \A q \in ProcQueues : Contents(q) = g[q]
  <2> TAKE q \in ProcQueues
  <2>1. Contents(q) = ContentsOf(lists, q)
    BY DEF Contents, ContentsOf
  <2> QED
    BY <2>1, Readable
<1> QED
  BY <1>1, Queues DEF Ready

LEMMA ReadNext ==
  ASSUME NEW g, Whole(lists', g)
  PROVE  Ready' = [pri \in Priorities |-> g[pri]] /\ Contents(BLOCKED_QUEUE)' = g[BLOCKED_QUEUE]
<1>1. \A q \in ProcQueues : Contents(q)' = g[q]
  <2> TAKE q \in ProcQueues
  <2>1. Contents(q)' = ContentsOf(lists', q)
    BY DEF Contents, ContentsOf
  <2> QED
    BY <2>1, Readable
<1>2. Contents(BLOCKED_QUEUE)' = g[BLOCKED_QUEUE]
  BY <1>1, Queues
<1>3. Ready' = [pri \in Priorities |-> g[pri]]
  BY <1>1, Queues DEF Ready
<1> QED
  BY <1>2, <1>3

(* k_process_switch gives the processor to the first ready process, after the running one
   has been filed with the state v. *)
LEMMA Switched ==
  ASSUME NEW L, NEW h, NEW v \in States \ {"EXECUTING"}, Filed(L, h, With(state, current, v), prio),
         NEW g, Sound(lists, g, state, prio, current),
         current = NullProc => v = "READY",
         k_process_switch(L, v), prio' = prio
  PROVE  /\ \E k : Sound(lists', k, state', prio', current')
         /\ Fifo!RunFirst([pri \in Priorities |-> h[pri]])
         /\ Contents(BLOCKED_QUEUE)' = h[BLOCKED_QUEUE]
         /\ Receiving' = {p \in UserProcs : With(state, current, v)[p] = "BLOCKED_ON_RCV"}
<1>0. PICK st : st = With(state, current, v)
  OBVIOUS
<1>1. /\ current \in UserProcs /\ state \in [UserProcs -> States]
      /\ \A p \in UserProcs : state[p] = "EXECUTING" <=> p = current
      /\ state[NullProc] \in {"READY", "EXECUTING"}
  BY DEF Sound, Filed
<1>2. NoneRuns(st) /\ st[NullProc] = "READY" /\ Filed(L, h, st, prio)
  BY <1>0, <1>1, FiniteProcs DEF NoneRuns, With
<1>3. PICK pri \in Priorities :
        /\ IsFirstReady(L, pri)
        /\ lists' = proc_q_dequeue(L, pri)
        /\ current' = L.head[pri]
        /\ state' = [state EXCEPT ![current] = v, ![L.head[pri]] = "EXECUTING"]
  BY <1>2, SomeoneReady DEF k_process_switch
<1>a. PICK p : p = L.head[pri]
  OBVIOUS
<1>b. PICK k : k = With(h, pri, Tail(h[pri]))
  OBVIOUS
<1>c. PICK u : u = With(st, p, "EXECUTING")
  OBVIOUS
<1>4. /\ h[pri] # <<>> /\ \A j \in 0 .. pri - 1 : h[j] = <<>>
      /\ p \in UserProcs /\ p = Head(h[pri])
      /\ Sound(proc_q_dequeue(L, pri), k, u, prio, p)
  BY <1>2, <1>3, <1>a, <1>b, <1>c, Dispatched
<1>5. state' = u /\ current' = p
  BY <1>0, <1>1, <1>3, <1>4, <1>a, <1>c DEF With
<1>6. Sound(lists', k, state', prio', current')
  BY <1>3, <1>4, <1>5
<1>7. h \in [ProcQueues -> Seq(UserProcs)] /\ pri \in ProcQueues /\ pri # BLOCKED_QUEUE
  BY Queues DEF Filed, Whole
<1>8. Ready' = [j \in Priorities |-> k[j]] /\ Contents(BLOCKED_QUEUE)' = k[BLOCKED_QUEUE]
  BY <1>6, ReadNext DEF Sound, Filed
<1>9. Contents(BLOCKED_QUEUE)' = h[BLOCKED_QUEUE]
  BY <1>7, <1>8, <1>b, Queues DEF With
<1>10. Fifo!RunFirst([j \in Priorities |-> h[j]])
  <2> DEFINE rdy == [j \in Priorities |-> h[j]]
  <2>1. pri \in Fifo!Best(rdy)
    <3>1. \A j \in 0 .. pri - 1 : j \in Priorities
      BY SchedulerConstants DEF Priorities
    <3> QED
      BY <1>4, <3>1 DEF Fifo!Best, Fifo!Priorities, Priorities
  <2>2. Ready' = [rdy EXCEPT ![pri] = Tail(@)]
    BY <1>7, <1>8, <1>b, Queues DEF With
  <2>3. current' = Head(rdy[pri])
    BY <1>4, <1>5
  <2> HIDE DEF rdy
  <2>4. Fifo!RunFirst(rdy)
    BY <2>1, <2>2, <2>3 DEF Fifo!RunFirst, Ready
  <2> QED
    BY <2>4 DEF rdy
<1>11. Receiving' = {x \in UserProcs : st[x] = "BLOCKED_ON_RCV"}
  <2>1. p \in Range(h[pri])
    BY <1>4, <1>7, Dequeued
  <2>2. st[p] = "READY" /\ st \in [UserProcs -> States]
    BY <1>2, <1>4, <2>1 DEF Filed
  <2> QED
    BY <1>4, <1>5, <1>c, <2>2 DEF Receiving, With
<1> QED
  BY <1>0, <1>6, <1>9, <1>10, <1>11

-----------------------------------------------------------------------------
(* One lemma per operation: it keeps the invariant and is a step of FifoScheduler. *)

Step == SchedInv' /\ [Fifo!Next]_Fifo!vars

(* What stays of the invariant when the processor is given up. *)
LEMMA TypesKept ==
  ASSUME TypeOK, \E g : Sound(lists', g, state', prio', current'), aborted' \in BOOLEAN,
         commands' \in 0 .. MaxCommands
  PROVE  TypeOK'
  BY DEF TypeOK, Sound, Filed, Whole, Lists, States

LEMMA Releases ==
  ASSUME SchedInv, ReleaseProcessor
  PROVE  Step
<1>1. PICK g : Sound(lists, g, state, prio, current)
  BY DEF SchedInv
<1>2. /\ TypeOK /\ ~ aborted /\ current \in UserProcs /\ state[current] = "EXECUTING"
      /\ Filed(lists, g, state, prio) /\ prio[current] \in Priorities
      /\ state \in [UserProcs -> States]
  BY <1>1 DEF SchedInv, Sound, Filed, OffQueues
<1> state[current] \in OffQueues
  BY <1>2 DEF OffQueues
<1>3. PICK L : L = proc_q_enqueue(lists, prio[current], current)
  OBVIOUS
<1>4. k_process_switch(L, "READY") /\ prio' = prio /\ aborted' = aborted /\ commands' = commands
  BY <1>2, <1>3, OnNoQueue DEF ReleaseProcessor
<1>5. PICK h : h = With(g, prio[current], Append(g[prio[current]], current))
  OBVIOUS
<1>6. PICK st : st = With(state, current, "READY")
  OBVIOUS
<1>7. Filed(L, h, st, prio)
  BY <1>2, <1>3, <1>5, <1>6, FiledEnqueue
<1>8. /\ \E k : Sound(lists', k, state', prio', current')
      /\ Fifo!RunFirst([pri \in Priorities |-> h[pri]])
      /\ Contents(BLOCKED_QUEUE)' = h[BLOCKED_QUEUE]
      /\ Receiving' = {p \in UserProcs : st[p] = "BLOCKED_ON_RCV"}
  <2>1. "READY" \in States \ {"EXECUTING"}
    BY DEF States
  <2> QED
    BY <1>1, <1>4, <1>6, <1>7, <2>1, Switched
<1>9. SchedInv'
  BY <1>2, <1>4, <1>8, TypesKept DEF SchedInv, TypeOK
<1>10. Ready = [pri \in Priorities |-> g[pri]] /\ Contents(BLOCKED_QUEUE) = g[BLOCKED_QUEUE]
  BY <1>2, ReadNow DEF Filed
<1>11. g \in [ProcQueues -> Seq(UserProcs)]
  BY <1>2 DEF Filed, Whole
<1>12. [Ready EXCEPT ![prio[current]] = Append(@, current)] = [pri \in Priorities |-> h[pri]]
  BY <1>2, <1>5, <1>10, <1>11, Queues DEF With
<1>13. Contents(BLOCKED_QUEUE)' = Contents(BLOCKED_QUEUE)
  BY <1>2, <1>5, <1>8, <1>10, <1>11, Queues DEF With
<1>14. Receiving' = Receiving
  BY <1>2, <1>6, <1>8 DEF Receiving, With
<1>15. Fifo!Release
  BY <1>4, <1>8, <1>12, <1>13, <1>14 DEF Fifo!Release, Fifo!Join, Ready, Receiving
<1> QED
  BY <1>9, <1>15 DEF Step, Fifo!Next

LEMMA Receives ==
  ASSUME SchedInv, BlockOnReceive
  PROVE  Step
<1>1. PICK g : Sound(lists, g, state, prio, current)
  BY DEF SchedInv
<1>2. /\ TypeOK /\ ~ aborted /\ current \in UserProcs /\ state[current] = "EXECUTING"
      /\ Filed(lists, g, state, prio) /\ state \in [UserProcs -> States]
  BY <1>1 DEF SchedInv, Sound, Filed
<1>3. /\ k_process_switch(lists, "BLOCKED_ON_RCV") /\ current # NullProc
      /\ prio' = prio /\ aborted' = aborted /\ commands' = commands
  BY SchedulerConstants DEF BlockOnReceive
<1>4. PICK st : st = With(state, current, "BLOCKED_ON_RCV")
  OBVIOUS
<1>5. Filed(lists, g, st, prio)
  <2>1. state[current] \in OffQueues /\ "BLOCKED_ON_RCV" \in OffQueues
    BY <1>2 DEF OffQueues
  <2> QED
    BY <1>2, <1>4, <2>1, FiledElsewhere
<1>6. /\ \E k : Sound(lists', k, state', prio', current')
      /\ Fifo!RunFirst([pri \in Priorities |-> g[pri]])
      /\ Contents(BLOCKED_QUEUE)' = g[BLOCKED_QUEUE]
      /\ Receiving' = {p \in UserProcs : st[p] = "BLOCKED_ON_RCV"}
  <2>1. "BLOCKED_ON_RCV" \in States \ {"EXECUTING"}
    BY DEF States
  <2> QED
    BY <1>1, <1>3, <1>4, <1>5, <2>1, Switched
<1>7. SchedInv'
  BY <1>2, <1>3, <1>6, TypesKept DEF SchedInv, TypeOK
<1>8. Ready = [pri \in Priorities |-> g[pri]] /\ Contents(BLOCKED_QUEUE) = g[BLOCKED_QUEUE]
  BY <1>2, ReadNow DEF Filed
<1>9. Receiving' = Receiving \cup {current}
  BY <1>2, <1>4, <1>6 DEF Receiving, With
<1>10. Fifo!RunFirst(Ready) /\ Contents(BLOCKED_QUEUE)' = Contents(BLOCKED_QUEUE)
  BY <1>6, <1>8
<1>11. Fifo!Receive
  BY <1>3, <1>9, <1>10 DEF Fifo!Receive, Ready, Receiving
<1> QED
  BY <1>7, <1>11 DEF Step, Fifo!Next

LEMMA Requests ==
  ASSUME SchedInv, BlockOnEnvRequest
  PROVE  Step
<1>1. PICK g : Sound(lists, g, state, prio, current)
  BY DEF SchedInv
<1>2. /\ TypeOK /\ ~ aborted /\ current \in UserProcs /\ state[current] = "EXECUTING"
      /\ Filed(lists, g, state, prio) /\ state \in [UserProcs -> States]
  BY <1>1 DEF SchedInv, Sound, Filed
<1> state[current] \in OffQueues
  BY <1>2 DEF OffQueues
<1>3. PICK L : L = proc_q_enqueue(lists, BLOCKED_QUEUE, current)
  OBVIOUS
<1>4. /\ k_process_switch(L, "BLOCKED_ON_ENV_REQUEST") /\ current # NullProc
      /\ prio' = prio /\ aborted' = aborted /\ commands' = commands
  BY <1>2, <1>3, OnNoQueue, SchedulerConstants DEF BlockOnEnvRequest
<1>5. PICK h : h = With(g, BLOCKED_QUEUE, Append(g[BLOCKED_QUEUE], current))
  OBVIOUS
<1>6. PICK st : st = With(state, current, "BLOCKED_ON_ENV_REQUEST")
  OBVIOUS
<1>7. Filed(L, h, st, prio)
  BY <1>2, <1>3, <1>5, <1>6, FiledEnqueue
<1>8. /\ \E k : Sound(lists', k, state', prio', current')
      /\ Fifo!RunFirst([pri \in Priorities |-> h[pri]])
      /\ Contents(BLOCKED_QUEUE)' = h[BLOCKED_QUEUE]
      /\ Receiving' = {p \in UserProcs : st[p] = "BLOCKED_ON_RCV"}
  <2>1. "BLOCKED_ON_ENV_REQUEST" \in States \ {"EXECUTING"}
    BY DEF States
  <2> QED
    BY <1>1, <1>4, <1>6, <1>7, <2>1, Switched
<1>9. SchedInv'
  BY <1>2, <1>4, <1>8, TypesKept DEF SchedInv, TypeOK
<1>10. Ready = [pri \in Priorities |-> g[pri]] /\ Contents(BLOCKED_QUEUE) = g[BLOCKED_QUEUE]
  BY <1>2, ReadNow DEF Filed
<1>11. g \in [ProcQueues -> Seq(UserProcs)]
  BY <1>2 DEF Filed, Whole
<1>12. Ready = [pri \in Priorities |-> h[pri]]
  BY <1>5, <1>10, <1>11, Queues DEF With
<1>13. Contents(BLOCKED_QUEUE)' = Append(Contents(BLOCKED_QUEUE), current)
  BY <1>5, <1>8, <1>10, <1>11, Queues DEF With
<1>14. Receiving' = Receiving
  BY <1>2, <1>6, <1>8 DEF Receiving, With
<1>15. Fifo!RunFirst(Ready)
  BY <1>8, <1>12
<1>16. Fifo!Request
  BY <1>4, <1>13, <1>14, <1>15 DEF Fifo!Request, Ready, Receiving
<1> QED
  BY <1>9, <1>16 DEF Step, Fifo!Next

(* The running process stays the one that runs when another becomes ready. *)
LEMMA SoundAwake ==
  ASSUME NEW L, NEW g, NEW st, NEW pr, NEW cur, Sound(L, g, st, pr, cur), NEW p \in UserProcs, p # cur,
         NEW M, NEW h, NEW qr, Filed(M, h, With(st, p, "READY"), qr)
  PROVE  Sound(M, h, With(st, p, "READY"), qr, cur)
<1>1. \A x \in UserProcs : With(st, p, "READY")[x] = IF x = p THEN "READY" ELSE st[x]
  BY DEF With, Sound, Filed
<1> QED
  BY <1>1, FiniteProcs DEF Sound

LEMMA WakesReceiver ==
  ASSUME SchedInv, NEW p \in Clients, WakeReceiver(p)
  PROVE  Step
<1>1. PICK g : Sound(lists, g, state, prio, current)
  BY DEF SchedInv
<1>2. /\ TypeOK /\ ~ aborted /\ current \in UserProcs /\ state[current] = "EXECUTING"
      /\ Filed(lists, g, state, prio) /\ state \in [UserProcs -> States]
      /\ p \in UserProcs /\ state[p] = "BLOCKED_ON_RCV" /\ prio[p] \in Priorities
  BY <1>1 DEF SchedInv, Sound, Filed, WakeReceiver, UserProcs
<1> state[p] \in OffQueues
  BY <1>2 DEF OffQueues
<1>3. /\ lists' = proc_q_enqueue(lists, prio[p], p) /\ state' = With(state, p, "READY")
      /\ prio' = prio /\ current' = current /\ aborted' = aborted /\ commands' = commands
  BY <1>2, OnNoQueue DEF WakeReceiver, With
<1>4. PICK h : h = With(g, prio[p], Append(g[prio[p]], p))
  OBVIOUS
<1>5. Filed(lists', h, state', prio')
  BY <1>2, <1>3, <1>4, FiledEnqueue
<1>6. Sound(lists', h, state', prio', current')
  BY <1>1, <1>2, <1>3, <1>5, SoundAwake
<1>7. SchedInv'
  BY <1>2, <1>3, <1>6, TypesKept DEF SchedInv, TypeOK
<1>8. Ready = [pri \in Priorities |-> g[pri]] /\ Contents(BLOCKED_QUEUE) = g[BLOCKED_QUEUE]
  BY <1>2, ReadNow DEF Filed
<1>9. Ready' = [pri \in Priorities |-> h[pri]] /\ Contents(BLOCKED_QUEUE)' = h[BLOCKED_QUEUE]
  BY <1>5, ReadNext DEF Filed
<1>10. g \in [ProcQueues -> Seq(UserProcs)]
  BY <1>2 DEF Filed, Whole
<1>11. Ready' = [Ready EXCEPT ![prio[p]] = Append(@, p)]
  BY <1>2, <1>4, <1>8, <1>9, <1>10, Queues DEF With
<1>12. Contents(BLOCKED_QUEUE)' = Contents(BLOCKED_QUEUE)
  BY <1>2, <1>4, <1>8, <1>9, <1>10, Queues DEF With
<1>13. p \in Receiving /\ Receiving' = Receiving \ {p}
  BY <1>2, <1>3 DEF Receiving, With
<1>14. Fifo!Arrival(p)
  BY <1>3, <1>11, <1>12, <1>13 DEF Fifo!Arrival, Fifo!Join, Ready, Receiving
<1> QED
  BY <1>7, <1>14 DEF Step, Fifo!Next

LEMMA WakesRequester ==
  ASSUME SchedInv, WakeRequester
  PROVE  Step
<1>1. PICK g : Sound(lists, g, state, prio, current)
  BY DEF SchedInv
<1>2. /\ TypeOK /\ ~ aborted /\ current \in UserProcs /\ state[current] = "EXECUTING"
      /\ Filed(lists, g, state, prio) /\ state \in [UserProcs -> States]
      /\ g \in [ProcQueues -> Seq(UserProcs)] /\ BLOCKED_QUEUE \in ProcQueues
  BY <1>1, Queues DEF SchedInv, Sound, Filed, Whole
<1>3. PICK p : p = lists.head[BLOCKED_QUEUE]
  OBVIOUS
<1>4. /\ lists' = proc_q_enqueue(proc_q_dequeue(lists, BLOCKED_QUEUE), prio[p], p)
      /\ state' = [state EXCEPT ![p] = "READY"] /\ ~ proc_q_is_empty(lists, BLOCKED_QUEUE)
      /\ prio' = prio /\ current' = current /\ aborted' = aborted /\ commands' = commands
  BY <1>3 DEF WakeRequester
<1>5. g[BLOCKED_QUEUE] # <<>>
  BY <1>2, <1>4, ChainEnds DEF Filed, Whole
<1>6. PICK k : k = With(g, BLOCKED_QUEUE, Tail(g[BLOCKED_QUEUE]))
  OBVIOUS
<1>7. PICK st : st = With(state, p, "BLOCKED_ON_RCV")
  OBVIOUS
<1>8. /\ p \in UserProcs /\ p = Head(g[BLOCKED_QUEUE]) /\ p \in Range(g[BLOCKED_QUEUE])
      /\ Filed(proc_q_dequeue(lists, BLOCKED_QUEUE), k, st, prio)
  <2>1. "BLOCKED_ON_RCV" \in OffQueues
    BY DEF OffQueues
  <2> QED
    BY <1>2, <1>3, <1>5, <1>6, <1>7, <2>1, FiledDequeue
<1>9. state[p] = "BLOCKED_ON_ENV_REQUEST" /\ p # current /\ prio[p] \in Priorities
  BY <1>2, <1>8 DEF Filed
<1>10. PICK h : h = With(k, prio[p], Append(k[prio[p]], p))
  OBVIOUS
<1>11. Filed(lists', h, With(st, p, "READY"), prio)
  <2>1. st[p] \in OffQueues
    BY <1>2, <1>7, <1>8 DEF With, OffQueues
  <2> QED
    BY <1>4, <1>8, <1>10, <2>1, FiledEnqueue
<1>12. state' = With(st, p, "READY") /\ state' = With(state, p, "READY")
  BY <1>2, <1>4, <1>7 DEF With
<1>13. Sound(lists', h, state', prio', current')
  <2>1. Filed(lists', h, With(state, p, "READY"), prio)
    BY <1>11, <1>12
  <2>2. Sound(lists', h, With(state, p, "READY"), prio, current)
    BY <1>1, <1>8, <1>9, <2>1, SoundAwake
  <2> QED
    BY <1>4, <1>12, <2>2
<1>14. SchedInv'
  BY <1>2, <1>4, <1>13, TypesKept DEF SchedInv, TypeOK
<1>15. Ready = [pri \in Priorities |-> g[pri]] /\ Contents(BLOCKED_QUEUE) = g[BLOCKED_QUEUE]
  BY <1>2, ReadNow DEF Filed
<1>16. Ready' = [pri \in Priorities |-> h[pri]] /\ Contents(BLOCKED_QUEUE)' = h[BLOCKED_QUEUE]
  BY <1>11, ReadNext DEF Filed
<1>17. Ready' = [Ready EXCEPT ![prio[p]] = Append(@, p)]
  BY <1>2, <1>6, <1>9, <1>10, <1>15, <1>16, Queues DEF With
<1>18. Contents(BLOCKED_QUEUE)' = Tail(Contents(BLOCKED_QUEUE))
  BY <1>2, <1>6, <1>9, <1>10, <1>15, <1>16, Queues DEF With
<1>19. Receiving' = Receiving
  BY <1>2, <1>9, <1>12 DEF Receiving, With
<1>20. p = Head(Contents(BLOCKED_QUEUE)) /\ Contents(BLOCKED_QUEUE) # <<>>
  BY <1>5, <1>8, <1>15
<1>21. Fifo!Freed
  BY <1>4, <1>17, <1>18, <1>19, <1>20 DEF Fifo!Freed, Fifo!Join, Ready, Receiving
<1> QED
  BY <1>14, <1>21 DEF Step, Fifo!Next

(* A process on no ready queue may have any priority. *)
LEMMA FiledAnew ==
  ASSUME NEW L, NEW g, NEW st, NEW pr, Filed(L, g, st, pr), NEW p \in UserProcs, st[p] # "READY",
         NEW pri \in Priorities
  PROVE  Filed(L, g, st, With(pr, p, pri))
<1>1. With(pr, p, pri) \in [UserProcs -> Priorities] /\ \A x \in UserProcs : x # p => With(pr, p, pri)[x] = pr[x]
  BY DEF Filed, With
<1> QED
  BY <1>1 DEF Filed

(* The operators of FifoScheduler on sequences are those of this module. *)
LEMMA SameSequences ==
  ASSUME NEW s, NEW e
  PROVE  (Fifo!Contains(s, e) <=> \E i \in 1 .. Len(s) : s[i] = e) /\ Fifo!RemoveFirst(s, e) = RemoveFirst(s, e)
  BY DEF Fifo!Contains, Fifo!RemoveFirst, RemoveFirst, Fifo!RemoveAt, RemoveAt, Fifo!SelectInSeq, SelectInSeq,
         Fifo!Min, Min

LEMMA ChangesPriority ==
  ASSUME SchedInv, NEW p \in UserProcs, NEW pri \in 0 .. NUM_PRIORITY_LEVEL, ~ IsLinkedTail(p),
         ChangePriority(pri, p)
  PROVE  Step
<1>1. PICK g : Sound(lists, g, state, prio, current)
  BY DEF SchedInv
<1>2. /\ TypeOK /\ ~ aborted /\ current \in UserProcs
      /\ Filed(lists, g, state, prio) /\ state \in [UserProcs -> States] /\ prio \in [UserProcs -> Priorities]
      /\ g \in [ProcQueues -> Seq(UserProcs)] /\ \A j \in Priorities : g[j] \in Seq(UserProcs)
  BY <1>1, Queues DEF SchedInv, Sound, Filed, Whole
<1>3. /\ pri \in Priorities /\ p \in Clients
      /\ commands' = commands + 1 /\ commands < MaxCommands /\ k_change_priority(pri, p)
  BY DEF ChangePriority, LegalPriority, Priorities, UserProcs
<1>4. commands' \in 0 .. MaxCommands
  BY <1>2, <1>3, SchedulerConstants DEF TypeOK
<1>5. PICK qr : qr = With(prio, p, pri)
  OBVIOUS
<1>6. qr \in [UserProcs -> Priorities] /\ qr[p] = pri
  BY <1>2, <1>3, <1>5 DEF With
<1>7. Ready = [j \in Priorities |-> g[j]] /\ Contents(BLOCKED_QUEUE) = g[BLOCKED_QUEUE]
  BY <1>2, ReadNow DEF Filed
<1>8. CASE state[p] # "READY"
  <2>1. /\ lists' = lists /\ state' = state /\ current' = current /\ aborted' = aborted
        /\ prio' = [prio EXCEPT ![p] = pri]
    BY <1>3, <1>8 DEF k_change_priority
  <2>2. prio' = qr
    BY <1>5, <2>1 DEF With
  <2>3. Filed(lists, g, state, qr)
    BY <1>2, <1>3, <1>5, <1>8, FiledAnew
  <2>4. Sound(lists', g, state', prio', current')
    BY <1>1, <2>1, <2>2, <2>3 DEF Sound
  <2>5. SchedInv'
    BY <1>2, <1>4, <2>1, <2>4, TypesKept DEF SchedInv, TypeOK
  <2>6. Ready' = Ready /\ Contents(BLOCKED_QUEUE)' = Contents(BLOCKED_QUEUE)
    BY <1>7, <2>4, ReadNext DEF Sound, Filed
  <2>7. \A j \in Priorities : ~ Fifo!Contains(Ready[j], p)
    <3> TAKE j \in Priorities
    <3>1. p \notin Range(g[j]) /\ g[j] \in Seq(UserProcs) /\ Ready[j] = g[j]
      BY <1>2, <1>7, <1>8 DEF Filed
    <3>2. \A i \in 1 .. Len(g[j]) : g[j][i] # p
      BY <3>1, LenProperties DEF Range
    <3> QED
      BY <3>1, <3>2, SameSequences
  <2>8. Receiving' = Receiving
    BY <2>1 DEF Receiving
  <2>9. Fifo!Move(p, pri)
    BY <2>1, <2>6, <2>7, <2>8 DEF Fifo!Move, Fifo!Priorities, Priorities, Ready, Receiving
  <2> QED
    BY <1>3, <2>5, <2>9 DEF Step, Fifo!Next, Fifo!Priorities, Priorities
<1>9. CASE state[p] = "READY"
  <2>1. PICK q : q = prio[p]
    OBVIOUS
  <2>2. /\ q \in Priorities /\ q \in ProcQueues /\ p \in Range(g[q])
        /\ lists.tail[q] = p => lists.head[q] = p
        /\ p # current
    BY <1>1, <1>2, <1>9, <2>1, Queues DEF Filed, IsLinkedTail, Sound
  <2>3. PICK L : L = proc_q_remove(lists, q, p)
    OBVIOUS
  <2>4. PICK k : k = With(g, q, RemoveFirst(g[q], p))
    OBVIOUS
  <2>5. PICK st : st = With(state, p, "BLOCKED_ON_RCV")
    OBVIOUS
  <2>6. Filed(L, k, st, prio)
    <3>1. "BLOCKED_ON_RCV" \in OffQueues
      BY DEF OffQueues
    <3> QED
      BY <1>2, <2>2, <2>3, <2>4, <2>5, <3>1, FiledRemove
  <2>7. st[p] = "BLOCKED_ON_RCV" /\ st[p] \in OffQueues
    BY <1>2, <2>5 DEF With, OffQueues
  <2>8. Unlinked(L, p)
    BY <2>6, <2>7, OnNoQueue
  <2>9. /\ lists' = proc_q_enqueue(L, pri, p) /\ state' = state /\ current' = current /\ aborted' = aborted
        /\ prio' = [prio EXCEPT ![p] = pri]
    BY <1>3, <1>9, <2>1, <2>3, <2>8 DEF k_change_priority
  <2>10. prio' = qr
    BY <1>5, <2>9 DEF With
  <2>11. PICK h : h = With(k, pri, Append(k[pri], p))
    OBVIOUS
  <2>12. Filed(lists', h, With(st, p, "READY"), qr)
    <3>1. Filed(L, k, st, qr)
      BY <1>3, <1>5, <2>6, <2>7, FiledAnew
    <3> QED
      BY <1>6, <2>7, <2>9, <2>11, <3>1, FiledEnqueue
  <2>13. With(st, p, "READY") = state /\ With(state, p, "READY") = state
    BY <1>2, <1>9, <2>5 DEF With
  <2>14. Sound(lists', h, state', prio', current')
    <3>1. Filed(lists', h, With(state, p, "READY"), qr)
      BY <2>12, <2>13
    <3>2. Sound(lists', h, With(state, p, "READY"), qr, current)
      BY <1>1, <2>2, <3>1, SoundAwake
    <3> QED
      BY <2>9, <2>10, <2>13, <3>2
  <2>15. SchedInv'
    BY <1>2, <1>4, <2>9, <2>14, TypesKept DEF SchedInv, TypeOK
  <2>16. Ready' = [j \in Priorities |-> h[j]] /\ Contents(BLOCKED_QUEUE)' = h[BLOCKED_QUEUE]
    BY <2>14, ReadNext DEF Sound, Filed
  <2>17. \A j \in Priorities : RemoveFirst(g[j], p) = k[j] /\ k[j] \in Seq(UserProcs)
    <3> TAKE j \in Priorities
    <3>1. k[j] \in Seq(UserProcs) /\ j \in ProcQueues
      BY <2>6, Queues DEF Filed, Whole
    <3>2. CASE j = q
      BY <1>2, <2>2, <2>4, <3>1, <3>2 DEF With
    <3>3. CASE j # q
      <4>1. p \notin Range(g[j]) /\ g[j] \in Seq(UserProcs)
        BY <1>2, <2>1, <3>3 DEF Filed
      <4>2. k[j] = g[j]
        BY <1>2, <2>2, <2>4, <3>1, <3>3 DEF With
      <4> QED
        BY <3>1, <4>1, <4>2, NothingRemoved
    <3> QED
      BY <3>2, <3>3
  <2>18. \A j \in Priorities :
           h[j] = Fifo!RemoveFirst(Ready[j], p) \o IF j = pri THEN <<p>> ELSE <<>>
    <3> TAKE j \in Priorities
    <3>1. Fifo!RemoveFirst(Ready[j], p) = k[j] /\ k[j] \in Seq(UserProcs)
      BY <1>7, <2>17, SameSequences
    <3>2. h[j] = IF j = pri THEN Append(k[j], p) ELSE k[j]
      <4>1. k \in [ProcQueues -> Seq(UserProcs)] /\ j \in ProcQueues
        BY <2>6, Queues DEF Filed, Whole
      <4> QED
        BY <1>3, <2>11, <4>1, Queues DEF With
    <3>3. k[j] \o <<p>> = Append(k[j], p) /\ k[j] \o <<>> = k[j]
      BY <3>1, AppendIsConcat, ConcatEmptySeq
    <3> QED
      BY <3>1, <3>2, <3>3
  <2>19. Contents(BLOCKED_QUEUE)' = Contents(BLOCKED_QUEUE)
    <3>1. k \in [ProcQueues -> Seq(UserProcs)]
      BY <2>6 DEF Filed, Whole
    <3> QED
      BY <1>2, <1>3, <1>7, <2>2, <2>4, <2>11, <2>16, <3>1, Queues DEF With
  <2>20. Fifo!Contains(Ready[q], p)
    <3>1. \E i \in 1 .. Len(g[q]) : g[q][i] = p
      BY <1>2, <2>2, LenProperties DEF Range
    <3> QED
      BY <1>7, <2>2, <3>1, SameSequences
  <2>21. Receiving' = Receiving
    BY <2>9 DEF Receiving
  <2>22. Ready' = [j \in Priorities |-> Fifo!RemoveFirst(Ready[j], p) \o IF j = pri THEN <<p>> ELSE <<>>]
    BY <2>16, <2>18
  <2>23. Fifo!Move(p, pri)
    BY <2>2, <2>9, <2>19, <2>20, <2>21, <2>22 DEF Fifo!Move, Fifo!Priorities, Priorities, Ready, Receiving
  <2> QED
    BY <1>3, <2>15, <2>23 DEF Step, Fifo!Next, Fifo!Priorities, Priorities
<1> QED
  BY <1>8, <1>9

LEMMA Steps ==
  ASSUME SchedInv, [NextKeepingTails]_vars
  PROVE  Step
<1>1. ASSUME UNCHANGED vars PROVE Step
  <2>1. SchedInv'
    BY <1>1 DEF SchedInv, TypeOK, vars
  <2>2. UNCHANGED Fifo!vars
    BY <1>1 DEF vars, Fifo!vars, Contents, Members
  <2> QED
    BY <2>1, <2>2 DEF Step
<1> QED
  BY <1>1, Releases, Receives, Requests, WakesReceiver, WakesRequester, ChangesPriority DEF NextKeepingTails

-----------------------------------------------------------------------------
(* The initial state. *)

LEMMA Listed ==
  ASSUME NEW S, IsFiniteSet(S), NEW s \in SetToSeqs(S)
  PROVE  s \in Seq(S) /\ IsInjective(s) /\ Range(s) = S
<1>1. PICK n : n = Cardinality(S)
  OBVIOUS
<1>2. n \in Nat
  BY <1>1, FS_CardinalityType
<1>3. s \in [1 .. n -> S] /\ \A i, j \in 1 .. n : i # j => s[i] # s[j]
  BY <1>1 DEF SetToSeqs
<1>4. s \in Injection(1 .. n, S) /\ DOMAIN s = 1 .. n
  BY <1>3 DEF Injection, IsInjective
<1>5. Cardinality(1 .. n) = n
  BY <1>2, FS_Interval
<1>6. s \in Surjection(1 .. n, S)
  BY <1>1, <1>4, <1>5, FS_Injection
<1>7. Range(s) = S
  BY <1>3, <1>4, <1>6 DEF Range, Surjection
<1> QED
  BY <1>2, <1>3, <1>4, <1>7 DEF IsInjective

(* An injective sequence lists the set of its elements. *)
LEMMA ListsItsRange ==
  ASSUME NEW S, IsFiniteSet(S), NEW s \in Seq(S), IsInjective(s)
  PROVE  s \in SetToSeqs(Range(s))
<1>1. Cardinality(Range(s)) = Len(s)
  BY InjectiveFits
<1>2. s \in [1 .. Len(s) -> Range(s)] /\ \A i, j \in 1 .. Len(s) : i # j => s[i] # s[j]
  BY LenProperties DEF Range, IsInjective
<1> QED
  BY <1>1, <1>2 DEF SetToSeqs

(* The parts of Init. *)
BestOf(level) == CHOOSE pri \in Priorities : level[pri] # <<>> /\ \A j \in 0 .. pri - 1 : level[j] = <<>>

QueuedIn(level, pri) == IF pri = BestOf(level) THEN Tail(level[pri]) ELSE level[pri]

Behind(s, p) == {s[i + 1] : i \in {i \in 1 .. Len(s) - 1 : s[i] = p}}

(* The process behind the one in place i. *)
LEMMA BehindIn ==
  ASSUME NEW s \in Seq(UserProcs), IsInjective(s)
  PROVE  /\ \A i \in 1 .. Len(s) - 1 : Behind(s, s[i]) = {s[i + 1]}
         /\ s # <<>> => Behind(s, s[Len(s)]) = {}
         /\ \A p : p \notin Range(s) => Behind(s, p) = {}
         /\ \A p : Behind(s, p) \subseteq UserProcs
<1>1. Len(s) \in Nat /\ DOMAIN s = 1 .. Len(s) /\ \A i \in 1 .. Len(s) : s[i] \in UserProcs /\ s[i] \in Range(s)
  BY LenProperties DEF Range
<1>2. \A i \in 1 .. Len(s) - 1 : i \in 1 .. Len(s) /\ i + 1 \in 1 .. Len(s) /\ i # Len(s)
  <2>1. Len(s) \in Nat
    BY <1>1
  <2> QED
    BY <2>1
<1>3. ASSUME NEW i \in 1 .. Len(s) - 1 PROVE Behind(s, s[i]) = {s[i + 1]}
  <2>1. {k \in 1 .. Len(s) - 1 : s[k] = s[i]} = {i}
    BY <1>1, <1>2 DEF IsInjective
  <2> QED
    BY <2>1 DEF Behind
<1>4. ASSUME s # <<>> PROVE Behind(s, s[Len(s)]) = {}
  <2>1. Len(s) \in 1 .. Len(s)
    BY <1>4, EmptySeq
  <2>2. {k \in 1 .. Len(s) - 1 : s[k] = s[Len(s)]} = {}
    BY <1>1, <1>2, <2>1 DEF IsInjective
  <2> QED
    BY <2>2 DEF Behind
<1>5. ASSUME NEW p, p \notin Range(s) PROVE Behind(s, p) = {}
  BY <1>1, <1>2, <1>5 DEF Behind
<1>6. ASSUME NEW p PROVE Behind(s, p) \subseteq UserProcs
  BY <1>1, <1>2 DEF Behind
<1> QED
  BY <1>3, <1>4, <1>5, <1>6

LEMMA InitialQueues ==
  ASSUME NEW level, \A pri \in Priorities : level[pri] \in SetToSeqs({p \in UserProcs : InitPriority[p] = pri}),
         NEW best, best = BestOf(level), NEW cur, cur = Head(level[best])
  PROVE  /\ best \in Priorities /\ level[best] # <<>> /\ \A j \in 0 .. best - 1 : level[j] = <<>>
         /\ cur \in UserProcs /\ InitPriority[cur] = best
         /\ \A pri \in Priorities : /\ level[pri] \in Seq(UserProcs)
                                    /\ Range(level[pri]) = {p \in UserProcs : InitPriority[p] = pri}
                                    /\ QueuedIn(level, pri) \in Seq(UserProcs)
                                    /\ IsInjective(QueuedIn(level, pri))
                                    /\ Range(QueuedIn(level, pri)) = {p \in UserProcs : InitPriority[p] = pri} \ {cur}
                                    /\ QueuedIn(level, pri) # <<>> =>
                                         level[pri] # <<>> /\ Last(level[pri]) = Last(QueuedIn(level, pri))
<1>1. \A pri \in Priorities : /\ level[pri] \in Seq(UserProcs) /\ IsInjective(level[pri])
                              /\ Range(level[pri]) = {p \in UserProcs : InitPriority[p] = pri}
  <2> TAKE pri \in Priorities
  <2> DEFINE S == {p \in UserProcs : InitPriority[p] = pri}
  <2>1. IsFiniteSet(S) /\ S \subseteq UserProcs
    BY FiniteProcs, FS_Subset
  <2>2. level[pri] \in Seq(S) /\ IsInjective(level[pri]) /\ Range(level[pri]) = S
    BY <2>1, Listed
  <2> HIDE DEF S
  <2>3. level[pri] \in Seq(UserProcs)
    BY <2>1, <2>2, SeqMonotonic
  <2> QED
    BY <2>2, <2>3 DEF S
<1>2. best \in Priorities /\ level[best] # <<>> /\ \A j \in 0 .. best - 1 : level[j] = <<>>
  <2> DEFINE S == {pri \in Priorities : level[pri] # <<>>}
  <2>1. NUM_PRIORITY_LEVEL - 1 \in S
    <3>1. NUM_PRIORITY_LEVEL - 1 \in Priorities
      BY SchedulerConstants DEF Priorities
    <3>2. NullProc \in Range(level[NUM_PRIORITY_LEVEL - 1])
      BY <1>1, <3>1, SchedulerConstants, FiniteProcs
    <3> QED
      BY <3>1, <3>2, EmptyQueue
  <2>2. S \in SUBSET Nat
    BY SchedulerConstants DEF Priorities
  <2>3. PICK k \in S : \A j \in S : k <= j
    BY <2>1, <2>2, LeastElement
  <2>4. \A j \in 0 .. k - 1 : level[j] = <<>>
    <3> TAKE j \in 0 .. k - 1
    <3>1. j \in Priorities /\ ~ (k <= j)
      BY <2>3, SchedulerConstants DEF Priorities
    <3> QED
      BY <2>3, <3>1
  <2>5. \E pri \in Priorities : level[pri] # <<>> /\ \A j \in 0 .. pri - 1 : level[j] = <<>>
    BY <2>3, <2>4
  <2> QED
    BY <2>5 DEF BestOf
<1>3. cur \in UserProcs /\ InitPriority[cur] = best /\ cur \in Range(level[best])
  <2>1. cur \in Range(level[best])
    BY <1>1, <1>2, Dequeued
  <2> QED
    BY <1>1, <1>2, <2>1
<1>4. ASSUME NEW pri \in Priorities
      PROVE  /\ QueuedIn(level, pri) \in Seq(UserProcs) /\ IsInjective(QueuedIn(level, pri))
             /\ Range(QueuedIn(level, pri)) = {p \in UserProcs : InitPriority[p] = pri} \ {cur}
             /\ QueuedIn(level, pri) # <<>> => level[pri] # <<>> /\ Last(level[pri]) = Last(QueuedIn(level, pri))
  <2>1. CASE pri = best
    <3> DEFINE s == level[pri]
               t == Tail(s)
    <3>1. QueuedIn(level, pri) = t
      BY <2>1 DEF QueuedIn
    <3>2. t \in Seq(UserProcs) /\ IsInjective(t) /\ Range(t) = Range(s) \ {cur}
      BY <1>1, <1>2, <2>1, Dequeued
    <3>3. Len(t) = Len(s) - 1 /\ \A i \in 1 .. Len(t) : t[i] = s[i + 1]
      BY <1>1, <1>2, <2>1, HeadTailProperties
    <3>4. ASSUME t # <<>> PROVE Last(s) = Last(t)
      <4>1. Len(t) \in 1 .. Len(t)
        <5> HIDE DEF t
        <5> QED
          BY <3>2, <3>4, EmptySeq
      <4>2. Len(t) + 1 = Len(s)
        BY <1>1, <3>3
      <4> HIDE DEF t, s
      <4> QED
        BY <3>3, <4>1, <4>2 DEF Last
    <3> QED
      BY <1>1, <1>2, <2>1, <3>1, <3>2, <3>4
  <2>2. CASE pri # best
    BY <1>1, <1>3, <2>2 DEF QueuedIn
  <2> QED
    BY <2>1, <2>2
<1> QED
  BY <1>1, <1>2, <1>3, <1>4

LEMMA Initially == Init => SchedInv /\ Fifo!Init
<1> SUFFICES ASSUME Init PROVE SchedInv /\ Fifo!Init
  OBVIOUS
<1>1. /\ prio = InitPriority /\ aborted = FALSE /\ commands = 0
      /\ state = [p \in UserProcs |-> IF p = current THEN "EXECUTING" ELSE "READY"]
  BY DEF Init
<1>2. PICK level :
        /\ \A pri \in Priorities : level[pri] \in SetToSeqs({p \in UserProcs : prio[p] = pri})
        /\ current = Head(level[BestOf(level)])
        /\ lists = [head |-> [q \in ProcQueues |->
                                IF q = BLOCKED_QUEUE \/ QueuedIn(level, q) = <<>> THEN NULL
                                ELSE Head(QueuedIn(level, q))],
                    tail |-> [q \in ProcQueues |->
                                IF q = BLOCKED_QUEUE \/ level[q] = <<>> THEN NULL ELSE Last(level[q])],
                    next |-> [p \in UserProcs |->
                                IF Behind(QueuedIn(level, prio[p]), p) = {} THEN NULL
                                ELSE CHOOSE x \in Behind(QueuedIn(level, prio[p]), p) : TRUE]]
  BY DEF Init, BestOf, QueuedIn, Behind
<1>3. PICK best : best = BestOf(level)
  OBVIOUS
<1> DEFINE On(pri) == {p \in UserProcs : InitPriority[p] = pri}
           Q(pri) == QueuedIn(level, pri)
<1>4. /\ best \in Priorities /\ level[best] # <<>> /\ \A j \in 0 .. best - 1 : level[j] = <<>>
      /\ current \in UserProcs /\ InitPriority[current] = best
      /\ \A pri \in Priorities : /\ level[pri] \in Seq(UserProcs) /\ Range(level[pri]) = On(pri)
                                 /\ Q(pri) \in Seq(UserProcs) /\ IsInjective(Q(pri))
                                 /\ Range(Q(pri)) = On(pri) \ {current}
                                 /\ Q(pri) # <<>> => level[pri] # <<>> /\ Last(level[pri]) = Last(Q(pri))
  <2>1. \A pri \in Priorities : level[pri] \in SetToSeqs({p \in UserProcs : InitPriority[p] = pri})
    BY <1>1, <1>2
  <2>2. current = Head(level[best])
    BY <1>2, <1>3
  <2> QED
    BY <1>3, <2>1, <2>2, InitialQueues
<1> HIDE DEF Q
<1>5. PICK g : g = [q \in ProcQueues |-> IF q = BLOCKED_QUEUE THEN <<>> ELSE Q(q)]
  OBVIOUS
<1>6. /\ g \in [ProcQueues -> Seq(UserProcs)] /\ g[BLOCKED_QUEUE] = <<>>
      /\ \A pri \in Priorities : pri \in ProcQueues /\ g[pri] = Q(pri)
  BY <1>4, <1>5, EmptyQueue, Queues
<1>7. \A p \in UserProcs : /\ InitPriority[p] \in Priorities
                           /\ lists.next[p] = IF Behind(Q(InitPriority[p]), p) = {} THEN NULL
                                              ELSE CHOOSE x \in Behind(Q(InitPriority[p]), p) : TRUE
  BY <1>1, <1>2, SchedulerConstants DEF Q
<1>8. /\ \A pri \in Priorities : /\ lists.head[pri] = IF Q(pri) = <<>> THEN NULL ELSE Head(Q(pri))
                                 /\ lists.tail[pri] = IF level[pri] = <<>> THEN NULL ELSE Last(level[pri])
      /\ lists.head[BLOCKED_QUEUE] = NULL
  BY <1>2, Queues DEF Q
<1>9. lists \in Lists
  <2>1. \A pri \in Priorities : Q(pri) # <<>> => Head(Q(pri)) \in UserProcs
    BY <1>4, Dequeued
  <2>2. \A pri \in Priorities : level[pri] # <<>> => Last(level[pri]) \in UserProcs
    <3> TAKE pri \in Priorities
    <3>1. level[pri] \in Seq(UserProcs)
      BY <1>4
    <3>2. level[pri] # <<>> => Len(level[pri]) \in 1 .. Len(level[pri])
      BY <3>1, EmptySeq
    <3> QED
      BY <3>1, <3>2 DEF Last
  <2>3. \A p \in UserProcs : Behind(Q(InitPriority[p]), p) \subseteq UserProcs
    BY <1>4, <1>7, BehindIn
  <2>4. \A p \in UserProcs : Behind(Q(InitPriority[p]), p) # {} =>
          (CHOOSE x \in Behind(Q(InitPriority[p]), p) : TRUE) \in UserProcs
    BY <2>3
  <2>5. lists.head \in [ProcQueues -> Pointer] /\ lists.tail \in [ProcQueues -> Pointer]
    <3>1. /\ lists.head = [q \in ProcQueues |-> lists.head[q]] /\ lists.tail = [q \in ProcQueues |-> lists.tail[q]]
          /\ lists.tail[BLOCKED_QUEUE] = NULL
      BY <1>2, Queues
    <3>2. \A q \in ProcQueues : lists.head[q] \in Pointer /\ lists.tail[q] \in Pointer
      BY <1>8, <2>1, <2>2, <3>1, Queues DEF Pointer
    <3> QED
      BY <3>1, <3>2
  <2>6. lists.next \in [UserProcs -> Pointer]
    <3>1. lists.next = [p \in UserProcs |-> lists.next[p]]
      BY <1>2
    <3>2. \A p \in UserProcs : lists.next[p] \in Pointer
      BY <1>7, <2>4 DEF Pointer
    <3> QED
      BY <3>1, <3>2
  <2>7. lists = [head |-> lists.head, tail |-> lists.tail, next |-> lists.next]
    BY <1>2
  <2> QED
    BY <2>5, <2>6, <2>7 DEF Lists
<1>10. \A q \in ProcQueues : Chain(lists, q, g[q]) /\ IsInjective(g[q])
  <2>1. Chain(lists, BLOCKED_QUEUE, <<>>) /\ IsInjective(<<>>)
    BY <1>8, EmptyQueue DEF Chain
  <2>2. ASSUME NEW pri \in Priorities PROVE Chain(lists, pri, Q(pri)) /\ IsInjective(Q(pri))
    <3>1. CASE Q(pri) = <<>>
      BY <1>4, <1>8, <3>1 DEF Chain
    <3>2. CASE Q(pri) # <<>>
      <4>1. PICK s \in Seq(UserProcs) : s = Q(pri)
        BY <1>4
      <4>2. /\ s # <<>> /\ IsInjective(s) /\ DOMAIN s = 1 .. Len(s) /\ Len(s) \in 1 .. Len(s) /\ Head(s) = s[1]
            /\ Range(s) = On(pri) \ {current}
        BY <1>4, <3>2, <4>1, EmptySeq, LenProperties
      <4>3. lists.head[pri] = s[1] /\ lists.tail[pri] = Last(s)
        BY <1>4, <1>8, <3>2, <4>1, <4>2
      <4>4. \A i \in 1 .. Len(s) : s[i] \in UserProcs /\ InitPriority[s[i]] = pri
        BY <4>2 DEF Range
      <4>5. \A i \in 1 .. Len(s) : lists.next[s[i]] = IF Behind(s, s[i]) = {} THEN NULL
                                                      ELSE CHOOSE x \in Behind(s, s[i]) : TRUE
        BY <1>7, <4>1, <4>4
      <4>6. lists.next[s[Len(s)]] = NULL
        BY <4>2, <4>5, BehindIn
      <4>7. \A i \in 1 .. Len(s) - 1 : lists.next[s[i]] = s[i + 1]
        <5> TAKE i \in 1 .. Len(s) - 1
        <5>1. i \in 1 .. Len(s)
          BY <4>2
        <5>2. Behind(s, s[i]) = {s[i + 1]}
          BY <4>2, BehindIn
        <5>3. (CHOOSE x \in {s[i + 1]} : TRUE) = s[i + 1]
          OBVIOUS
        <5> QED
          BY <4>5, <5>1, <5>2, <5>3
      <4> QED
        BY <4>1, <4>2, <4>3, <4>6, <4>7 DEF Chain, Last
    <3> QED
      BY <3>1, <3>2
  <2> QED
    BY <1>6, <2>1, <2>2, Queues
<1>11. /\ Range(g[BLOCKED_QUEUE]) = {}
       /\ \A pri \in Priorities : Range(g[pri]) = On(pri) \ {current}
  BY <1>4, <1>6, EmptyQueue
<1>12. Whole(lists, g)
  <2>1. \A q, r \in ProcQueues : q # r => Range(g[q]) \cap Range(g[r]) = {}
    BY <1>11, Queues
  <2>2. ASSUME NEW p \in UserProcs, \A q \in ProcQueues : p \notin Range(g[q]) PROVE lists.next[p] = NULL
    <3>1. p \notin Range(Q(InitPriority[p]))
      BY <1>6, <1>7, <2>2
    <3>2. Behind(Q(InitPriority[p]), p) = {}
      BY <1>4, <1>7, <3>1, BehindIn
    <3> QED
      BY <1>7, <3>2
  <2> QED
    BY <1>6, <1>9, <1>10, <2>1, <2>2 DEF Whole
<1>13. /\ state \in [UserProcs -> States] /\ prio \in [UserProcs -> Priorities]
       /\ \A p \in UserProcs : state[p] = IF p = current THEN "EXECUTING" ELSE "READY"
  BY <1>1, SchedulerConstants DEF States
<1>14. Sound(lists, g, state, prio, current)
  <2>1. Filed(lists, g, state, prio)
    BY <1>1, <1>11, <1>12, <1>13 DEF Filed
  <2> QED
    BY <1>4, <1>13, <2>1, FiniteProcs DEF Sound
<1>15. SchedInv
  <2>1. TypeOK
    <3>1. commands \in 0 .. MaxCommands /\ aborted \in BOOLEAN
      <4>1. commands = 0 /\ aborted = FALSE
        BY <1>1
      <4>2. aborted \in BOOLEAN
        BY <4>1, Zenon
      <4>3. commands \in 0 .. MaxCommands
        BY <4>1, SchedulerConstants
      <4> QED
        BY <4>2, <4>3
    <3>2. current \in UserProcs
      BY <1>4
    <3> QED
      BY <1>9, <1>13, <3>1, <3>2 DEF TypeOK, Lists, States
  <2> QED
    BY <1>1, <1>14, <2>1 DEF SchedInv
<1>16. Ready = [pri \in Priorities |-> Q(pri)] /\ Contents(BLOCKED_QUEUE) = <<>>
  BY <1>6, <1>12, ReadNow
<1>17. Fifo!Init
  <2>1. current \in {p \in UserProcs : \A q \in UserProcs : prio[p] <= prio[q]}
    <3> SUFFICES ASSUME NEW q \in UserProcs PROVE InitPriority[current] <= InitPriority[q]
      BY <1>1, <1>4
    <3>1. q \in Range(level[InitPriority[q]])
      <4>1. InitPriority[q] \in Priorities /\ q \in On(InitPriority[q])
        BY <1>7
      <4> HIDE DEF On
      <4> QED
        BY <1>4, <4>1
    <3>2. InitPriority[q] \notin 0 .. best - 1
      BY <1>4, <3>1, EmptyQueue
    <3> QED
      BY <1>4, <1>7, <3>2, SchedulerConstants DEF Priorities
  <2>2. Ready \in [Priorities -> UNION {SetToSeqs(S) : S \in SUBSET (UserProcs \ {current})}]
    <3> SUFFICES ASSUME NEW pri \in Priorities
                 PROVE  \E S \in SUBSET (UserProcs \ {current}) : Q(pri) \in SetToSeqs(S)
      BY <1>16
    <3>1. Q(pri) \in SetToSeqs(Range(Q(pri)))
      BY <1>4, FiniteProcs, ListsItsRange
    <3> QED
      BY <1>4, <3>1
  <2>3. \A pri \in Priorities : ToSet(Ready[pri]) = {p \in UserProcs \ {current} : prio[p] = pri}
    <3> TAKE pri \in Priorities
    <3>1. ToSet(Ready[pri]) = Range(Q(pri))
      BY <1>16 DEF ToSet, Range
    <3> QED
      BY <1>1, <1>4, <3>1
  <2>4. Receiving = {}
    BY <1>13 DEF Receiving
  <2>5. QED
    <3>1. Contents(BLOCKED_QUEUE) = <<>> /\ prio = InitPriority
      BY <1>1, <1>16
    <3>2. Fifo!Priorities = Priorities /\ Fifo!UserProcs = UserProcs
      BY DEF Fifo!Priorities, Priorities, Fifo!UserProcs, UserProcs
    <3>3. /\ \A S : Fifo!SetToSeqs(S) = SetToSeqs(S)
          /\ \A s : Fifo!ToSet(s) = ToSet(s)
      BY DEF Fifo!SetToSeqs, SetToSeqs, Fifo!ToSet, ToSet, Fifo!Cardinality, Cardinality
    <3>4. current \in {p \in Fifo!UserProcs : \A q \in Fifo!UserProcs : prio[p] <= prio[q]}
      BY <2>1, <3>2
    <3>5. Ready \in [Fifo!Priorities -> UNION {Fifo!SetToSeqs(S) : S \in SUBSET (Fifo!UserProcs \ {current})}]
      BY <2>2, <3>2, <3>3
    <3>6. \A pri \in Fifo!Priorities : Fifo!ToSet(Ready[pri]) = {p \in Fifo!UserProcs \ {current} : prio[p] = pri}
      BY <2>3, <3>2, <3>3
    <3> QED
      BY <2>4, <3>1, <3>4, <3>5, <3>6 DEF Fifo!Init, Ready, Receiving
<1> QED
  BY <1>15, <1>17

-----------------------------------------------------------------------------
(* The theorems.  They are about the operations without a change of priority of the last
   process of a queue: with it the tail pointer is left behind. *)

(* In every state the lists hold one sequence per queue, each process stands where its state
   and its priority say, and the null process can run. *)
THEOREM SchedulerInvariance == SpecKeepingTails => []SchedInv
<1>1. Init => SchedInv
  BY Initially
<1>2. SchedInv /\ [NextKeepingTails]_vars => SchedInv'
  BY Steps DEF Step
<1> QED
  BY <1>1, <1>2, PTL DEF SpecKeepingTails

(* Type correctness of the tables and pointers of processQ.c and procPQ.c. *)
THEOREM SchedulerTypes == SpecKeepingTails => []TypeOK
<1>1. SchedInv => TypeOK
  BY DEF SchedInv
<1> QED
  BY <1>1, SchedulerInvariance, PTL

(* assert(pcb->next == NULL) never ends the program: a process is put on a queue only when
   it is linked into none, whatever order the operations come in. *)
THEOREM NoAssertFails == SpecKeepingTails => []AssertsHold
<1>1. SchedInv => AssertsHold
  BY DEF SchedInv, AssertsHold
<1> QED
  BY <1>1, SchedulerInvariance, PTL

(* The links form disjoint chains that end at the tail pointers, and a process on no queue
   keeps no stale link. *)
THEOREM ListsSound == SpecKeepingTails => []ListsWellFormed
<1>1. SchedInv => ListsWellFormed
  <2> SUFFICES ASSUME NEW g, Whole(lists, g) PROVE ListsWellFormed
    BY DEF SchedInv, Sound, Filed
  <2>1. \A q \in ProcQueues : Members(lists, q) = Range(g[q])
    BY Readable
  <2>2. ASSUME NEW q \in ProcQueues, ~ proc_q_is_empty(lists, q)
        PROVE  lists.tail[q] \in Members(lists, q) /\ lists.next[lists.tail[q]] = NULL
    <3>1. lists \in Lists /\ g[q] \in Seq(UserProcs) /\ Chain(lists, q, g[q])
      BY DEF Whole
    <3>2. g[q] # <<>>
      BY <2>2, <3>1, ChainEnds
    <3>3. lists.tail[q] \in Range(g[q])
      BY <3>1, <3>2, ChainEnds
    <3>4. lists.next[lists.tail[q]] = NULL
      BY <3>1, <3>2 DEF Chain
    <3> QED
      BY <2>1, <3>3, <3>4
  <2>3. \A q, r \in ProcQueues : q # r => Members(lists, q) \cap Members(lists, r) = {}
    BY <2>1 DEF Whole
  <2>4. \A p \in UserProcs : (\A q \in ProcQueues : p \notin Members(lists, q)) => Unlinked(lists, p)
    BY <2>1 DEF Whole, Unlinked
  <2> QED
    BY <2>2, <2>3, <2>4 DEF ListsWellFormed
<1> QED
  BY <1>1, SchedulerInvariance, PTL

(* The linked lists implement FifoScheduler: a process that becomes ready waits behind its
   equals, the processor goes to the longest waiting process of the best priority, and a
   change of priority sends a ready process to the end of its new queue. *)
THEOREM FifoImplemented == SpecKeepingTails => ImplementsFifoScheduler
<1>1. Init => Fifo!Init
  BY Initially
<1>2. SchedInv /\ [NextKeepingTails]_vars => [Fifo!Next]_Fifo!vars
  BY Steps DEF Step
<1> QED
  BY <1>1, <1>2, SchedulerInvariance, PTL DEF SpecKeepingTails, ImplementsFifoScheduler, Fifo!Spec
=============================================================================
