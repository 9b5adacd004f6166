----------------------------- MODULE TimerProofs -----------------------------
(***************************************************************************)
(* Proofs about TimerQueue: TIMEOUT_Q stays sorted, no delay ends early or *)
(* much too late, and two delays at a time cannot crash the program.       *)
(***************************************************************************)
EXTENDS TimerQueue, QueueLemmas, TLAPS

InOrder(q, due) == \A i, j \in 1 .. Len(q) : i < j => due[q[i]] <= due[q[j]]

(* Where timeout_q_insert puts an envelope: behind what is due before it, and in front of
   what is due later. *)
LEMMA PlaceIsRight ==
  ASSUME NEW q \in Seq(Envelopes), NEW due \in [Envelopes -> Nat], NEW deadline \in Nat,
         InOrder(q, due), ~ RunsOffTheEnd(q, deadline, due)
  PROVE  LET k == PlaceOf(q, deadline, due)
         IN  /\ k \in 1 .. Len(q) + 1
             /\ \A i \in 1 .. k - 1 : due[q[i]] <= deadline
             /\ \A i \in k .. Len(q) : deadline <= due[q[i]]
<1> DEFINE k == PlaceOf(q, deadline, due)
           n == Len(q)
           S == StopsAt(q, deadline, due)
<1>0. n \in Nat /\ (q = <<>> <=> n = 0) /\ \A i \in 1 .. n : due[q[i]] \in Nat
  <2>1. \A i \in 1 .. n : q[i] \in Envelopes OBVIOUS
  <2> QED BY <2>1
<1>1. CASE q = <<>> \/ deadline < due[q[1]]
  <2>1. k = 1 BY <1>1 DEF PlaceOf
  <2>2. \A i \in 1 .. n : deadline <= due[q[i]]
    BY <1>0, <1>1 DEF InOrder
  <2> QED BY <1>0, <2>1, <2>2
<1>2. CASE q # <<>> /\ ~ (deadline < due[q[1]]) /\ S = {}
  <2>0. ~ (n >= 2) BY <1>2 DEF RunsOffTheEnd
  <2>1. n = 1
    <3>1. n \in Nat /\ n # 0 BY <1>0, <1>2
    <3> HIDE DEF n
    <3> QED BY <2>0, <3>1
  <2>2. k = n + 1 BY <1>2 DEF PlaceOf
  <2>3. due[q[1]] <= deadline BY <1>0, <1>2, <2>1
  <2> QED BY <2>1, <2>2, <2>3
<1>3. CASE q # <<>> /\ ~ (deadline < due[q[1]]) /\ S # {}
  <2>1. S \in SUBSET Nat BY <1>0 DEF StopsAt
  <2>2. \E x \in S : \A j \in S : x <= j BY <1>3, <2>1, LeastElement
  <2>3. k \in S /\ \A j \in S : k <= j
    <3>1. k = CHOOSE x \in S : \A j \in S : x <= j BY <1>3 DEF PlaceOf
    <3> QED BY <2>2, <3>1
  <2> HIDE DEF k
  <2>4. k \in 2 .. n /\ deadline <= due[q[k]] BY <2>3 DEF StopsAt
  <2>5. \A i \in k .. n : deadline <= due[q[i]]
    <3> SUFFICES ASSUME NEW i \in k .. n PROVE deadline <= due[q[i]] OBVIOUS
    <3>1. i = k \/ due[q[k]] <= due[q[i]] BY <1>0, <2>4 DEF InOrder
    <3> QED BY <1>0, <2>4, <3>1
  <2>6. \A i \in 1 .. k - 1 : due[q[i]] <= deadline
    <3> SUFFICES ASSUME NEW i \in 1 .. k - 1 PROVE due[q[i]] <= deadline OBVIOUS
    <3>1. CASE i = 1 BY <1>0, <1>3, <3>1
    <3>2. CASE i # 1
      <4>1. i \in 2 .. n /\ i \notin S BY <1>0, <2>3, <2>4, <3>2
      <4> QED BY <1>0, <4>1 DEF StopsAt
    <3> QED BY <3>1, <3>2
  <2> QED BY <1>0, <2>4, <2>5, <2>6 DEF k
<1> QED BY <1>1, <1>2, <1>3

(* What an insertion does to the sequence. *)
LEMMA InsertedAtProperties ==
  ASSUME NEW q \in Seq(Envelopes), NEW k \in 1 .. Len(q) + 1, NEW e \in Envelopes,
         NEW s, s = InsertedAt(q, k, e)
  PROVE  /\ s \in Seq(Envelopes) /\ Len(s) = Len(q) + 1
         /\ \A i \in 1 .. Len(q) + 1 :
              s[i] = IF i < k THEN q[i] ELSE IF i = k THEN e ELSE q[i - 1]
         /\ Range(s) = Range(q) \cup {e}
         /\ IsInjective(q) /\ e \notin Range(q) => IsInjective(s)
<1> DEFINE n == Len(q)
<1>1. n \in Nat /\ DOMAIN q = 1 .. n /\ \A i \in 1 .. n : q[i] \in Envelopes OBVIOUS
<1>2. \A i \in 1 .. n + 1 :
        (IF i < k THEN q[i] ELSE IF i = k THEN e ELSE q[i - 1]) \in Envelopes
  <2> TAKE i \in 1 .. n + 1
  <2>1. CASE i < k BY <1>1, <2>1
  <2>2. CASE i = k BY <2>2
  <2>3. CASE i > k
    <3>1. i - 1 \in 1 .. n BY <1>1, <2>3
    <3> QED BY <1>1, <2>3, <3>1
  <2> QED BY <1>1, <2>1, <2>2, <2>3
<1>3. s = [i \in 1 .. n + 1 |-> IF i < k THEN q[i] ELSE IF i = k THEN e ELSE q[i - 1]]
  BY DEF InsertedAt
<1>4. s \in Seq(Envelopes) /\ Len(s) = n + 1 /\ DOMAIN s = 1 .. n + 1
  <2>1. n + 1 \in Nat BY <1>1
  <2>2. s \in [1 .. n + 1 -> Envelopes] BY <1>2, <1>3
  <2> QED BY <2>1, <2>2
<1>5. \A i \in 1 .. n + 1 :
        s[i] = IF i < k THEN q[i] ELSE IF i = k THEN e ELSE q[i - 1]
  BY <1>3
<1> HIDE DEF n
<1>6. Range(s) \subseteq Range(q) \cup {e}
  <2> SUFFICES ASSUME NEW i \in 1 .. n + 1 PROVE s[i] \in Range(q) \cup {e}
    BY <1>4 DEF Range
  <2>1. i \in 1 .. n \/ i = k \/ (i > k /\ i - 1 \in 1 .. n) BY <1>1 DEF n
  <2>2. CASE i < k /\ i \in 1 .. n BY <1>1, <1>5, <2>2 DEF Range
  <2>3. CASE i = k BY <1>5, <2>3
  <2>4. CASE i > k
    <3>1. i - 1 \in 1 .. n /\ s[i] = q[i - 1] BY <1>1, <1>5, <2>4
    <3> QED BY <1>1, <3>1 DEF Range
  <2> QED BY <1>1, <2>1, <2>2, <2>3, <2>4
<1>7. e \in Range(s)
  <2>1. k \in 1 .. n + 1 /\ s[k] = e BY <1>5 DEF n
  <2> QED BY <1>4, <2>1 DEF Range
<1>8. Range(q) \subseteq Range(s)
  <2> SUFFICES ASSUME NEW i \in 1 .. n PROVE q[i] \in Range(s)
    BY <1>1 DEF Range
  <2>1. CASE i < k
    <3>1. i \in 1 .. n + 1 /\ s[i] = q[i] BY <1>1, <1>5, <2>1
    <3> QED BY <1>4, <3>1 DEF Range
  <2>2. CASE i >= k
    <3>1. i + 1 \in 1 .. n + 1 /\ i + 1 > k /\ (i + 1) - 1 = i BY <1>1, <2>2
    <3>2. s[i + 1] = q[i] BY <1>5, <3>1
    <3> QED BY <1>4, <3>1, <3>2 DEF Range
  <2> QED BY <1>1, <2>1, <2>2
<1>9. ASSUME IsInjective(q), e \notin Range(q) PROVE IsInjective(s)
  <2> DEFINE at(i) == IF i < k THEN i ELSE i - 1
  <2>1. \A i \in 1 .. n + 1 : i # k => at(i) \in 1 .. n /\ s[i] = q[at(i)]
    BY <1>1, <1>5 DEF n
  <2>2. \A i, j \in 1 .. n + 1 : i # k /\ j # k /\ i # j => at(i) # at(j) BY <1>1
  <2>3. \A i, j \in 1 .. n : q[i] = q[j] => i = j BY <1>1, <1>9 DEF IsInjective
  <2>4. \A i \in 1 .. n : q[i] # e BY <1>1, <1>9 DEF Range
  <2> HIDE DEF at
  <2>5. \A i, j \in 1 .. n + 1 : s[i] = s[j] => i = j
    <3> SUFFICES ASSUME NEW i \in 1 .. n + 1, NEW j \in 1 .. n + 1, s[i] = s[j]
                 PROVE  i = j
      OBVIOUS
    <3>1. CASE i # k /\ j # k BY <2>1, <2>2, <2>3, <3>1
    <3>2. CASE i = k /\ j # k BY <1>5, <2>1, <2>4, <3>2
    <3>3. CASE i # k /\ j = k BY <1>5, <2>1, <2>4, <3>3
    <3> QED BY <3>1, <3>2, <3>3
  <2> QED BY <1>4, <2>5 DEF IsInjective
<1> QED BY <1>4, <1>5, <1>6, <1>7, <1>8, <1>9 DEF n

(* The members of a queue. *)
LEMMA Members ==
  ASSUME NEW q \in Seq(Envelopes)
  PROVE  /\ Range(q) \subseteq Envelopes
         /\ \A i \in 1 .. Len(q) : q[i] \in Envelopes /\ q[i] \in Range(q)
<1>1. DOMAIN q = 1 .. Len(q) /\ \A i \in 1 .. Len(q) : q[i] \in Envelopes OBVIOUS
<1> QED BY <1>1 DEF Range

(* The envelopes behind the first. *)
LEMMA TailEntries ==
  ASSUME NEW q \in Seq(Envelopes), q # <<>>
  PROVE  /\ Head(q) = q[1] /\ 1 \in 1 .. Len(q)
         /\ Len(Tail(q)) = Len(q) - 1
         /\ \A i \in 1 .. Len(q) - 1 : Tail(q)[i] = q[i + 1] /\ i + 1 \in 1 .. Len(q)
OBVIOUS

-----------------------------------------------------------------------------
(* What a pending request and a queued deadline have to do with what was asked for. *)
DeadlinesKept ==
  /\ \A e \in Range(requests) :
       time_delay[e] = asked[e].delay /\ asked[e].at <= NUM_OF_TICKS
  /\ \A e \in Range(TIMEOUT_Q) :
       time_delay[e] >= asked[e].at + asked[e].delay * TicksPerSecond

TimerInv == TypeOK /\ Sorted /\ DeadlinesKept

LEMMA InitTimer == Init => TimerInv
<1> SUFFICES ASSUME Init PROVE TimerInv OBVIOUS
<1>1. NotAsked \in [at : 0 .. FloatLimit, delay : Nat]
  BY TimerConstants DEF NotAsked
<1>2. TypeOK
  <2>1. /\ requests \in Seq(Envelopes) /\ IsInjective(requests)
        /\ TIMEOUT_Q \in Seq(Envelopes) /\ IsInjective(TIMEOUT_Q)
        /\ Range(requests) = {}
    BY EmptyQueue DEF Init
  <2>2. NUM_OF_TICKS \in 0 .. FloatLimit BY TimerConstants DEF Init
  <2>3. time_delay \in [Envelopes -> Nat] BY DEF Init
  <2>4. asked \in [Envelopes -> [at : 0 .. FloatLimit, delay : Nat]] BY <1>1 DEF Init
  <2>5. inHandler \in BOOLEAN /\ crashed \in BOOLEAN BY DEF Init
  <2>6. Range(requests) \cap Range(TIMEOUT_Q) = {} BY <2>1
  <2> QED BY <2>1, <2>2, <2>3, <2>4, <2>5, <2>6 DEF TypeOK
<1>3. Sorted BY DEF Init, Sorted
<1>4. DeadlinesKept BY EmptyQueue DEF Init, DeadlinesKept
<1> QED BY <1>2, <1>3, <1>4 DEF TimerInv

(* The envelope was not timed before: no deadline in use changes. *)
LEMMA RequestDelayStep ==
  ASSUME TimerInv, NEW e \in Envelopes, NEW delay \in Delays, RequestDelay(e, delay)
  PROVE  TimerInv'
<1>1. /\ TypeOK /\ Sorted /\ DeadlinesKept
      /\ e \notin Range(requests) /\ e \notin Range(TIMEOUT_Q) /\ delay \in Nat
  BY TimerConstants DEF TimerInv, RequestDelay, Timed
<1>2. /\ requests' \in Seq(Envelopes) /\ IsInjective(requests')
      /\ Range(requests') = Range(requests) \cup {e}
  BY <1>1, Enqueued DEF RequestDelay, TypeOK
<1>3. \A x \in Envelopes : x # e => time_delay'[x] = time_delay[x] /\ asked'[x] = asked[x]
  BY <1>1 DEF RequestDelay, TypeOK
<1>4. /\ time_delay'[e] = delay /\ asked'[e].at = NUM_OF_TICKS /\ asked'[e].delay = delay
      /\ NUM_OF_TICKS' = NUM_OF_TICKS /\ TIMEOUT_Q' = TIMEOUT_Q /\ crashed' = crashed
  BY <1>1 DEF RequestDelay, TypeOK
<1>5. [at |-> NUM_OF_TICKS, delay |-> delay] \in [at : 0 .. FloatLimit, delay : Nat]
  BY <1>1 DEF TypeOK
<1>6. TypeOK'
  <2>1. time_delay' \in [Envelopes -> Nat] /\ asked' \in [Envelopes -> [at : 0 .. FloatLimit, delay : Nat]]
    BY <1>1, <1>5 DEF RequestDelay, TypeOK
  <2>2. Range(requests') \cap Range(TIMEOUT_Q') = {} BY <1>1, <1>2, <1>4 DEF TypeOK
  <2>3. inHandler' \in BOOLEAN /\ crashed' \in BOOLEAN BY <1>1 DEF RequestDelay, TypeOK
  <2> QED BY <1>1, <1>2, <1>4, <2>1, <2>2, <2>3 DEF TypeOK
<1>7. \A i \in 1 .. Len(TIMEOUT_Q) : TIMEOUT_Q[i] \in Envelopes /\ TIMEOUT_Q[i] # e
  BY <1>1, SMTT(30) DEF TypeOK, Range
<1>8. Sorted' BY <1>1, <1>3, <1>4, <1>7 DEF Sorted
<1>9. DeadlinesKept'
  <2>1. Range(requests) \subseteq Envelopes /\ Range(TIMEOUT_Q) \subseteq Envelopes
    BY <1>1, SMTT(30) DEF TypeOK, Range
  <2>2. ASSUME NEW x \in Range(requests')
        PROVE  time_delay'[x] = asked'[x].delay /\ asked'[x].at <= NUM_OF_TICKS'
    <3>1. CASE x = e BY <1>1, <1>4, <3>1 DEF TypeOK
    <3>2. CASE x # e BY <1>1, <1>2, <1>3, <1>4, <2>1, <3>2 DEF DeadlinesKept
    <3> QED BY <3>1, <3>2
  <2>3. ASSUME NEW x \in Range(TIMEOUT_Q')
        PROVE  time_delay'[x] >= asked'[x].at + asked'[x].delay * TicksPerSecond
    BY <1>1, <1>3, <1>4, <2>1 DEF DeadlinesKept
  <2> QED BY <2>2, <2>3 DEF DeadlinesKept
<1> QED BY <1>6, <1>8, <1>9 DEF TimerInv

(* The clock does not run backwards. *)
LEMMA TickStep ==
  ASSUME TimerInv, timer_i_proc PROVE TimerInv'
<1>1. TypeOK /\ Sorted /\ DeadlinesKept BY DEF TimerInv
<1>2. /\ NUM_OF_TICKS' \in 0 .. FloatLimit /\ NUM_OF_TICKS' >= NUM_OF_TICKS
  BY <1>1, TimerConstants DEF timer_i_proc, clock_inc_time, TypeOK
<1>3. TypeOK' BY <1>1, <1>2 DEF TypeOK, timer_i_proc
<1>4. Sorted' BY <1>1 DEF Sorted, timer_i_proc
<1>5. Range(requests) \subseteq Envelopes BY <1>1 DEF TypeOK, Range
<1>6. \A e \in Range(requests) : asked[e].at <= NUM_OF_TICKS'
  <2> SUFFICES ASSUME NEW e \in Range(requests) PROVE asked[e].at <= NUM_OF_TICKS' OBVIOUS
  <2>1. asked[e].at \in Nat /\ NUM_OF_TICKS \in Nat BY <1>1, <1>5 DEF TypeOK
  <2> QED BY <1>1, <1>2, <2>1 DEF DeadlinesKept
<1>7. DeadlinesKept' BY <1>1, <1>6 DEF DeadlinesKept, timer_i_proc
<1> QED BY <1>3, <1>4, <1>7 DEF TimerInv

(* The deadline of the request is known now, and no other deadline changes; the envelope
   goes to its place, or the program crashes. *)
LEMMA InsertStep ==
  ASSUME TimerInv, timeout_q_insert PROVE TimerInv'
<1> DEFINE e == Head(requests)
           q == TIMEOUT_Q
           d == Deadline(e)
           k == PlaceOf(q, d, time_delay)
<1>1. /\ TypeOK /\ Sorted /\ DeadlinesKept
      /\ requests # <<>> /\ ~ crashed
  BY DEF TimerInv, timeout_q_insert
<1>2. /\ e \in Envelopes /\ e \in Range(requests) /\ e \notin Range(q)
      /\ requests' \in Seq(Envelopes) /\ IsInjective(requests')
      /\ Range(requests') = Range(requests) \ {e}
  BY <1>1, Dequeued DEF TypeOK, timeout_q_insert, Unread
<1>3. Range(requests) \subseteq Envelopes /\ Range(q) \subseteq Envelopes
  BY <1>1, Members DEF TypeOK
<1>4. d \in Nat /\ d = NUM_OF_TICKS + time_delay[e] * 10
  BY <1>1, <1>2 DEF TypeOK, Deadline, TicksPerSecond
<1>5. /\ NUM_OF_TICKS' = NUM_OF_TICKS /\ inHandler' = inHandler /\ asked' = asked
      /\ time_delay' = [time_delay EXCEPT ![e] = d]
      /\ IF RunsOffTheEnd(q, d, time_delay)
         THEN crashed' = TRUE /\ TIMEOUT_Q' = q
         ELSE TIMEOUT_Q' = InsertedAt(q, k, e) /\ crashed' = crashed
  BY DEF timeout_q_insert
<1>6. /\ time_delay' \in [Envelopes -> Nat]
      /\ time_delay'[e] = d
      /\ \A x \in Envelopes : x # e => time_delay'[x] = time_delay[x]
  BY <1>1, <1>2, <1>4, <1>5 DEF TypeOK
<1>7. \A i \in 1 .. Len(q) : q[i] \in Envelopes /\ q[i] \in Range(q) /\ q[i] # e
  BY <1>1, <1>2, Members DEF TypeOK
<1>8. \A i \in 1 .. Len(q) : time_delay'[q[i]] = time_delay[q[i]] /\ time_delay[q[i]] \in Nat
  BY <1>1, <1>6, <1>7 DEF TypeOK
<1>9. d >= asked[e].at + asked[e].delay * TicksPerSecond
  <2>1. time_delay[e] = asked[e].delay /\ asked[e].at <= NUM_OF_TICKS
    BY <1>1, <1>2 DEF DeadlinesKept
  <2>2. asked[e].at \in Nat /\ asked[e].delay \in Nat /\ NUM_OF_TICKS \in Nat
    BY <1>1, <1>2 DEF TypeOK
  <2> QED BY <1>4, <2>1, <2>2 DEF TicksPerSecond
<1>10. \A x \in Range(requests') :
         time_delay'[x] = asked'[x].delay /\ asked'[x].at <= NUM_OF_TICKS'
  BY <1>1, <1>2, <1>3, <1>5, <1>6 DEF DeadlinesKept
<1>11. \A x \in Range(q) \cup {e} :
         time_delay'[x] >= asked'[x].at + asked'[x].delay * TicksPerSecond
  BY <1>1, <1>2, <1>3, <1>5, <1>6, <1>9 DEF DeadlinesKept
<1> HIDE DEF e, d, k
<1>12. CASE RunsOffTheEnd(q, d, time_delay)
  <2>1. TIMEOUT_Q' = q /\ crashed' = TRUE BY <1>5, <1>12
  <2>2. TypeOK' BY <1>1, <1>2, <1>5, <1>6, <2>1 DEF TypeOK
  <2>3. Sorted' BY <1>1, <1>8, <2>1 DEF Sorted
  <2>4. DeadlinesKept' BY <1>10, <1>11, <2>1 DEF DeadlinesKept
  <2> QED BY <2>2, <2>3, <2>4 DEF TimerInv
<1>13. CASE ~ RunsOffTheEnd(q, d, time_delay)
  <2>1. TIMEOUT_Q' = InsertedAt(q, k, e) /\ crashed' = FALSE BY <1>1, <1>5, <1>13
  <2>2. q \in Seq(Envelopes) /\ time_delay \in [Envelopes -> Nat] BY <1>1 DEF TypeOK
  <2>3. InOrder(q, time_delay) BY <1>1 DEF Sorted, InOrder
  <2>4. /\ k \in 1 .. Len(q) + 1
        /\ \A i \in 1 .. k - 1 : time_delay[q[i]] <= d
        /\ \A i \in k .. Len(q) : d <= time_delay[q[i]]
    BY <1>4, <1>13, <2>2, <2>3, PlaceIsRight DEF k
  <2> DEFINE s == InsertedAt(q, k, e)
  <2>5. /\ s \in Seq(Envelopes) /\ Len(s) = Len(q) + 1
        /\ \A i \in 1 .. Len(q) + 1 :
             s[i] = IF i < k THEN q[i] ELSE IF i = k THEN e ELSE q[i - 1]
        /\ Range(s) = Range(q) \cup {e}
        /\ IsInjective(q) /\ e \notin Range(q) => IsInjective(s)
    BY <1>2, <2>2, <2>4, InsertedAtProperties
  <2> HIDE DEF s
  <2>6. TIMEOUT_Q' = s BY <2>1 DEF s
  <2>7. TypeOK'
    <3>1. IsInjective(s) BY <1>1, <1>2, <2>5 DEF TypeOK
    <3>2. Range(requests') \cap Range(s) = {} BY <1>1, <1>2, <2>5 DEF TypeOK
    <3> QED BY <1>1, <1>2, <1>5, <1>6, <2>1, <2>5, <2>6, <3>1, <3>2 DEF TypeOK
  <2>8. Sorted'
    <3> DEFINE n == Len(q)
               v(i) == time_delay'[s[i]]
    <3>1. n \in Nat /\ k \in 1 .. n + 1 BY <2>2, <2>4
    <3>2. \A i \in 1 .. n + 1 :
            /\ i < k => i \in 1 .. n /\ v(i) = time_delay[q[i]]
            /\ i = k => v(i) = d
            /\ i > k => i - 1 \in 1 .. n /\ v(i) = time_delay[q[i - 1]]
      <4> TAKE i \in 1 .. n + 1
      <4>2. CASE i < k
        <5>1. i \in 1 .. n /\ s[i] = q[i] BY <2>5, <3>1, <4>2
        <5> QED BY <1>8, <3>1, <4>2, <5>1
      <4>3. CASE i = k
        <5>1. s[i] = e BY <2>5, <3>1, <4>3
        <5> QED BY <1>6, <3>1, <4>3, <5>1
      <4>4. CASE i > k
        <5>1. i - 1 \in 1 .. n BY <3>1, <4>4
        <5>2. s[i] = q[i - 1] BY <2>5, <3>1, <4>4
        <5> QED BY <1>8, <3>1, <4>4, <5>1, <5>2
      <4> QED BY <3>1, <4>2, <4>3, <4>4
    <3>3. \A i, j \in 1 .. n : i < j => time_delay[q[i]] <= time_delay[q[j]]
      BY <2>3 DEF InOrder
    <3> DEFINE w(i) == time_delay[q[i]]
    <3>4. \A i \in 1 .. n : w(i) \in Nat BY <1>8
    <3>5. /\ \A i \in 1 .. n + 1 :
               /\ i < k => i \in 1 .. n /\ v(i) = w(i)
               /\ i = k => v(i) = d
               /\ i > k => i - 1 \in 1 .. n /\ v(i) = w(i - 1)
          /\ \A i, j \in 1 .. n : i < j => w(i) <= w(j)
          /\ \A i \in 1 .. k - 1 : w(i) <= d
          /\ \A i \in k .. n : d <= w(i)
      BY <2>4, <3>2, <3>3
    <3> HIDE DEF v, w, n
    <3>6. \A i, j \in 1 .. n + 1 : i < j => v(i) <= v(j)
      <4> SUFFICES ASSUME NEW i \in 1 .. n + 1, NEW j \in 1 .. n + 1, i < j
                   PROVE  v(i) <= v(j)
        OBVIOUS
      <4>1. CASE j < k
        <5>1. i < k BY <3>1, <4>1
        <5> QED BY <3>5, <4>1, <5>1
      <4>2. CASE j = k
        <5>1. i < k /\ i \in 1 .. k - 1 BY <3>1, <4>2
        <5> QED BY <3>5, <4>2, <5>1
      <4>3. CASE j > k /\ i < k
        <5>1. j - 1 \in k .. n /\ i \in 1 .. k - 1 /\ i \in 1 .. n BY <3>1, <4>3
        <5>2. j - 1 \in 1 .. n BY <3>5, <4>3
        <5>3. w(i) <= d /\ d <= w(j - 1) /\ w(i) \in Nat /\ w(j - 1) \in Nat
          BY <3>4, <3>5, <5>1, <5>2
        <5>4. w(i) <= w(j - 1) BY <1>4, <5>3
        <5> QED BY <3>5, <4>3, <5>4
      <4>4. CASE j > k /\ i = k
        <5>1. j - 1 \in k .. n BY <3>1, <4>4
        <5> QED BY <3>5, <4>4, <5>1
      <4>5. CASE j > k /\ i > k
        <5>1. i - 1 \in 1 .. n /\ j - 1 \in 1 .. n /\ i - 1 < j - 1 BY <3>1, <3>5, <4>5
        <5> QED BY <3>5, <4>5, <5>1
      <4> QED BY <3>1, <4>1, <4>2, <4>3, <4>4, <4>5
    <3>7. Len(s) = n + 1 BY <2>5 DEF n
    <3> QED BY <2>6, <3>6, <3>7 DEF Sorted, v
  <2>9. DeadlinesKept' BY <1>10, <1>11, <2>5, <2>6 DEF DeadlinesKept
  <2> QED BY <2>7, <2>8, <2>9 DEF TimerInv
<1> QED BY <1>12, <1>13

(* The history of the envelope returned is reset, and it is no longer timed. *)
LEMMA CheckStep ==
  ASSUME TimerInv, check_timeout_q PROVE TimerInv'
<1>1. TypeOK /\ Sorted /\ DeadlinesKept /\ ~ crashed /\ requests = <<>>
  BY DEF TimerInv, check_timeout_q
<1>2. /\ NUM_OF_TICKS' = NUM_OF_TICKS /\ requests' = requests /\ time_delay' = time_delay
      /\ crashed' = crashed /\ inHandler' = FALSE
      /\ TIMEOUT_Q' = IF IsDue THEN Tail(TIMEOUT_Q) ELSE TIMEOUT_Q
      /\ asked' = [e \in Envelopes |-> IF IsDue /\ e = Head(TIMEOUT_Q) THEN NotAsked ELSE asked[e]]
  BY DEF check_timeout_q
<1>3. NotAsked \in [at : 0 .. FloatLimit, delay : Nat]
  BY TimerConstants DEF NotAsked
<1>4. asked' \in [Envelopes -> [at : 0 .. FloatLimit, delay : Nat]]
  BY <1>1, <1>2, <1>3 DEF TypeOK
<1>5. Range(requests) = {} BY <1>1, EmptyQueue
<1>6. Range(TIMEOUT_Q) \subseteq Envelopes BY <1>1 DEF TypeOK, Range
<1>7. CASE ~ IsDue
  <2>1. TIMEOUT_Q' = TIMEOUT_Q BY <1>2, <1>7
  <2>2. TypeOK' BY <1>1, <1>2, <1>4, <2>1 DEF TypeOK
  <2>3. Sorted' BY <1>1, <1>2, <2>1 DEF Sorted
  <2>4. \A e \in Envelopes : asked'[e] = asked[e] BY <1>2, <1>7
  <2>5. DeadlinesKept' BY <1>1, <1>2, <1>5, <1>6, <2>1, <2>4 DEF DeadlinesKept
  <2> QED BY <2>2, <2>3, <2>5 DEF TimerInv
<1>8. CASE IsDue
  <2>1. TIMEOUT_Q # <<>> /\ TIMEOUT_Q \in Seq(Envelopes) /\ IsInjective(TIMEOUT_Q)
    BY <1>1, <1>8 DEF IsDue, TypeOK
  <2>2. TIMEOUT_Q' = Tail(TIMEOUT_Q) BY <1>2, <1>8
  <2>3. /\ TIMEOUT_Q' \in Seq(Envelopes) /\ IsInjective(TIMEOUT_Q')
        /\ Range(TIMEOUT_Q') = Range(TIMEOUT_Q) \ {Head(TIMEOUT_Q)}
    BY <2>1, <2>2, Dequeued
  <2>4. TypeOK'
    <3>1. Range(requests') \cap Range(TIMEOUT_Q') = {} BY <1>2, <1>5
    <3> QED BY <1>1, <1>2, <1>4, <2>3, <3>1 DEF TypeOK
  <2>5. Sorted'
    <3>1. /\ Len(TIMEOUT_Q') = Len(TIMEOUT_Q) - 1 /\ Len(TIMEOUT_Q) \in Nat
          /\ \A i \in 1 .. Len(TIMEOUT_Q) - 1 :
               TIMEOUT_Q'[i] = TIMEOUT_Q[i + 1] /\ i + 1 \in 1 .. Len(TIMEOUT_Q)
      BY <2>1, <2>2, TailEntries
    <3> SUFFICES ASSUME NEW i \in 1 .. Len(TIMEOUT_Q) - 1,
                        NEW j \in 1 .. Len(TIMEOUT_Q) - 1, i < j
                 PROVE  time_delay[TIMEOUT_Q[i + 1]] <= time_delay[TIMEOUT_Q[j + 1]]
      BY <1>2, <3>1 DEF Sorted
    <3>2. i + 1 \in 1 .. Len(TIMEOUT_Q) /\ j + 1 \in 1 .. Len(TIMEOUT_Q) /\ i + 1 < j + 1
      BY <3>1
    <3> QED BY <1>1, <3>2 DEF Sorted
  <2>6. \A e \in Envelopes : e # Head(TIMEOUT_Q) => asked'[e] = asked[e] BY <1>2
  <2>7. \A e \in Range(TIMEOUT_Q') :
          time_delay'[e] >= asked'[e].at + asked'[e].delay * TicksPerSecond
    BY <1>1, <1>2, <1>6, <2>3, <2>6 DEF DeadlinesKept
  <2>8. DeadlinesKept' BY <1>2, <1>5, <2>7 DEF DeadlinesKept
  <2> QED BY <2>4, <2>5, <2>8 DEF TimerInv
<1> QED BY <1>7, <1>8

-----------------------------------------------------------------------------
(* Whatever the envelopes, the delays and the limit of the clock, every reachable state has
   a sorted TIMEOUT_Q whose deadlines are those asked for, and has not crashed with fewer
   than two envelopes in it. *)
THEOREM TimerInvariance == Spec => []TimerInv
<1>1. TimerInv /\ [Next]_vars => TimerInv'
  <2> SUFFICES ASSUME TimerInv, [Next]_vars PROVE TimerInv' OBVIOUS
  <2>1. ASSUME NEW e \in Envelopes, NEW delay \in Delays, RequestDelay(e, delay) PROVE TimerInv'
    BY <2>1, RequestDelayStep
  <2>2. CASE timer_i_proc BY <2>2, TickStep
  <2>3. CASE timeout_q_insert BY <2>3, InsertStep
  <2>4. CASE check_timeout_q BY <2>4, CheckStep
  <2>5. CASE UNCHANGED vars
    BY <2>5 DEF vars, TimerInv, TypeOK, Sorted, DeadlinesKept
  <2> QED BY <2>1, <2>2, <2>3, <2>4, <2>5 DEF Next
<1> QED BY <1>1, InitTimer, PTL DEF Spec

(* The queues of the timer hold each envelope once, and none is in both: k_request_delay
   and the loop of timer_i_proc never leave an envelope linked twice. *)
THEOREM TimerTypeCorrect == Spec => []TypeOK
<1>1. TimerInv => TypeOK BY DEF TimerInv
<1> QED BY <1>1, TimerInvariance, PTL

(* timeout_q_insert keeps TIMEOUT_Q sorted by deadline, so that check_timeout_q may look at
   its head alone. *)
THEOREM QueueSorted == Spec => []Sorted
<1>1. TimerInv => Sorted BY DEF TimerInv
<1> QED BY <1>1, TimerInvariance, PTL

(* check_timeout_q returns no envelope before the delay asked of k_request_delay is over. *)
THEOREM NoDelayEndsEarly == Spec => NotEarly
<1> DEFINE OnTime ==
      \A e \in Range(TIMEOUT_Q) \ Range(TIMEOUT_Q') :
        NUM_OF_TICKS >= asked[e].at + asked[e].delay * TicksPerSecond
<1>1. TimerInv /\ [Next]_vars => OnTime
  <2> SUFFICES ASSUME TimerInv, [Next]_vars,
                      NEW e \in Range(TIMEOUT_Q), e \notin Range(TIMEOUT_Q')
               PROVE  NUM_OF_TICKS >= asked[e].at + asked[e].delay * TicksPerSecond
    OBVIOUS
  <2>0. TypeOK /\ Sorted /\ DeadlinesKept /\ e \in Envelopes
    BY Members DEF TimerInv, TypeOK
  <2>1. ASSUME NEW x \in Envelopes, NEW delay \in Delays, RequestDelay(x, delay) PROVE FALSE
    BY <2>1 DEF RequestDelay
  <2>2. CASE timer_i_proc BY <2>2 DEF timer_i_proc
  <2>3. CASE timeout_q_insert
    <3> DEFINE h == Head(requests)
               k == PlaceOf(TIMEOUT_Q, Deadline(h), time_delay)
    <3>1. \/ TIMEOUT_Q' = TIMEOUT_Q
          \/ /\ ~ RunsOffTheEnd(TIMEOUT_Q, Deadline(h), time_delay)
             /\ TIMEOUT_Q' = InsertedAt(TIMEOUT_Q, k, h)
      BY <2>3 DEF timeout_q_insert
    <3>2. h \in Envelopes /\ h \in Range(requests)
      BY <2>0, <2>3, Dequeued DEF TypeOK, timeout_q_insert
    <3>3. Deadline(h) \in Nat
      BY <2>0, <3>2, SMTT(30) DEF TypeOK, Deadline, TicksPerSecond
    <3>4. CASE TIMEOUT_Q' = TIMEOUT_Q BY <3>4
    <3>5. CASE /\ ~ RunsOffTheEnd(TIMEOUT_Q, Deadline(h), time_delay)
               /\ TIMEOUT_Q' = InsertedAt(TIMEOUT_Q, k, h)
      <4>1. InOrder(TIMEOUT_Q, time_delay) BY <2>0 DEF Sorted, InOrder
      <4>2. k \in 1 .. Len(TIMEOUT_Q) + 1
        BY <2>0, <3>3, <3>5, <4>1, PlaceIsRight DEF TypeOK
      <4> HIDE DEF h, k
      <4>3. Range(TIMEOUT_Q') = Range(TIMEOUT_Q) \cup {h}
        BY <2>0, <3>2, <3>5, <4>2, InsertedAtProperties DEF TypeOK
      <4> QED BY <4>3
    <3> QED BY <3>1, <3>4, <3>5
  <2>4. CASE check_timeout_q
    <3>1. IsDue /\ TIMEOUT_Q' = Tail(TIMEOUT_Q) BY <2>4 DEF check_timeout_q
    <3>2. e = Head(TIMEOUT_Q)
      BY <2>0, <3>1, Dequeued DEF TypeOK, IsDue
    <3>3. time_delay[e] <= NUM_OF_TICKS BY <3>1, <3>2 DEF IsDue
    <3>4. time_delay[e] >= asked[e].at + asked[e].delay * TicksPerSecond
      BY <2>0 DEF DeadlinesKept
    <3>5. /\ time_delay[e] \in Nat /\ NUM_OF_TICKS \in Nat
          /\ asked[e].at \in Nat /\ asked[e].delay \in Nat
      BY <2>0 DEF TypeOK
    <3> QED BY <3>3, <3>4, <3>5 DEF TicksPerSecond
  <2>5. CASE UNCHANGED vars BY <2>5 DEF vars
  <2> QED BY <2>1, <2>2, <2>3, <2>4, <2>5 DEF Next
<1>2. TimerInv /\ [Next]_vars => [OnTime]_vars BY <1>1
<1>3. Spec => [][OnTime]_vars BY <1>2, TimerInvariance, PTL DEF Spec
<1> QED BY <1>3 DEF NotEarly

-----------------------------------------------------------------------------
(* How late a delay may end. *)

(* When the delay asked for is over. *)
Base(e) == asked[e].at + asked[e].delay * TicksPerSecond

(* A request waits for one tick at most.  Of the envelopes that are due, the one in place i
   has i ticks left before its last; between the tick and the return of the head, one more. *)
Punctual ==
  \A i \in 1 .. Len(TIMEOUT_Q) :
    LET e == TIMEOUT_Q[i]
    IN  IF inHandler
        THEN time_delay[e] < NUM_OF_TICKS  => NUM_OF_TICKS + i <= Base(e) + Cardinality(Envelopes) + 1
        ELSE time_delay[e] <= NUM_OF_TICKS => NUM_OF_TICKS + i <= Base(e) + Cardinality(Envelopes)

DeadlinesClose ==
  /\ \A e \in Range(requests) : NUM_OF_TICKS <= asked[e].at + IF inHandler THEN 1 ELSE 0
  /\ \A e \in Range(TIMEOUT_Q) : time_delay[e] <= Base(e) + 1

PunctualInv == Punctual /\ DeadlinesClose

LEMMA TimerFacts ==
  ASSUME TimerInv
  PROVE  /\ \A e \in Envelopes : Base(e) \in Nat /\ time_delay[e] \in Nat /\ asked[e].at \in Nat
         /\ NUM_OF_TICKS \in Nat /\ Cardinality(Envelopes) \in Nat
         /\ TIMEOUT_Q \in Seq(Envelopes) /\ IsInjective(TIMEOUT_Q) /\ requests \in Seq(Envelopes)
         /\ Range(requests) \subseteq Envelopes /\ Range(TIMEOUT_Q) \subseteq Envelopes
         /\ \A i \in 1 .. Len(TIMEOUT_Q) : TIMEOUT_Q[i] \in Envelopes /\ TIMEOUT_Q[i] \in Range(TIMEOUT_Q)
         /\ Len(TIMEOUT_Q) \in Nat /\ Len(TIMEOUT_Q) <= Cardinality(Envelopes)
         /\ inHandler \in BOOLEAN
<1>1. TypeOK
  BY DEF TimerInv
<1>2. \A e \in Envelopes : asked[e].at \in Nat /\ asked[e].delay \in Nat /\ time_delay[e] \in Nat
  BY <1>1 DEF TypeOK
<1>3. \A e \in Envelopes : Base(e) \in Nat
  BY <1>2 DEF Base, TicksPerSecond
<1>4. TIMEOUT_Q \in Seq(Envelopes) /\ IsInjective(TIMEOUT_Q) /\ requests \in Seq(Envelopes)
  BY <1>1 DEF TypeOK
<1> QED
  BY <1>1, <1>2, <1>3, <1>4, Members, InjectiveFits, FS_CardinalityType, TimerConstants DEF TypeOK

LEMMA InitPunctual == Init => PunctualInv
<1> SUFFICES ASSUME Init PROVE PunctualInv
  OBVIOUS
<1>1. requests = <<>> /\ TIMEOUT_Q = <<>>
  BY DEF Init
<1>2. Range(requests) = {} /\ Range(TIMEOUT_Q) = {} /\ Len(TIMEOUT_Q) = 0
  BY <1>1, EmptyQueue
<1> QED
  BY <1>2 DEF PunctualInv, Punctual, DeadlinesClose

LEMMA RequestPunctual ==
  ASSUME TimerInv, PunctualInv, NEW e \in Envelopes, NEW delay \in Delays, RequestDelay(e, delay)
  PROVE  PunctualInv'
<1>1. /\ e \notin Range(requests) /\ e \notin Range(TIMEOUT_Q) /\ ~ inHandler /\ inHandler' = inHandler
      /\ NUM_OF_TICKS' = NUM_OF_TICKS /\ TIMEOUT_Q' = TIMEOUT_Q /\ requests' = Append(requests, e)
  BY DEF RequestDelay, Timed
<1>2. \A x \in Envelopes : x # e => time_delay'[x] = time_delay[x] /\ asked'[x] = asked[x]
  BY DEF RequestDelay, TimerInv, TypeOK
<1>3. asked'[e].at = NUM_OF_TICKS
  BY DEF RequestDelay, TimerInv, TypeOK
<1>4. \A x \in Envelopes : x # e => Base(x)' = Base(x)
  BY <1>2 DEF Base
<1>5. Range(requests') = Range(requests) \cup {e}
  BY <1>1, TimerFacts, Enqueued
<1>6. Punctual'
  <2>1. \A i \in 1 .. Len(TIMEOUT_Q) : TIMEOUT_Q[i] \in Envelopes /\ TIMEOUT_Q[i] # e
    BY <1>1, TimerFacts
  <2> QED
    BY <1>1, <1>2, <1>4, <2>1 DEF Punctual, PunctualInv
<1>7. DeadlinesClose'
  <2>1. \A x \in Range(requests') : NUM_OF_TICKS' <= asked'[x].at + IF inHandler' THEN 1 ELSE 0
    <3> TAKE x \in Range(requests')
    <3>1. CASE x = e
      BY <1>1, <1>3, <3>1, TimerFacts
    <3>2. CASE x # e
      <4>1. x \in Range(requests) /\ x \in Envelopes
        BY <1>5, <3>2, TimerFacts
      <4> QED
        BY <1>1, <1>2, <3>2, <4>1 DEF PunctualInv, DeadlinesClose
    <3> QED
      BY <3>1, <3>2
  <2>2. \A x \in Range(TIMEOUT_Q') : time_delay'[x] <= Base(x)' + 1
    BY <1>1, <1>2, <1>4, TimerFacts DEF PunctualInv, DeadlinesClose
  <2> QED
    BY <2>1, <2>2 DEF DeadlinesClose
<1> QED
  BY <1>6, <1>7 DEF PunctualInv

(* The tick takes one from everyone. *)
LEMMA TickPunctual ==
  ASSUME TimerInv, PunctualInv, timer_i_proc
  PROVE  PunctualInv'
<1>1. /\ ~ inHandler /\ inHandler' /\ UNCHANGED <<requests, TIMEOUT_Q, time_delay, asked>>
      /\ NUM_OF_TICKS' \in {NUM_OF_TICKS, NUM_OF_TICKS + 1}
  BY DEF timer_i_proc, clock_inc_time
<1>2. \A e : Base(e)' = Base(e)
  BY <1>1 DEF Base
<1>3. Punctual'
  <2> SUFFICES ASSUME NEW i \in 1 .. Len(TIMEOUT_Q), time_delay[TIMEOUT_Q[i]] < NUM_OF_TICKS'
               PROVE  NUM_OF_TICKS' + i <= Base(TIMEOUT_Q[i]) + Cardinality(Envelopes) + 1
    BY <1>1, <1>2 DEF Punctual
  <2>1. /\ TIMEOUT_Q[i] \in Envelopes /\ time_delay[TIMEOUT_Q[i]] \in Nat /\ Base(TIMEOUT_Q[i]) \in Nat
        /\ NUM_OF_TICKS \in Nat /\ Cardinality(Envelopes) \in Nat
    BY TimerFacts
  <2>2. time_delay[TIMEOUT_Q[i]] <= NUM_OF_TICKS
    BY <1>1, <2>1
  <2>3. NUM_OF_TICKS + i <= Base(TIMEOUT_Q[i]) + Cardinality(Envelopes)
    BY <1>1, <2>2 DEF PunctualInv, Punctual
  <2> QED
    BY <1>1, <2>1, <2>3
<1>4. DeadlinesClose'
  <2>1. \A e \in Range(requests) : NUM_OF_TICKS' <= asked[e].at + 1
    <3> TAKE e \in Range(requests)
    <3>1. NUM_OF_TICKS <= asked[e].at + 0 /\ asked[e].at \in Nat /\ NUM_OF_TICKS \in Nat
      BY <1>1, TimerFacts DEF PunctualInv, DeadlinesClose
    <3> QED
      BY <1>1, <3>1
  <2> QED
    BY <1>1, <1>2, <2>1 DEF PunctualInv, DeadlinesClose
<1> QED
  BY <1>3, <1>4 DEF PunctualInv

(* A new deadline is not over, so the envelope goes behind those whose deadline is. *)
LEMMA InsertPunctual ==
  ASSUME TimerInv, PunctualInv, timeout_q_insert
  PROVE  PunctualInv'
<1> DEFINE e == Head(requests)
           q == TIMEOUT_Q
           d == Deadline(e)
           k == PlaceOf(q, d, time_delay)
<1>1. TypeOK /\ Sorted /\ requests # <<>> /\ inHandler /\ Punctual /\ DeadlinesClose
  BY DEF TimerInv, PunctualInv, timeout_q_insert
<1>2. /\ e \in Envelopes /\ e \in Range(requests) /\ e \notin Range(q)
      /\ Range(Tail(requests)) \subseteq Range(requests) \ {e}
  BY <1>1, Dequeued DEF TypeOK
<1>3. /\ NUM_OF_TICKS' = NUM_OF_TICKS /\ inHandler' = inHandler /\ asked' = asked
      /\ time_delay' = [time_delay EXCEPT ![e] = d] /\ requests' = Tail(requests)
      /\ IF RunsOffTheEnd(q, d, time_delay) THEN TIMEOUT_Q' = q
         ELSE TIMEOUT_Q' = InsertedAt(q, k, e)
  BY DEF timeout_q_insert, Unread
<1>4. d \in Nat /\ NUM_OF_TICKS <= d /\ d <= Base(e) + 1
  <2>1. /\ time_delay[e] = asked[e].delay /\ time_delay[e] \in Nat /\ asked[e].at \in Nat
        /\ NUM_OF_TICKS \in Nat /\ NUM_OF_TICKS <= asked[e].at + 1
    BY <1>1, <1>2, TimerFacts DEF TimerInv, DeadlinesKept, DeadlinesClose
  <2> QED
    BY <2>1 DEF Deadline, Base, TicksPerSecond
<1>5. \A x : Base(x)' = Base(x)
  BY <1>3 DEF Base
<1>6. /\ time_delay'[e] = d
      /\ \A x \in Envelopes : x # e => time_delay'[x] = time_delay[x]
  BY <1>1, <1>2, <1>3 DEF TypeOK
<1>7. \A x \in Range(q) \cup {e} : time_delay'[x] <= Base(x)' + 1
  BY <1>1, <1>2, <1>4, <1>5, <1>6, TimerFacts DEF DeadlinesClose
<1>8. \A x \in Range(requests') : NUM_OF_TICKS' <= asked'[x].at + IF inHandler' THEN 1 ELSE 0
  BY <1>1, <1>2, <1>3 DEF DeadlinesClose
<1>9. ASSUME NEW i \in 1 .. Len(q), time_delay'[q[i]] < NUM_OF_TICKS
      PROVE  /\ NUM_OF_TICKS + i <= Base(q[i]) + Cardinality(Envelopes) + 1
             /\ time_delay[q[i]] < NUM_OF_TICKS
  <2>1. q[i] \in Envelopes /\ q[i] # e
    BY <1>2, TimerFacts
  <2> QED
    BY <1>1, <1>6, <1>9, <2>1 DEF Punctual
<1> HIDE DEF e, d, k
<1>10. CASE RunsOffTheEnd(q, d, time_delay)
  <2>1. TIMEOUT_Q' = q
    BY <1>3, <1>10
  <2>2. Punctual'
    BY <1>1, <1>3, <1>5, <1>9, <2>1 DEF Punctual
  <2>3. DeadlinesClose'
    BY <1>7, <1>8, <2>1 DEF DeadlinesClose
  <2> QED
    BY <2>2, <2>3 DEF PunctualInv
<1>11. CASE ~ RunsOffTheEnd(q, d, time_delay)
  <2>1. TIMEOUT_Q' = InsertedAt(q, k, e) /\ time_delay \in [Envelopes -> Nat]
    BY <1>1, <1>3, <1>11 DEF TypeOK
  <2>2. /\ k \in 1 .. Len(q) + 1
        /\ \A i \in k .. Len(q) : d <= time_delay[q[i]]
    <3>1. InOrder(q, time_delay)
      BY <1>1 DEF Sorted, InOrder
    <3> QED
      BY <1>4, <1>11, <2>1, <3>1, PlaceIsRight, TimerFacts DEF k
  <2> DEFINE s == InsertedAt(q, k, e)
  <2>3. /\ Len(s) = Len(q) + 1 /\ Range(s) = Range(q) \cup {e}
        /\ \A i \in 1 .. Len(q) + 1 : s[i] = IF i < k THEN q[i] ELSE IF i = k THEN e ELSE q[i - 1]
    BY <1>2, <2>2, InsertedAtProperties, TimerFacts
  <2> HIDE DEF s
  <2>4. Punctual'
    <3> SUFFICES ASSUME NEW i \in 1 .. Len(q) + 1, time_delay'[s[i]] < NUM_OF_TICKS
                 PROVE  NUM_OF_TICKS + i <= Base(s[i]) + Cardinality(Envelopes) + 1
      BY <1>1, <1>3, <1>5, <2>1, <2>3 DEF Punctual, s
    <3>1. i # k
      <4>1. NUM_OF_TICKS \in Nat
        BY TimerFacts
      <4> QED
        BY <1>4, <1>6, <2>3, <4>1
    <3>2. ~ (i > k)
      <4> SUFFICES ASSUME i > k PROVE FALSE
        OBVIOUS
      <4>1. i - 1 \in k .. Len(q) /\ i - 1 \in 1 .. Len(q) /\ s[i] = q[i - 1]
        BY <2>2, <2>3, TimerFacts
      <4>2. time_delay[q[i - 1]] < NUM_OF_TICKS /\ d <= time_delay[q[i - 1]]
        BY <1>9, <2>2, <4>1
      <4>3. NUM_OF_TICKS \in Nat /\ time_delay[q[i - 1]] \in Nat
        BY <4>1, TimerFacts
      <4> QED
        BY <1>4, <4>2, <4>3
    <3>3. i \in 1 .. Len(q) /\ s[i] = q[i]
      BY <2>2, <2>3, <3>1, <3>2, TimerFacts
    <3> QED
      BY <1>9, <3>3
  <2>5. DeadlinesClose'
    BY <1>7, <1>8, <2>1, <2>3 DEF DeadlinesClose, s
  <2> QED
    BY <2>4, <2>5 DEF PunctualInv
<1> QED
  BY <1>10, <1>11

(* The head goes, if anyone is due at all, and everyone moves up. *)
LEMMA CheckPunctual ==
  ASSUME TimerInv, PunctualInv, check_timeout_q
  PROVE  PunctualInv'
<1> DEFINE q == TIMEOUT_Q
<1>1. TypeOK /\ Sorted /\ requests = <<>> /\ inHandler /\ Punctual /\ DeadlinesClose
  BY DEF TimerInv, PunctualInv, check_timeout_q
<1>2. /\ NUM_OF_TICKS' = NUM_OF_TICKS /\ requests' = requests /\ time_delay' = time_delay
      /\ ~ inHandler' /\ TIMEOUT_Q' = IF IsDue THEN Tail(q) ELSE q
      /\ asked' = [x \in Envelopes |-> IF IsDue /\ x = Head(q) THEN NotAsked ELSE asked[x]]
  BY DEF check_timeout_q
<1>3. \A x \in Envelopes : ~ (IsDue /\ x = Head(q)) => Base(x)' = Base(x)
  BY <1>2 DEF Base
<1>4. Range(requests') = {}
  BY <1>1, <1>2, EmptyQueue
<1>5. CASE ~ IsDue
  <2>1. TIMEOUT_Q' = q
    BY <1>2, <1>5
  <2>2. \A i \in 1 .. Len(q) : ~ (time_delay[q[i]] <= NUM_OF_TICKS)
    <3> TAKE i \in 1 .. Len(q)
    <3>1. q # <<>> /\ Head(q) = q[1] /\ 1 \in 1 .. Len(q)
      BY TimerFacts, EmptySeq
    <3>2. ~ (time_delay[q[1]] <= NUM_OF_TICKS)
      BY <1>5, <3>1 DEF IsDue
    <3>3. i = 1 \/ time_delay[q[1]] <= time_delay[q[i]]
      BY <1>1, <3>1 DEF Sorted
    <3>4. time_delay[q[1]] \in Nat /\ time_delay[q[i]] \in Nat /\ NUM_OF_TICKS \in Nat
      BY <3>1, TimerFacts
    <3> QED
      BY <3>2, <3>3, <3>4
  <2>3. Punctual'
    BY <1>2, <2>1, <2>2 DEF Punctual
  <2>4. DeadlinesClose'
    BY <1>1, <1>2, <1>3, <1>4, <1>5, <2>1, TimerFacts DEF DeadlinesClose
  <2> QED
    BY <2>3, <2>4 DEF PunctualInv
<1>6. CASE IsDue
  <2>1. q # <<>> /\ TIMEOUT_Q' = Tail(q)
    BY <1>2, <1>6 DEF IsDue
  <2>2. /\ Range(Tail(q)) = Range(q) \ {Head(q)} /\ Tail(q) \in Seq(Envelopes)
        /\ Head(q) = q[1] /\ Len(Tail(q)) = Len(q) - 1
        /\ \A i \in 1 .. Len(q) - 1 : Tail(q)[i] = q[i + 1] /\ i + 1 \in 1 .. Len(q)
    BY <2>1, TimerFacts, Dequeued, TailEntries
  <2>3. Punctual'
    <3> SUFFICES ASSUME NEW i \in 1 .. Len(q) - 1, NEW e, e = q[i + 1], time_delay[e] <= NUM_OF_TICKS
                 PROVE  NUM_OF_TICKS + i <= Base(e)' + Cardinality(Envelopes)
      BY <1>2, <2>1, <2>2 DEF Punctual
    <3>1. e \in Range(q) /\ e \in Envelopes /\ i + 1 \in 1 .. Len(q) /\ e # Head(q)
      <4>1. i + 1 \in 1 .. Len(q) /\ 1 \in 1 .. Len(q) /\ i + 1 # 1
        BY <2>2, TimerFacts
      <4>2. e \in Range(q) /\ e \in Envelopes /\ IsInjective(q) /\ q \in Seq(Envelopes)
        BY <4>1, TimerFacts
      <4>3. e # q[1]
        BY <4>1, <4>2 DEF IsInjective
      <4> QED
        BY <2>2, <4>1, <4>2, <4>3
    <3>2. Base(e)' = Base(e)
      BY <1>3, <3>1
    <3>3. /\ time_delay[e] <= Base(e) + 1
          /\ time_delay[e] < NUM_OF_TICKS =>
               NUM_OF_TICKS + (i + 1) <= Base(e) + Cardinality(Envelopes) + 1
      BY <1>1, <3>1 DEF Punctual, DeadlinesClose
    <3>4. /\ time_delay[e] \in Nat /\ Base(e) \in Nat /\ NUM_OF_TICKS \in Nat
          /\ Cardinality(Envelopes) \in Nat /\ Len(q) \in Nat /\ Len(q) <= Cardinality(Envelopes)
      BY <3>1, TimerFacts
    <3> QED
      BY <3>2, <3>3, <3>4
  <2>4. DeadlinesClose'
    BY <1>1, <1>2, <1>3, <1>4, <2>1, <2>2, TimerFacts DEF DeadlinesClose
  <2> QED
    BY <2>3, <2>4 DEF PunctualInv
<1> QED
  BY <1>5, <1>6

(* No delay ends much too late: while an envelope waits in TIMEOUT_Q, not more ticks have
   passed since its delay was over than there are envelopes that could have gone before it,
   and one for the request (check_timeout_q returns one envelope a tick). *)
THEOREM NoDelayEndsLate == Spec => []NeverLate
<1>1. TimerInv /\ TimerInv' /\ PunctualInv /\ [Next]_vars => PunctualInv'
  <2> SUFFICES ASSUME TimerInv, PunctualInv, [Next]_vars PROVE PunctualInv'
    OBVIOUS
  <2>1. ASSUME NEW e \in Envelopes, NEW delay \in Delays, RequestDelay(e, delay) PROVE PunctualInv'
    BY <2>1, RequestPunctual
  <2>2. CASE timer_i_proc
    BY <2>2, TickPunctual
  <2>3. CASE timeout_q_insert
    BY <2>3, InsertPunctual
  <2>4. CASE check_timeout_q
    BY <2>4, CheckPunctual
  <2>5. CASE UNCHANGED vars
    BY <2>5 DEF vars, PunctualInv, Punctual, DeadlinesClose, Base
  <2> QED
    BY <2>1, <2>2, <2>3, <2>4, <2>5 DEF Next
<1>2. TimerInv /\ PunctualInv => NeverLate
  <2> SUFFICES ASSUME TimerInv, PunctualInv, ~ inHandler, NEW i \in 1 .. Len(TIMEOUT_Q)
               PROVE  NUM_OF_TICKS + i <= Base(TIMEOUT_Q[i]) + Cardinality(Envelopes)
    BY DEF NeverLate, Base
  <2> DEFINE e == TIMEOUT_Q[i]
  <2>1. /\ e \in Range(TIMEOUT_Q) /\ Base(e) \in Nat /\ time_delay[e] \in Nat /\ NUM_OF_TICKS \in Nat
        /\ Cardinality(Envelopes) \in Nat /\ Len(TIMEOUT_Q) \in Nat /\ Len(TIMEOUT_Q) <= Cardinality(Envelopes)
    BY TimerFacts
  <2>2. time_delay[e] <= Base(e) + 1
    BY <2>1 DEF PunctualInv, DeadlinesClose
  <2>3. time_delay[e] <= NUM_OF_TICKS => NUM_OF_TICKS + i <= Base(e) + Cardinality(Envelopes)
    BY DEF PunctualInv, Punctual
  <2> HIDE DEF e
  <2>4. NUM_OF_TICKS + i <= Base(e) + Cardinality(Envelopes)
    BY <2>1, <2>2, <2>3
  <2> QED
    BY <2>4 DEF e
<1> QED
  BY <1>1, <1>2, InitPunctual, TimerInvariance, PTL DEF Spec
=============================================================================
