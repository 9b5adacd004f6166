---------------------------- MODULE KernelProofs ----------------------------
(***************************************************************************)
(* Proofs about Kernel, for any number of clients, priorities and          *)
(* envelopes.                                                              *)
(***************************************************************************)
EXTENDS Kernel, QueueLemmas, FiniteSetTheorems, TLAPS

(* The null process waits for nothing, so there is always a process to switch to; an
   i-process is never scheduled, so nothing ever tries to wake it. *)
ProcessRoles ==
  /\ state[NullProc] \in {"READY", "EXECUTING"}
  /\ \A p \in IProcs : state[p] = "NO_STATE"

(* The inductive invariant. *)
KernelInv ==
  /\ TypeOK
  /\ ProcessRoles
  /\ SchedulerConsistent
  /\ EnvelopesConserved
  /\ ServiceRequestsValid
  /\ NoLostWakeup

(* A dispatch to a process that no ready process outranks. *)
Dispatched == \A p \in UserProcs : state'[p] = "READY" => Priority[current'] <= Priority[p]

-----------------------------------------------------------------------------
(* Process queues. *)

(* A process on no queue joins the one its new state calls for. *)
LEMMA Joins ==
  ASSUME NEW pq \in [ProcQueues -> Seq(UserProcs)], NEW st \in [Procs -> ProcessState],
         QueuesMatch(pq, st),
         NEW p \in UserProcs, st[p] \notin {"READY", "BLOCKED_ON_ENV_REQUEST"},
         NEW q \in ProcQueues, NEW s \in ProcessState, BelongsOn(s, p, q)
  PROVE  /\ proc_q_enqueue(pq, q, p) \in [ProcQueues -> Seq(UserProcs)]
         /\ QueuesMatch(proc_q_enqueue(pq, q, p), [st EXCEPT ![p] = s])
<1> DEFINE pq2 == proc_q_enqueue(pq, q, p)
           st2 == [st EXCEPT ![p] = s]
<1>1. /\ pq2 \in [ProcQueues -> Seq(UserProcs)]
      /\ pq2[q] = Append(pq[q], p)
      /\ \A r \in ProcQueues \ {q} : pq2[r] = pq[r]
  BY Enqueued DEF proc_q_enqueue
<1>2. p \in Procs /\ UserProcs \subseteq Procs
  BY DEF Procs
<1>3. \A r \in ProcQueues : BelongsOn(s, p, r) <=> r = q
  BY PrioritiesValid DEF BelongsOn, BLOCKED_QUEUE, ProcQueues, Priorities
<1>4. \A r \in ProcQueues : p \notin Range(pq[r])
  BY DEF QueuesMatch, BelongsOn
<1>5. ASSUME NEW r \in ProcQueues
      PROVE  /\ IsInjective(pq2[r])
             /\ \A x \in UserProcs : x \in Range(pq2[r]) <=> BelongsOn(st2[x], x, r)
  <2>1. /\ IsInjective(pq[r])
        /\ \A x \in UserProcs : x \in Range(pq[r]) <=> BelongsOn(st[x], x, r)
    BY DEF QueuesMatch
  <2>2. st2[p] = s /\ \A x \in UserProcs \ {p} : st2[x] = st[x]
    BY <1>2
  <2>3. CASE r = q
    <3>1. pq[r] \in Seq(UserProcs) /\ IsInjective(pq[r]) /\ p \notin Range(pq[r])
      BY <1>4, <2>1
    <3>2. /\ IsInjective(Append(pq[r], p))
          /\ Range(Append(pq[r], p)) = Range(pq[r]) \cup {p}
      BY <3>1, Enqueued
    <3> QED BY <3>2, <1>1, <2>1, <2>2, <2>3
  <2>4. CASE r # q
    <3>1. pq2[r] = pq[r]
      BY <1>1, <2>4
    <3> QED BY <3>1, <1>3, <1>4, <2>1, <2>2, <2>4
  <2> QED BY <2>3, <2>4
<1> QED BY <1>1, <1>5 DEF QueuesMatch

(* The first process of a queue leaves it for a state that calls for none. *)
LEMMA Leaves ==
  ASSUME NEW pq \in [ProcQueues -> Seq(UserProcs)], NEW st \in [Procs -> ProcessState],
         QueuesMatch(pq, st),
         NEW q \in ProcQueues, pq[q] # <<>>,
         NEW s \in ProcessState, s \notin {"READY", "BLOCKED_ON_ENV_REQUEST"}
  PROVE  /\ Head(pq[q]) \in UserProcs
         /\ BelongsOn(st[Head(pq[q])], Head(pq[q]), q)
         /\ proc_q_dequeue(pq, q) \in [ProcQueues -> Seq(UserProcs)]
         /\ QueuesMatch(proc_q_dequeue(pq, q), [st EXCEPT ![Head(pq[q])] = s])
<1> DEFINE p == Head(pq[q])
           pq2 == proc_q_dequeue(pq, q)
           st2 == [st EXCEPT ![p] = s]
<1>1. /\ p \in UserProcs /\ p \in Range(pq[q])
      /\ Tail(pq[q]) \in Seq(UserProcs)
      /\ IsInjective(Tail(pq[q])) /\ Range(Tail(pq[q])) = Range(pq[q]) \ {p}
  BY Dequeued DEF QueuesMatch
<1>2. BelongsOn(st[p], p, q)
  BY <1>1 DEF QueuesMatch
<1>3. /\ pq2 \in [ProcQueues -> Seq(UserProcs)]
      /\ pq2[q] = Tail(pq[q])
      /\ \A r \in ProcQueues \ {q} : pq2[r] = pq[r]
  BY <1>1 DEF proc_q_dequeue
<1>4. \A r \in ProcQueues : BelongsOn(st[p], p, r) => r = q
  BY <1>1, <1>2, PrioritiesValid DEF BelongsOn, BLOCKED_QUEUE, ProcQueues, Priorities
<1>5. p \in Procs /\ UserProcs \subseteq Procs
  BY <1>1 DEF Procs
<1> HIDE DEF p
<1>6. ASSUME NEW r \in ProcQueues
      PROVE  /\ IsInjective(pq2[r])
             /\ \A x \in UserProcs : x \in Range(pq2[r]) <=> BelongsOn(st2[x], x, r)
  <2>1. /\ IsInjective(pq[r])
        /\ \A x \in UserProcs : x \in Range(pq[r]) <=> BelongsOn(st[x], x, r)
    BY DEF QueuesMatch
  <2>2. st2[p] = s /\ \A x \in UserProcs \ {p} : st2[x] = st[x]
    BY <1>5
  <2>3. ~ BelongsOn(st2[p], p, r)
    BY <2>2 DEF BelongsOn
  <2>4. CASE r = q
    BY <1>1, <1>3, <2>1, <2>2, <2>3, <2>4
  <2>5. CASE r # q
    <3>1. pq2[r] = pq[r] /\ p \notin Range(pq[r])
      BY <1>1, <1>3, <1>4, <2>1, <2>5
    <3> QED BY <3>1, <2>1, <2>2, <2>3
  <2> QED BY <2>4, <2>5
<1> QED BY <1>1, <1>2, <1>3, <1>6 DEF QueuesMatch, p

(* A null process that is not running is ready, on the last ready queue. *)
LEMMA SomeoneReady ==
  ASSUME ProcessRoles, SchedulerConsistent, TypeOK, current \in Clients
  PROVE  procQ[NUM_PRIORITY_LEVEL - 1] # <<>> /\ NUM_PRIORITY_LEVEL - 1 \in Priorities
<1>1. NullProc \in UserProcs /\ NullProc # current
  BY PidsDistinct DEF UserProcs
<1>2. state[NullProc] = "READY"
  BY <1>1 DEF ProcessRoles, SchedulerConsistent
<1>3. NUM_PRIORITY_LEVEL - 1 \in Priorities /\ NUM_PRIORITY_LEVEL - 1 \in ProcQueues
  BY PrioritiesValid DEF Priorities, ProcQueues
<1>4. NullProc \in Range(procQ[NUM_PRIORITY_LEVEL - 1])
  BY <1>1, <1>2, <1>3, PrioritiesValid DEF SchedulerConsistent, QueuesMatch, BelongsOn
<1> QED BY <1>3, <1>4, EmptyQueue

(* A switch from queues that already show where the running process goes. *)
LEMMA Switch ==
  ASSUME TypeOK, ProcessRoles,
         \A p \in UserProcs : state[p] = "EXECUTING" <=> p = current,
         NEW pq \in [ProcQueues -> Seq(UserProcs)],
         NEW ns \in {"READY", "BLOCKED_ON_ENV_REQUEST", "BLOCKED_ON_RCV"},
         current \in Clients \/ ns = "READY",
         QueuesMatch(pq, [state EXCEPT ![current] = ns]),
         \E pri \in Priorities : pq[pri] # <<>>,
         k_process_switch(pq, ns)
  PROVE  /\ procQ' \in [ProcQueues -> Seq(UserProcs)]
         /\ state' \in [Procs -> ProcessState]
         /\ current' \in UserProcs
         /\ SchedulerConsistent'
         /\ ProcessRoles'
         /\ \A p \in UserProcs : state'[p] = "BLOCKED_ON_RCV" =>
              state[p] = "BLOCKED_ON_RCV" \/ (p = current /\ ns = "BLOCKED_ON_RCV")
         /\ \A p \in UserProcs : state'[p] = "READY" => Priority[current'] <= Priority[p]
<1> DEFINE st == [state EXCEPT ![current] = ns]
<1>1. PICK pri \in Priorities :
        /\ IsFirstReady(pq, pri)
        /\ procQ' = proc_q_dequeue(pq, pri)
        /\ current' = Head(pq[pri])
        /\ state' = [state EXCEPT ![current] = ns, ![Head(pq[pri])] = "EXECUTING"]
  BY DEF k_process_switch
<1>2. /\ UserProcs \subseteq Procs /\ IProcs \subseteq Procs /\ IProcs \cap UserProcs = {}
      /\ NullProc \in UserProcs /\ NullProc \notin Clients
      /\ state \in [Procs -> ProcessState] /\ current \in UserProcs
  BY PidsDistinct DEF TypeOK, UserProcs, Procs
<1>3. /\ st \in [Procs -> ProcessState]
      /\ pri \in ProcQueues /\ pri # BLOCKED_QUEUE
      /\ pq[pri] # <<>>
      /\ QueuesMatch(pq, st)
  <2>1. ns \in ProcessState
    BY DEF ProcessState
  <2>2. st \in [Procs -> ProcessState]
    BY <1>2, <2>1
  <2>3. pri \in ProcQueues /\ pri # BLOCKED_QUEUE
    BY PrioritiesValid DEF Priorities, ProcQueues, BLOCKED_QUEUE
  <2> QED BY <1>1, <2>2, <2>3 DEF IsFirstReady
<1>4. state' = [st EXCEPT ![current'] = "EXECUTING"]
  BY <1>1
<1>5. /\ current' \in UserProcs
      /\ BelongsOn(st[current'], current', pri)
      /\ procQ' \in [ProcQueues -> Seq(UserProcs)]
      /\ QueuesMatch(procQ', [st EXCEPT ![current'] = "EXECUTING"])
  <2> DEFINE h == Head(pq[pri])
  <2> HIDE DEF st
  <2>1. "EXECUTING" \in ProcessState
    BY DEF ProcessState
  <2>2. /\ h \in UserProcs
        /\ BelongsOn(st[h], h, pri)
        /\ proc_q_dequeue(pq, pri) \in [ProcQueues -> Seq(UserProcs)]
        /\ QueuesMatch(proc_q_dequeue(pq, pri), [st EXCEPT ![h] = "EXECUTING"])
    BY <2>1, <1>3, Leaves
  <2> QED BY <2>2, <1>1
<1>6. QueuesMatch(procQ', state')
  BY <1>4, <1>5
<1>7. st[current'] = "READY"
  BY <1>3, <1>5 DEF BelongsOn
<1> HIDE DEF st
<1>8. /\ state' \in [Procs -> ProcessState]
      /\ \A p \in Procs : state'[p] = IF p = current' THEN "EXECUTING" ELSE st[p]
      /\ \A p \in Procs : st[p] = IF p = current THEN ns ELSE state[p]
  BY <1>2, <1>3, <1>4, <1>5 DEF st, ProcessState
<1>9. \A p \in UserProcs : state'[p] = "EXECUTING" <=> p = current'
  BY <1>2, <1>8
<1>10. ProcessRoles'
  BY <1>2, <1>5, <1>8 DEF ProcessRoles
<1>11. \A p \in UserProcs : state'[p] = "BLOCKED_ON_RCV" =>
         state[p] = "BLOCKED_ON_RCV" \/ (p = current /\ ns = "BLOCKED_ON_RCV")
  BY <1>2, <1>8
<1>12. \A p \in UserProcs : state'[p] = "READY" => Priority[current'] <= Priority[p]
  <2>1. SUFFICES ASSUME NEW p \in UserProcs, state'[p] = "READY", Priority[p] < pri
                 PROVE  FALSE
    <3>1. Priority[current'] = pri /\ pri \in Int /\ \A p \in UserProcs : Priority[p] \in Int
      BY <1>3, <1>5, PrioritiesValid DEF BelongsOn, Priorities
    <3> QED BY <3>1
  <2>2. Priority[p] \in Priorities /\ Priority[p] \in ProcQueues /\ Priority[p] # pri
    BY <2>1, PrioritiesValid DEF Priorities, ProcQueues
  <2>3. p \in Range(procQ'[Priority[p]])
    BY <1>6, <2>1, <2>2 DEF QueuesMatch, BelongsOn
  <2>4. procQ'[Priority[p]] = pq[Priority[p]] /\ pq[Priority[p]] = <<>>
    BY <1>1, <2>1, <2>2 DEF proc_q_dequeue, IsFirstReady
  <2> QED BY <2>3, <2>4, EmptyQueue
<1> QED BY <1>5, <1>6, <1>8, <1>9, <1>10, <1>11, <1>12 DEF SchedulerConsistent

(* A message sent leaves the scheduler consistent and its receiver awake. *)
LEMMA Send ==
  ASSUME TypeOK, ProcessRoles, SchedulerConsistent,
         NEW eq \in [EnvQueues -> Seq(Envelopes)],
         NEW from \in Procs, NEW dest, NEW e \in Envelopes,
         k_send_message(eq, from, dest, e), current' = current
  PROVE  /\ envQ' \in [EnvQueues -> Seq(Envelopes)]
         /\ sender_pid' \in [Envelopes -> Procs \cup {NoPid}]
         /\ procQ' \in [ProcQueues -> Seq(UserProcs)]
         /\ state' \in [Procs -> ProcessState]
         /\ SchedulerConsistent'
         /\ ProcessRoles'
         /\ (\A p \in UserProcs : state[p] = "BLOCKED_ON_RCV" => eq[p] = <<>>) => NoLostWakeup'
<1>1. /\ UserProcs \subseteq Procs /\ IProcs \subseteq Procs /\ IProcs \cap UserProcs = {}
      /\ Procs \subseteq EnvQueues /\ Procs = UserProcs \cup IProcs
      /\ NullProc \in UserProcs
      /\ state \in [Procs -> ProcessState]
      /\ procQ \in [ProcQueues -> Seq(UserProcs)]
      /\ sender_pid \in [Envelopes -> Procs \cup {NoPid}]
  BY PidsDistinct DEF TypeOK, UserProcs, Procs, EnvQueues
<1>2. CASE dest \notin Procs
  <2>1. envQ' = eq /\ sender_pid' = sender_pid /\ state' = state /\ procQ' = procQ
    BY <1>2 DEF k_send_message
  <2> QED BY <1>1, <2>1 DEF SchedulerConsistent, ProcessRoles, NoLostWakeup, QueuesMatch
<1>3. CASE dest \in Procs
  <2>1. /\ envQ' = [eq EXCEPT ![dest] = Append(eq[dest], e)]
        /\ sender_pid' = [sender_pid EXCEPT ![e] = from]
    BY <1>3 DEF k_send_message, MsgEnvQ_enqueue
  <2>2. /\ Append(eq[dest], e) \in Seq(Envelopes)
        /\ envQ' \in [EnvQueues -> Seq(Envelopes)]
        /\ \A q \in EnvQueues \ {dest} : envQ'[q] = eq[q]
        /\ sender_pid' \in [Envelopes -> Procs \cup {NoPid}]
    BY <1>1, <1>3, <2>1, Enqueued
  <2>3. CASE state[dest] = "BLOCKED_ON_RCV"
    <3>1. /\ state' = [state EXCEPT ![dest] = "READY"]
          /\ procQ' = proc_q_enqueue(procQ, Priority[dest], dest)
      BY <1>3, <2>3 DEF k_send_message, proc_pq_enqueue
    <3>2. dest \in UserProcs /\ dest # NullProc
      BY <1>1, <1>3, <2>3 DEF ProcessRoles
    <3>3. Priority[dest] \in ProcQueues /\ BelongsOn("READY", dest, Priority[dest])
      BY <3>2, PrioritiesValid DEF Priorities, ProcQueues, BelongsOn
    <3>4. /\ procQ' \in [ProcQueues -> Seq(UserProcs)]
          /\ QueuesMatch(procQ', state')
      <4>1. "READY" \in ProcessState /\ QueuesMatch(procQ, state)
        BY DEF ProcessState, SchedulerConsistent
      <4> QED BY <4>1, <1>1, <2>3, <3>1, <3>2, <3>3, Joins
    <3>5. /\ state' \in [Procs -> ProcessState]
          /\ \A p \in Procs : state'[p] = IF p = dest THEN "READY" ELSE state[p]
      BY <1>1, <3>1 DEF ProcessState
    <3>6. \A p \in UserProcs : state'[p] = "EXECUTING" <=> p = current'
      BY <1>1, <2>3, <3>5 DEF SchedulerConsistent
    <3>7. ProcessRoles'
      BY <1>1, <3>2, <3>5 DEF ProcessRoles
    <3>8. (\A p \in UserProcs : state[p] = "BLOCKED_ON_RCV" => eq[p] = <<>>) => NoLostWakeup'
      BY <1>1, <2>2, <3>5 DEF NoLostWakeup
    <3> QED BY <2>2, <3>4, <3>5, <3>6, <3>7, <3>8 DEF SchedulerConsistent
  <2>4. CASE state[dest] # "BLOCKED_ON_RCV"
    <3>1. state' = state /\ procQ' = procQ
      BY <1>3, <2>4 DEF k_send_message
    <3>2. (\A p \in UserProcs : state[p] = "BLOCKED_ON_RCV" => eq[p] = <<>>) => NoLostWakeup'
      BY <1>1, <2>2, <2>4, <3>1 DEF NoLostWakeup
    <3> QED BY <1>1, <2>2, <3>1, <3>2 DEF SchedulerConsistent, ProcessRoles, QueuesMatch
  <2> QED BY <2>3, <2>4
<1> QED BY <1>2, <1>3

-----------------------------------------------------------------------------
(* Envelope queues. *)

EnvQueueTables == [EnvQueues -> Seq(Envelopes)]

LEMMA TableEnqueue ==
  ASSUME NEW eq \in EnvQueueTables, NEW q \in EnvQueues, NEW e \in Envelopes
  PROVE  /\ MsgEnvQ_enqueue(eq, q, e) \in EnvQueueTables
         /\ \A r \in EnvQueues \ {q} : MsgEnvQ_enqueue(eq, q, e)[r] = eq[r]
         /\ Range(MsgEnvQ_enqueue(eq, q, e)[q]) = Range(eq[q]) \cup {e}
         /\ IsInjective(eq[q]) /\ e \notin Range(eq[q])
              => IsInjective(MsgEnvQ_enqueue(eq, q, e)[q])
<1>1. eq[q] \in Seq(Envelopes)
  BY DEF EnvQueueTables
<1>2. /\ Append(eq[q], e) \in Seq(Envelopes)
      /\ Range(Append(eq[q], e)) = Range(eq[q]) \cup {e}
      /\ IsInjective(eq[q]) /\ e \notin Range(eq[q]) => IsInjective(Append(eq[q], e))
  BY <1>1, Enqueued
<1> QED BY <1>2 DEF MsgEnvQ_enqueue, EnvQueueTables

LEMMA TableDequeue ==
  ASSUME NEW eq \in EnvQueueTables, NEW q \in EnvQueues, eq[q] # <<>>, IsInjective(eq[q])
  PROVE  /\ Head(eq[q]) \in Envelopes
         /\ Head(eq[q]) \in Range(eq[q])
         /\ MsgEnvQ_dequeue(eq, q) \in EnvQueueTables
         /\ \A r \in EnvQueues \ {q} : MsgEnvQ_dequeue(eq, q)[r] = eq[r]
         /\ Range(MsgEnvQ_dequeue(eq, q)[q]) = Range(eq[q]) \ {Head(eq[q])}
         /\ IsInjective(MsgEnvQ_dequeue(eq, q)[q])
<1>1. eq[q] \in Seq(Envelopes)
  BY DEF EnvQueueTables
<1>2. /\ Head(eq[q]) \in Envelopes
      /\ Head(eq[q]) \in Range(eq[q])
      /\ Tail(eq[q]) \in Seq(Envelopes)
      /\ IsInjective(Tail(eq[q])) /\ Range(Tail(eq[q])) = Range(eq[q]) \ {Head(eq[q])}
  BY <1>1, Dequeued
<1> QED BY <1>2 DEF MsgEnvQ_dequeue, EnvQueueTables

(* Members of queues are envelopes. *)
LEMMA MembersAreEnvelopes ==
  ASSUME NEW eq \in EnvQueueTables, NEW q \in EnvQueues
  PROVE  Range(eq[q]) \subseteq Envelopes
<1>1. eq[q] \in Seq(Envelopes)
  BY DEF EnvQueueTables
<1>2. \A i \in DOMAIN eq[q] : eq[q][i] \in Envelopes
  BY <1>1, LenProperties, ElementOfSeq
<1> QED BY <1>2 DEF Range

(* EnvelopesConserved of any placing of the envelopes. *)
Conserved(eq, hd, tm) ==
  /\ \A q \in EnvQueues : IsInjective(eq[q])
  /\ \A q1, q2 \in EnvQueues : q1 # q2 => Range(eq[q1]) \cap Range(eq[q2]) = {}
  /\ \A p1, p2 \in UserProcs : p1 # p2 => hd[p1] \cap hd[p2] = {}
  /\ \A q \in EnvQueues, p \in UserProcs : Range(eq[q]) \cap hd[p] = {}
  /\ \A q \in EnvQueues : Range(eq[q]) \cap tm = {}
  /\ \A p \in UserProcs : hd[p] \cap tm = {}
  /\ \A e \in Envelopes : \/ e \in tm
                          \/ \E q \in EnvQueues : e \in Range(eq[q])
                          \/ \E p \in UserProcs : e \in hd[p]

(* The first envelope of a queue goes to a process. *)
LEMMA QueueToHeld ==
  ASSUME NEW eq \in EnvQueueTables, NEW hd \in [UserProcs -> SUBSET Envelopes], NEW tm,
         Conserved(eq, hd, tm),
         NEW q \in EnvQueues, eq[q] # <<>>, NEW p \in UserProcs
  PROVE  Conserved(MsgEnvQ_dequeue(eq, q), [hd EXCEPT ![p] = @ \cup {Head(eq[q])}], tm)
<1> DEFINE e == Head(eq[q])
           eq2 == MsgEnvQ_dequeue(eq, q)
           hd2 == [hd EXCEPT ![p] = @ \cup {e}]
<1>1. /\ e \in Range(eq[q])
      /\ \A r \in EnvQueues \ {q} : eq2[r] = eq[r]
      /\ Range(eq2[q]) = Range(eq[q]) \ {e}
      /\ IsInjective(eq2[q])
  BY TableDequeue DEF Conserved
<1>2. hd2[p] = hd[p] \cup {e} /\ \A r \in UserProcs \ {p} : hd2[r] = hd[r]
  OBVIOUS
<1> HIDE DEF e, eq2, hd2
<1>3. \A r \in EnvQueues : IsInjective(eq2[r]) /\ Range(eq2[r]) = Range(eq[r]) \ {e}
  BY <1>1 DEF Conserved
<1>4. \A x \in Envelopes : \/ x \in tm
                           \/ \E r \in EnvQueues : x \in Range(eq2[r])
                           \/ \E r \in UserProcs : x \in hd2[r]
  BY <1>2, <1>3 DEF Conserved
<1>5. e \notin tm /\ \A r \in UserProcs : e \notin hd[r]
  BY <1>1 DEF Conserved
<1>6. \A p1, p2 \in UserProcs : p1 # p2 => hd2[p1] \cap hd2[p2] = {}
  BY <1>2, <1>5 DEF Conserved
<1>7. \A r \in EnvQueues, x \in UserProcs : Range(eq2[r]) \cap hd2[x] = {}
  BY <1>2, <1>3 DEF Conserved
<1>8. \A r \in UserProcs : hd2[r] \cap tm = {}
  BY <1>2, <1>5 DEF Conserved
<1>9. /\ \A x, y \in EnvQueues : x # y => Range(eq2[x]) \cap Range(eq2[y]) = {}
      /\ \A x \in EnvQueues : Range(eq2[x]) \cap tm = {}
  BY <1>3 DEF Conserved
<1>10. Conserved(eq2, hd2, tm)
  BY <1>3, <1>4, <1>6, <1>7, <1>8, <1>9 DEF Conserved
<1> QED BY <1>10 DEF e, eq2, hd2

(* An envelope of a process goes to a queue. *)
LEMMA HeldToQueue ==
  ASSUME NEW eq \in EnvQueueTables, NEW hd \in [UserProcs -> SUBSET Envelopes], NEW tm,
         Conserved(eq, hd, tm),
         NEW q \in EnvQueues, NEW p \in UserProcs, NEW e \in hd[p]
  PROVE  Conserved(MsgEnvQ_enqueue(eq, q, e), [hd EXCEPT ![p] = @ \ {e}], tm)
<1> DEFINE eq2 == MsgEnvQ_enqueue(eq, q, e)
           hd2 == [hd EXCEPT ![p] = @ \ {e}]
<1>1. e \in Envelopes /\ e \notin tm /\ \A r \in EnvQueues : e \notin Range(eq[r])
  BY DEF Conserved
<1>2. /\ \A r \in EnvQueues \ {q} : eq2[r] = eq[r]
      /\ Range(eq2[q]) = Range(eq[q]) \cup {e}
      /\ IsInjective(eq2[q])
  BY <1>1, TableEnqueue DEF Conserved
<1>3. hd2[p] = hd[p] \ {e} /\ \A r \in UserProcs \ {p} : hd2[r] = hd[r]
  OBVIOUS
<1>4. \A r \in UserProcs : hd2[r] = hd[r] \ {e}
  BY <1>3 DEF Conserved
<1> HIDE DEF eq2, hd2
<1>5. \A r \in EnvQueues : IsInjective(eq2[r])
  BY <1>2 DEF Conserved
<1>6. \A x \in Envelopes : \/ x \in tm
                           \/ \E r \in EnvQueues : x \in Range(eq2[r])
                           \/ \E r \in UserProcs : x \in hd2[r]
  BY <1>2, <1>4 DEF Conserved
<1>7. Conserved(eq2, hd2, tm)
  BY <1>1, <1>2, <1>4, <1>5, <1>6 DEF Conserved
<1> QED BY <1>7 DEF eq2, hd2

(* The first envelope of a queue goes to a queue. *)
LEMMA QueueToQueue ==
  ASSUME NEW eq \in EnvQueueTables, NEW hd, NEW tm,
         Conserved(eq, hd, tm),
         NEW q \in EnvQueues, eq[q] # <<>>, NEW r \in EnvQueues
  PROVE  Conserved(MsgEnvQ_enqueue(MsgEnvQ_dequeue(eq, q), r, Head(eq[q])), hd, tm)
<1> DEFINE e == Head(eq[q])
           eq1 == MsgEnvQ_dequeue(eq, q)
           eq2 == MsgEnvQ_enqueue(eq1, r, e)
<1>1. /\ e \in Envelopes
      /\ e \in Range(eq[q])
      /\ eq1 \in EnvQueueTables
      /\ \A x \in EnvQueues \ {q} : eq1[x] = eq[x]
      /\ Range(eq1[q]) = Range(eq[q]) \ {e}
      /\ IsInjective(eq1[q])
  BY TableDequeue DEF Conserved
<1> HIDE DEF e, eq1
<1>2. \A x \in EnvQueues : IsInjective(eq1[x]) /\ Range(eq1[x]) = Range(eq[x]) \ {e}
  BY <1>1 DEF Conserved
<1>3. /\ \A x \in EnvQueues \ {r} : eq2[x] = eq1[x]
      /\ Range(eq2[r]) = Range(eq1[r]) \cup {e}
      /\ IsInjective(eq2[r])
  <2>1. IsInjective(eq1[r]) /\ e \notin Range(eq1[r])
    BY <1>2
  <2> QED BY <2>1, <1>1, TableEnqueue
<1> HIDE DEF eq2
<1>4. \A x \in Envelopes : \/ x \in tm
                           \/ \E y \in EnvQueues : x \in Range(eq2[y])
                           \/ \E p \in UserProcs : x \in hd[p]
  BY <1>2, <1>3 DEF Conserved
<1>5. e \notin tm /\ \A p \in UserProcs : e \notin hd[p]
  BY <1>1 DEF Conserved
<1>6. /\ \A x \in EnvQueues : IsInjective(eq2[x])
      /\ \A x \in EnvQueues : Range(eq2[x]) = (Range(eq[x]) \ {e}) \cup IF x = r THEN {e} ELSE {}
  BY <1>2, <1>3
<1>7. \A x, y \in EnvQueues : x # y => Range(eq2[x]) \cap Range(eq2[y]) = {}
  BY <1>6 DEF Conserved
<1>8. /\ \A x \in EnvQueues, p \in UserProcs : Range(eq2[x]) \cap hd[p] = {}
      /\ \A x \in EnvQueues : Range(eq2[x]) \cap tm = {}
  <2>1. \A x \in EnvQueues : Range(eq2[x]) \subseteq Range(eq[x]) \cup {e}
    BY <1>6
  <2>2. \A x \in EnvQueues, p \in UserProcs : Range(eq2[x]) \cap hd[p] = {}
    BY <2>1, <1>5 DEF Conserved
  <2>3. \A x \in EnvQueues : Range(eq2[x]) \cap tm = {}
    BY <2>1, <1>5 DEF Conserved
  <2> QED BY <2>2, <2>3
<1>9. Conserved(eq2, hd, tm)
  BY <1>4, <1>6, <1>7, <1>8 DEF Conserved
<1> QED BY <1>9 DEF e, eq1, eq2

(* All envelopes of a queue go to TIMEOUT_Q. *)
LEMMA QueueToTiming ==
  ASSUME NEW eq \in EnvQueueTables, NEW hd, NEW tm,
         Conserved(eq, hd, tm), NEW q \in EnvQueues
  PROVE  Conserved([eq EXCEPT ![q] = <<>>], hd, tm \cup Range(eq[q]))
<1> DEFINE eq2 == [eq EXCEPT ![q] = <<>>]
           tm2 == tm \cup Range(eq[q])
<1>1. /\ \A r \in EnvQueues \ {q} : eq2[r] = eq[r]
      /\ Range(eq2[q]) = {}
      /\ IsInjective(eq2[q])
  BY EmptyQueue DEF EnvQueueTables
<1> HIDE DEF eq2
<1>2. \A x \in Envelopes : \/ x \in tm2
                           \/ \E r \in EnvQueues : x \in Range(eq2[r])
                           \/ \E p \in UserProcs : x \in hd[p]
  BY <1>1 DEF Conserved
<1>3. Conserved(eq2, hd, tm2)
  BY <1>1, <1>2 DEF Conserved
<1> QED BY <1>3 DEF eq2

(* An envelope of TIMEOUT_Q goes to a queue. *)
LEMMA TimingToQueue ==
  ASSUME NEW eq \in EnvQueueTables, NEW hd, NEW tm,
         Conserved(eq, hd, tm), NEW q \in EnvQueues, NEW e \in Envelopes, e \in tm
  PROVE  Conserved(MsgEnvQ_enqueue(eq, q, e), hd, tm \ {e})
<1> DEFINE eq2 == MsgEnvQ_enqueue(eq, q, e)
<1>1. /\ \A r \in EnvQueues \ {q} : eq2[r] = eq[r]
      /\ Range(eq2[q]) = Range(eq[q]) \cup {e}
      /\ IsInjective(eq2[q])
  BY TableEnqueue DEF Conserved
<1> HIDE DEF eq2
<1>2. \A x \in Envelopes : \/ x \in tm \ {e}
                           \/ \E r \in EnvQueues : x \in Range(eq2[r])
                           \/ \E p \in UserProcs : x \in hd[p]
  BY <1>1 DEF Conserved
<1>3. Conserved(eq2, hd, tm \ {e})
  BY <1>1, <1>2 DEF Conserved
<1> QED BY <1>3 DEF eq2

-----------------------------------------------------------------------------
(* The inductive invariant: its first state, then one lemma per operation. *)

LEMMA Names ==
  /\ Procs = UserProcs \cup IProcs /\ UserProcs = Clients \cup {NullProc}
  /\ IProcs \cap UserProcs = {} /\ NullProc \notin Clients
  /\ Procs \subseteq EnvQueues /\ IProcs = {KB, CRT, TIMER}
  /\ FREE_ENV_QUEUE \in EnvQueues \ Procs /\ DISPLAYQ \in EnvQueues \ Procs
  /\ FREE_ENV_QUEUE # DISPLAYQ /\ KB # CRT /\ KB # TIMER /\ CRT # TIMER
  /\ NoPid \notin Procs
BY PidsDistinct DEF Procs, UserProcs, IProcs, EnvQueues

(* Everything asked of the timer is a wakeup, so a tick empties its queue. *)
LEMMA Drain ==
  ASSUME TypeOK, ServiceRequestsValid
  PROVE  /\ Drained = Range(envQ[TIMER])
         /\ AfterDrain = [envQ EXCEPT ![TIMER] = <<>>]
         /\ AfterDrain \in EnvQueueTables
<1> DEFINE q == envQ[TIMER]
           Stops(n) == /\ \A i \in 1 .. n : msg_type[q[i]] = "WAKEUP10"
                       /\ n < Len(q) => msg_type[q[n + 1]] # "WAKEUP10"
<1>1. TIMER \in EnvQueues /\ envQ \in EnvQueueTables /\ q \in Seq(Envelopes)
  BY Names DEF TypeOK, EnvQueueTables
<1>2. Len(q) \in Nat /\ DOMAIN q = 1 .. Len(q)
  BY <1>1, LenProperties
<1>3. \A i \in 1 .. Len(q) : msg_type[q[i]] = "WAKEUP10"
  BY <1>2 DEF ServiceRequestsValid, Range
<1> HIDE DEF q
<1>4. \A n \in 0 .. Len(q) : Stops(n) <=> n = Len(q)
  BY <1>2, <1>3
<1>5. (CHOOSE n \in 0 .. Len(q) : Stops(n)) = Len(q)
  <2>1. Len(q) \in 0 .. Len(q)
    BY <1>2
  <2> HIDE DEF Stops
  <2>2. Stops(Len(q))
    BY <2>1, <1>4
  <2> QED BY <2>1, <2>2, <1>4
<1>6. WakeupPrefix(envQ[TIMER]) = Len(envQ[TIMER])
  BY <1>5 DEF WakeupPrefix, q
<1>7. Drained = Range(envQ[TIMER])
  BY <1>2, <1>6 DEF Drained, Range, q
<1>8. SubSeq(envQ[TIMER], Len(envQ[TIMER]) + 2, Len(envQ[TIMER])) = <<>>
  BY <1>2, SubSeqEmpty DEF q
<1>9. AfterDrain = [envQ EXCEPT ![TIMER] = <<>>]
  BY <1>6, <1>8 DEF AfterDrain
<1>10. AfterDrain \in EnvQueueTables
  BY <1>1, <1>9, EmptyQueue DEF EnvQueueTables
<1> QED BY <1>7, <1>9, <1>10

(* An enumeration of a finite set is a sequence of its elements, without repetition. *)
LEMMA Enumerated ==
  ASSUME NEW S, IsFiniteSet(S), NEW s \in Enumerations(S)
  PROVE  s \in Seq(S) /\ IsInjective(s) /\ Range(s) = S
<1>1. Cardinality(S) \in Nat
  BY FS_CardinalityType
<1>2. /\ s \in [1 .. Cardinality(S) -> S]
      /\ \A a, b \in 1 .. Cardinality(S) : a # b => s[a] # s[b]
      /\ \A t \in S : \E a \in 1 .. Cardinality(S) : s[a] = t
  BY DEF Enumerations, Bijection, Injection, Surjection, IsInjective
<1>3. s \in Seq(S)
  BY <1>1, <1>2, IsASeq
<1>4. Range(s) = S
  BY <1>2 DEF Range
<1> QED BY <1>2, <1>3, <1>4 DEF IsInjective

LEMMA InitKernelInv == Init => KernelInv
<1> SUFFICES ASSUME Init PROVE KernelInv
  OBVIOUS
<1> USE Names
<1>1. current \in UserProcs
  BY DEF Init
<1>2. /\ state \in [Procs -> ProcessState]
      /\ \A p \in IProcs : state[p] = "NO_STATE"
      /\ \A p \in UserProcs : state[p] = IF p = current THEN "EXECUTING" ELSE "READY"
  BY DEF Init, ProcessState
<1>3. \A q \in ProcQueues : /\ procQ[q] \in Seq(UserProcs)
                            /\ IsInjective(procQ[q])
                            /\ Range(procQ[q]) = StartsOn(q)
  <2>1. TAKE q \in ProcQueues
  <2>2. StartsOn(q) \subseteq UserProcs /\ IsFiniteSet(UserProcs)
    BY FiniteTables, FS_AddElement DEF StartsOn, UserProcs
  <2>3. IsFiniteSet(StartsOn(q)) /\ procQ[q] \in Enumerations(StartsOn(q))
    BY <2>2, FS_Subset DEF Init
  <2>4. procQ[q] \in Seq(StartsOn(q)) /\ IsInjective(procQ[q]) /\ Range(procQ[q]) = StartsOn(q)
    BY <2>3, Enumerated
  <2>5. procQ[q] \in Seq(UserProcs)
    BY <2>2, <2>4, SeqMonotonic
  <2> QED BY <2>4, <2>5
<1>4. procQ \in [ProcQueues -> Seq(UserProcs)]
  <2>1. procQ \in [ProcQueues -> UNION {Enumerations(StartsOn(q)) : q \in ProcQueues}]
    BY DEF Init
  <2> QED BY <2>1, <1>3
<1>5. /\ envQ \in [EnvQueues -> Seq(Envelopes)]
      /\ IsInjective(envQ[FREE_ENV_QUEUE]) /\ Range(envQ[FREE_ENV_QUEUE]) = Envelopes
      /\ \A q \in EnvQueues \ {FREE_ENV_QUEUE} : envQ[q] = <<>>
  <2>1. PICK list \in Enumerations(Envelopes) :
          envQ = [q \in EnvQueues |-> IF q = FREE_ENV_QUEUE THEN list ELSE <<>>]
    BY DEF Init
  <2>2. list \in Seq(Envelopes) /\ IsInjective(list) /\ Range(list) = Envelopes
    BY FiniteTables, Enumerated
  <2> QED BY <2>1, <2>2, EmptyQueue
<1>6. TypeOK
  BY <1>1, <1>2, <1>4, <1>5 DEF Init, TypeOK, MsgType
<1>7. ProcessRoles
  BY <1>2 DEF ProcessRoles
<1>8. SchedulerConsistent
  <2>1. ASSUME NEW q \in ProcQueues, NEW p \in UserProcs
        PROVE  p \in StartsOn(q) <=> BelongsOn(state[p], p, q)
    BY <1>2, <2>1 DEF StartsOn, BelongsOn
  <2> QED BY <1>2, <1>3, <2>1 DEF SchedulerConsistent, QueuesMatch
<1>9. EnvelopesConserved
  BY <1>5, EmptyQueue DEF Init, EnvelopesConserved
<1>10. ServiceRequestsValid
  BY <1>5, EmptyQueue DEF Init, ServiceRequestsValid, InService
<1>11. NoLostWakeup
  BY <1>2 DEF NoLostWakeup
<1> QED BY <1>6, <1>7, <1>8, <1>9, <1>10, <1>11 DEF KernelInv

(* Facts about the invariant that every operation needs. *)
LEMMA Basics ==
  ASSUME KernelInv
  PROVE  /\ TypeOK /\ ProcessRoles /\ SchedulerConsistent /\ ServiceRequestsValid
         /\ envQ \in EnvQueueTables /\ current \in UserProcs
         /\ Conserved(envQ, held, timing)
         /\ state[current] = "EXECUTING"
         /\ \A q \in EnvQueues : IsInjective(envQ[q]) /\ Range(envQ[q]) \subseteq Envelopes
         /\ \A p \in UserProcs : state[p] = "BLOCKED_ON_RCV" => envQ[p] = <<>>
<1>1. /\ TypeOK /\ ProcessRoles /\ SchedulerConsistent /\ ServiceRequestsValid
      /\ Conserved(envQ, held, timing)
      /\ \A p \in UserProcs : state[p] = "BLOCKED_ON_RCV" => envQ[p] = <<>>
  BY DEF KernelInv, EnvelopesConserved, Conserved, NoLostWakeup
<1>2. envQ \in EnvQueueTables /\ current \in UserProcs
  BY <1>1 DEF TypeOK, EnvQueueTables
<1>3. state[current] = "EXECUTING"
  BY <1>1, <1>2 DEF SchedulerConsistent
<1>4. \A q \in EnvQueues : IsInjective(envQ[q]) /\ Range(envQ[q]) \subseteq Envelopes
  BY <1>1, <1>2, MembersAreEnvelopes DEF Conserved
<1> QED BY <1>1, <1>2, <1>3, <1>4

(* What an operation that leaves processes and their queues alone preserves. *)
LEMMA SchedulerUntouched ==
  ASSUME KernelInv, UNCHANGED <<procQ, state, current>>
  PROVE  /\ procQ' \in [ProcQueues -> Seq(UserProcs)]
         /\ state' \in [Procs -> ProcessState]
         /\ current' \in UserProcs
         /\ ProcessRoles' /\ SchedulerConsistent'
BY DEF KernelInv, TypeOK, ProcessRoles, SchedulerConsistent, QueuesMatch

LEMMA RequestMsgEnvStep ==
  ASSUME KernelInv, RequestMsgEnv
  PROVE  KernelInv'
<1> USE Names
<1> DEFINE e == Head(envQ[FREE_ENV_QUEUE])
<1>1. /\ current \in Clients
      /\ envQ[FREE_ENV_QUEUE] # <<>>
      /\ held' = [held EXCEPT ![current] = @ \cup {e}]
      /\ sender_pid' = [sender_pid EXCEPT ![e] = current]
      /\ envQ' = MsgEnvQ_dequeue(envQ, FREE_ENV_QUEUE)
      /\ call' = [call EXCEPT ![current] = "none"]
      /\ UNCHANGED <<procQ, state, current, timing, msg_type>>
  BY DEF RequestMsgEnv, In
<1>2. /\ e \in Envelopes /\ e \in Range(envQ[FREE_ENV_QUEUE])
      /\ envQ' \in EnvQueueTables
      /\ \A q \in EnvQueues \ {FREE_ENV_QUEUE} : envQ'[q] = envQ[q]
  BY <1>1, Basics, TableDequeue
<1>3. EnvelopesConserved'
  <2>1. held \in [UserProcs -> SUBSET Envelopes]
    BY Basics DEF TypeOK
  <2>2. Conserved(envQ', held', timing)
    BY <1>1, <2>1, Basics, QueueToHeld
  <2> QED BY <1>1, <2>2 DEF Conserved, EnvelopesConserved
<1>4. e \notin InService
  BY <1>2, Basics DEF Conserved, InService
<1> HIDE DEF e
<1>5. TypeOK'
  BY <1>1, <1>2, Basics, SchedulerUntouched DEF TypeOK, EnvQueueTables
<1>6. ServiceRequestsValid'
  BY <1>1, <1>2, <1>4, Basics DEF ServiceRequestsValid, InService, TypeOK
<1>7. NoLostWakeup'
  BY <1>1, <1>2, Basics DEF NoLostWakeup
<1> QED BY <1>1, <1>3, <1>5, <1>6, <1>7, SchedulerUntouched DEF KernelInv

LEMMA RequestBlocksStep ==
  ASSUME KernelInv, RequestBlocks
  PROVE  KernelInv' /\ Dispatched
<1> USE Names
<1> DEFINE pq == proc_q_enqueue(procQ, BLOCKED_QUEUE, current)
           ns == "BLOCKED_ON_ENV_REQUEST"
<1>1. /\ current \in Clients /\ current \in UserProcs
      /\ k_process_switch(pq, ns)
      /\ call' = [call EXCEPT ![current] = "request"]
      /\ UNCHANGED <<envQ, held, timing, sender_pid, msg_type>>
  BY DEF RequestBlocks, In
<1>2. /\ procQ \in [ProcQueues -> Seq(UserProcs)] /\ state \in [Procs -> ProcessState]
      /\ QueuesMatch(procQ, state) /\ state[current] = "EXECUTING"
      /\ BLOCKED_QUEUE \in ProcQueues /\ ns \in ProcessState
      /\ BelongsOn(ns, current, BLOCKED_QUEUE)
  BY Basics, PrioritiesValid
  DEF TypeOK, SchedulerConsistent, BLOCKED_QUEUE, ProcQueues, ProcessState, BelongsOn
<1>3. /\ pq \in [ProcQueues -> Seq(UserProcs)]
      /\ QueuesMatch(pq, [state EXCEPT ![current] = ns])
  BY <1>1, <1>2, Joins
<1>4. \E pri \in Priorities : pq[pri] # <<>>
  <2>1. /\ procQ[NUM_PRIORITY_LEVEL - 1] # <<>>
        /\ NUM_PRIORITY_LEVEL - 1 \in Priorities /\ NUM_PRIORITY_LEVEL - 1 \in ProcQueues
    BY <1>1, Basics, SomeoneReady, PrioritiesValid DEF Priorities, ProcQueues
  <2>2. pq[NUM_PRIORITY_LEVEL - 1] = procQ[NUM_PRIORITY_LEVEL - 1]
    BY <1>2, <2>1, PrioritiesValid DEF proc_q_enqueue, BLOCKED_QUEUE
  <2> QED BY <2>1, <2>2
<1> HIDE DEF pq
<1>5. /\ procQ' \in [ProcQueues -> Seq(UserProcs)]
      /\ state' \in [Procs -> ProcessState]
      /\ current' \in UserProcs
      /\ SchedulerConsistent' /\ ProcessRoles' /\ Dispatched
      /\ \A p \in UserProcs : state'[p] = "BLOCKED_ON_RCV" => state[p] = "BLOCKED_ON_RCV"
  BY <1>1, <1>3, <1>4, Basics, Switch DEF SchedulerConsistent, Dispatched
<1>6. TypeOK'
  BY <1>1, <1>5, Basics DEF TypeOK
<1>7. EnvelopesConserved'
  BY <1>1 DEF KernelInv, EnvelopesConserved
<1>8. ServiceRequestsValid'
  BY <1>1 DEF KernelInv, ServiceRequestsValid, InService
<1>9. NoLostWakeup'
  BY <1>1, <1>5, Basics DEF NoLostWakeup
<1> QED BY <1>5, <1>6, <1>7, <1>8, <1>9 DEF KernelInv

LEMMA ReceiveBlocksStep ==
  ASSUME KernelInv, ReceiveBlocks
  PROVE  KernelInv' /\ Dispatched
<1> USE Names
<1> DEFINE ns == "BLOCKED_ON_RCV"
<1>1. /\ current \in Clients /\ current \in UserProcs
      /\ envQ[current] = <<>>
      /\ k_process_switch(procQ, ns)
      /\ call' = [call EXCEPT ![current] = "receive"]
      /\ UNCHANGED <<envQ, held, timing, sender_pid, msg_type>>
  BY DEF ReceiveBlocks, In
<1>2. /\ procQ \in [ProcQueues -> Seq(UserProcs)] /\ state \in [Procs -> ProcessState]
      /\ QueuesMatch(procQ, state) /\ state[current] = "EXECUTING"
  BY Basics DEF TypeOK, SchedulerConsistent
<1>3. QueuesMatch(procQ, [state EXCEPT ![current] = ns])
  BY <1>1, <1>2 DEF QueuesMatch, BelongsOn
<1>4. \E pri \in Priorities : procQ[pri] # <<>>
  BY <1>1, Basics, SomeoneReady
<1>5. /\ procQ' \in [ProcQueues -> Seq(UserProcs)]
      /\ state' \in [Procs -> ProcessState]
      /\ current' \in UserProcs
      /\ SchedulerConsistent' /\ ProcessRoles' /\ Dispatched
      /\ \A p \in UserProcs :
           state'[p] = "BLOCKED_ON_RCV" => state[p] = "BLOCKED_ON_RCV" \/ p = current
  BY <1>1, <1>2, <1>3, <1>4, Basics, Switch DEF SchedulerConsistent, Dispatched
<1>6. TypeOK'
  BY <1>1, <1>5, Basics DEF TypeOK
<1>7. EnvelopesConserved'
  BY <1>1 DEF KernelInv, EnvelopesConserved
<1>8. ServiceRequestsValid'
  BY <1>1 DEF KernelInv, ServiceRequestsValid, InService
<1>9. NoLostWakeup'
  BY <1>1, <1>5, Basics DEF NoLostWakeup
<1> QED BY <1>5, <1>6, <1>7, <1>8, <1>9 DEF KernelInv

LEMMA ReleaseProcessorStep ==
  ASSUME KernelInv, ReleaseProcessor
  PROVE  KernelInv' /\ Dispatched
<1> USE Names
<1> DEFINE pri == Priority[current]
           pq == proc_q_enqueue(procQ, pri, current)
           ns == "READY"
<1>1. /\ k_process_switch(pq, ns)
      /\ UNCHANGED <<envQ, call, held, timing, sender_pid, msg_type>>
  BY DEF ReleaseProcessor, proc_pq_enqueue
<1>2. /\ procQ \in [ProcQueues -> Seq(UserProcs)] /\ state \in [Procs -> ProcessState]
      /\ QueuesMatch(procQ, state) /\ state[current] = "EXECUTING"
      /\ current \in UserProcs
      /\ pri \in Priorities /\ pri \in ProcQueues /\ ns \in ProcessState
      /\ BelongsOn(ns, current, pri)
  <2>1. procQ \in [ProcQueues -> Seq(UserProcs)] /\ state \in [Procs -> ProcessState] /\ current \in UserProcs
    BY Basics DEF TypeOK
  <2>2. QueuesMatch(procQ, state) /\ state[current] = "EXECUTING"
    BY <2>1, Basics DEF SchedulerConsistent
  <2>3. pri \in Priorities /\ pri \in ProcQueues
    BY <2>1, PrioritiesValid DEF Priorities, ProcQueues
  <2>4. ns \in ProcessState /\ BelongsOn(ns, current, pri)
    BY DEF ProcessState, BelongsOn
  <2> QED
    BY <2>1, <2>2, <2>3, <2>4
<1>3. /\ pq \in [ProcQueues -> Seq(UserProcs)]
      /\ QueuesMatch(pq, [state EXCEPT ![current] = ns])
  BY <1>2, Joins
<1>4. \E x \in Priorities : pq[x] # <<>>
  <2>1. Append(procQ[pri], current) # <<>>
    BY <1>2, Enqueued
  <2> QED BY <1>2, <2>1 DEF proc_q_enqueue
<1> HIDE DEF pq
<1>5. /\ procQ' \in [ProcQueues -> Seq(UserProcs)]
      /\ state' \in [Procs -> ProcessState]
      /\ current' \in UserProcs
      /\ SchedulerConsistent' /\ ProcessRoles' /\ Dispatched
      /\ \A p \in UserProcs : state'[p] = "BLOCKED_ON_RCV" => state[p] = "BLOCKED_ON_RCV"
  BY <1>1, <1>3, <1>4, Basics, Switch DEF SchedulerConsistent, Dispatched
<1>6. TypeOK'
  BY <1>1, <1>5, Basics DEF TypeOK
<1>7. EnvelopesConserved'
  BY <1>1 DEF KernelInv, EnvelopesConserved
<1>8. ServiceRequestsValid'
  BY <1>1 DEF KernelInv, ServiceRequestsValid, InService
<1>9. NoLostWakeup'
  BY <1>1, <1>5, Basics DEF NoLostWakeup
<1> QED BY <1>5, <1>6, <1>7, <1>8, <1>9 DEF KernelInv

LEMMA ReceiveMessageStep ==
  ASSUME KernelInv, ReceiveMessage
  PROVE  KernelInv'
<1> USE Names
<1> DEFINE e == Head(envQ[current])
<1>1. /\ current \in Clients /\ current \in EnvQueues
      /\ envQ[current] # <<>>
      /\ held' = [held EXCEPT ![current] = @ \cup {e}]
      /\ envQ' = MsgEnvQ_dequeue(envQ, current)
      /\ call' = [call EXCEPT ![current] = "none"]
      /\ UNCHANGED <<procQ, state, current, timing, sender_pid, msg_type>>
  BY DEF ReceiveMessage, In
<1>2. /\ e \in Envelopes /\ e \in Range(envQ[current])
      /\ envQ' \in EnvQueueTables
      /\ \A q \in EnvQueues \ {current} : envQ'[q] = envQ[q]
  BY <1>1, Basics, TableDequeue
<1>3. EnvelopesConserved'
  <2>1. held \in [UserProcs -> SUBSET Envelopes]
    BY Basics DEF TypeOK
  <2>2. Conserved(envQ', held', timing)
    BY <1>1, <2>1, Basics, QueueToHeld
  <2> QED BY <1>1, <2>2 DEF Conserved, EnvelopesConserved
<1> HIDE DEF e
<1>4. TypeOK'
  BY <1>1, <1>2, Basics, SchedulerUntouched DEF TypeOK, EnvQueueTables
<1>5. ServiceRequestsValid'
  BY <1>1, <1>2, Basics DEF ServiceRequestsValid, InService
<1>6. NoLostWakeup'
  BY <1>1, <1>2, Basics DEF NoLostWakeup
<1> QED BY <1>1, <1>3, <1>4, <1>5, <1>6, SchedulerUntouched DEF KernelInv

LEMMA SetTypeStep ==
  ASSUME KernelInv, NEW e \in Envelopes, SetType(e)
  PROVE  KernelInv'
<1> USE Names
<1>1. /\ current \in UserProcs /\ e \in held[current]
      /\ msg_type' = [msg_type EXCEPT ![e] = "COUNT_REPORT"]
      /\ UNCHANGED <<envQ, procQ, state, current, call, held, timing, sender_pid>>
  BY DEF SetType, MayCall
<1>2. e \notin InService
  BY <1>1, Basics DEF Conserved, InService
<1>3. TypeOK'
  BY <1>1, Basics, SchedulerUntouched DEF TypeOK, MsgType
<1>4. ServiceRequestsValid'
  BY <1>1, <1>2, Basics DEF ServiceRequestsValid, InService, TypeOK
<1>5. EnvelopesConserved'
  BY <1>1 DEF KernelInv, EnvelopesConserved
<1>6. NoLostWakeup'
  BY <1>1 DEF KernelInv, NoLostWakeup
<1> QED BY <1>1, <1>3, <1>4, <1>5, <1>6, SchedulerUntouched DEF KernelInv

LEMMA ReleaseMsgEnvStep ==
  ASSUME KernelInv, NEW e \in Envelopes, ReleaseMsgEnv(e)
  PROVE  KernelInv'
<1> USE Names
<1>1. /\ current \in Clients /\ current \in UserProcs
      /\ e \in held[current]
      /\ held' = [held EXCEPT ![current] = @ \ {e}]
      /\ sender_pid' = [sender_pid EXCEPT ![e] = NoPid]
      /\ envQ' = MsgEnvQ_enqueue(envQ, FREE_ENV_QUEUE, e)
      /\ UNCHANGED <<current, call, timing, msg_type>>
  BY DEF ReleaseMsgEnv, MayCall
<1>2. /\ envQ' \in EnvQueueTables
      /\ \A q \in EnvQueues \ {FREE_ENV_QUEUE} : envQ'[q] = envQ[q]
  BY <1>1, Basics, TableEnqueue
<1>3. EnvelopesConserved'
  <2>1. held \in [UserProcs -> SUBSET Envelopes]
    BY Basics DEF TypeOK
  <2>2. Conserved(envQ', held', timing)
    BY <1>1, <2>1, Basics, HeldToQueue
  <2> QED BY <1>1, <2>2 DEF Conserved, EnvelopesConserved
<1>4. e \notin InService
  BY <1>1, Basics DEF Conserved, InService
<1>5. /\ procQ' \in [ProcQueues -> Seq(UserProcs)]
      /\ state' \in [Procs -> ProcessState]
      /\ SchedulerConsistent' /\ ProcessRoles'
      /\ \A p \in UserProcs : state'[p] = "BLOCKED_ON_RCV" => state[p] = "BLOCKED_ON_RCV"
  <2>1. CASE procQ[BLOCKED_QUEUE] = <<>>
    <3>1. UNCHANGED <<procQ, state, current>>
      BY <1>1, <2>1 DEF ReleaseMsgEnv
    <3> QED BY <3>1, SchedulerUntouched
  <2>2. CASE procQ[BLOCKED_QUEUE] # <<>>
    <3> DEFINE p == Head(procQ[BLOCKED_QUEUE])
               pq == proc_q_dequeue(procQ, BLOCKED_QUEUE)
               st == [state EXCEPT ![p] = "NO_STATE"]
    <3>1. /\ state' = [state EXCEPT ![p] = "READY"]
          /\ procQ' = proc_q_enqueue(pq, Priority[p], p)
      BY <2>2 DEF ReleaseMsgEnv, proc_pq_enqueue
    <3>2. /\ procQ \in [ProcQueues -> Seq(UserProcs)] /\ state \in [Procs -> ProcessState]
          /\ QueuesMatch(procQ, state) /\ BLOCKED_QUEUE \in ProcQueues
          /\ "NO_STATE" \in ProcessState /\ "READY" \in ProcessState
      BY Basics, PrioritiesValid
      DEF TypeOK, SchedulerConsistent, BLOCKED_QUEUE, ProcQueues, ProcessState
    <3>3. /\ p \in UserProcs
          /\ BelongsOn(state[p], p, BLOCKED_QUEUE)
          /\ pq \in [ProcQueues -> Seq(UserProcs)]
          /\ QueuesMatch(pq, st)
      BY <2>2, <3>2, Leaves
    <3>4. /\ Priority[p] \in ProcQueues /\ BelongsOn("READY", p, Priority[p])
          /\ state[p] = "BLOCKED_ON_ENV_REQUEST"
      BY <3>3, PrioritiesValid DEF Priorities, ProcQueues, BelongsOn, BLOCKED_QUEUE
    <3> HIDE DEF p, pq
    <3>5. st \in [Procs -> ProcessState] /\ st[p] = "NO_STATE"
      BY <3>2, <3>3
    <3>6. state' = [st EXCEPT ![p] = "READY"]
      BY <3>1, <3>2
    <3> HIDE DEF st
    <3>7. procQ' \in [ProcQueues -> Seq(UserProcs)] /\ QueuesMatch(procQ', state')
      <4>1. /\ proc_q_enqueue(pq, Priority[p], p) \in [ProcQueues -> Seq(UserProcs)]
            /\ QueuesMatch(proc_q_enqueue(pq, Priority[p], p), [st EXCEPT ![p] = "READY"])
        BY <3>2, <3>3, <3>4, <3>5, Joins
      <4> QED BY <4>1, <3>1, <3>6
    <3>8. /\ state' \in [Procs -> ProcessState]
          /\ \A x \in Procs : state'[x] = IF x = p THEN "READY" ELSE state[x]
      BY <3>1, <3>2, <3>3
    <3>9. SchedulerConsistent'
      BY <1>1, <3>3, <3>4, <3>7, <3>8, Basics DEF SchedulerConsistent
    <3>10. ProcessRoles'
      BY <3>3, <3>4, <3>8, Basics DEF ProcessRoles
    <3> QED BY <3>7, <3>8, <3>9, <3>10
  <2> QED BY <2>1, <2>2
<1>6. TypeOK'
  BY <1>1, <1>2, <1>5, Basics DEF TypeOK, EnvQueueTables
<1>7. ServiceRequestsValid'
  BY <1>1, <1>2, <1>4, Basics DEF ServiceRequestsValid, InService, TypeOK
<1>8. NoLostWakeup'
  BY <1>1, <1>2, <1>5, Basics DEF NoLostWakeup
<1> QED BY <1>3, <1>5, <1>6, <1>7, <1>8 DEF KernelInv

LEMMA SentTo ==
  ASSUME envQ \in EnvQueueTables, NEW dest \in EnvQueues, NEW e \in Envelopes,
         envQ' = MsgEnvQ_enqueue(envQ, dest, e)
  PROVE  /\ envQ' \in EnvQueueTables
         /\ \A q \in EnvQueues \ {dest} : envQ'[q] = envQ[q]
         /\ Range(envQ'[dest]) = Range(envQ[dest]) \cup {e}
<1> DEFINE eq2 == MsgEnvQ_enqueue(envQ, dest, e)
<1>1. /\ eq2 \in EnvQueueTables
      /\ \A q \in EnvQueues \ {dest} : eq2[q] = envQ[q]
      /\ Range(eq2[dest]) = Range(envQ[dest]) \cup {e}
  BY TableEnqueue
<1> HIDE DEF eq2
<1>2. envQ' = eq2
  BY DEF eq2
<1> QED BY <1>1, <1>2

(* What sending an envelope from the hands of the running process preserves. *)
LEMMA ClientSends ==
  ASSUME KernelInv, NEW e \in Envelopes, NEW dest \in Procs,
         MayCall, e \in held[current],
         held' = [held EXCEPT ![current] = @ \ {e}],
         k_send_message(envQ, current, dest, e),
         UNCHANGED <<current, call, timing>>, msg_type' \in [Envelopes -> MsgType]
  PROVE  /\ TypeOK' /\ ProcessRoles' /\ SchedulerConsistent'
         /\ EnvelopesConserved' /\ NoLostWakeup'
         /\ e \notin InService
         /\ sender_pid' = [sender_pid EXCEPT ![e] = current]
         /\ \A q \in EnvQueues \ {dest} : envQ'[q] = envQ[q]
         /\ Range(envQ'[dest]) = Range(envQ[dest]) \cup {e}
<1> USE Names
<1>1. /\ current \in Clients /\ current \in UserProcs /\ dest \in EnvQueues
      /\ envQ' = MsgEnvQ_enqueue(envQ, dest, e)
      /\ sender_pid' = [sender_pid EXCEPT ![e] = current]
  BY DEF MayCall, k_send_message
<1>2. /\ envQ' \in EnvQueueTables
      /\ \A q \in EnvQueues \ {dest} : envQ'[q] = envQ[q]
      /\ Range(envQ'[dest]) = Range(envQ[dest]) \cup {e}
  <2>1. envQ \in EnvQueueTables /\ dest \in EnvQueues
    BY <1>1, Basics
  <2> QED BY <2>1, <1>1, SentTo
<1>3. EnvelopesConserved'
  <2>1. held \in [UserProcs -> SUBSET Envelopes]
    BY Basics DEF TypeOK
  <2>2. Conserved(envQ', held', timing)
    BY <1>1, <2>1, Basics, HeldToQueue
  <2> QED BY <2>2 DEF Conserved, EnvelopesConserved
<1>4. e \notin InService
  BY <1>1, Basics DEF Conserved, InService
<1>5. /\ procQ' \in [ProcQueues -> Seq(UserProcs)]
      /\ state' \in [Procs -> ProcessState]
      /\ sender_pid' \in [Envelopes -> Procs \cup {NoPid}]
      /\ SchedulerConsistent' /\ ProcessRoles' /\ NoLostWakeup'
  <2>1. envQ \in [EnvQueues -> Seq(Envelopes)] /\ current \in Procs
    BY <1>1, Basics DEF EnvQueueTables
  <2> QED BY <2>1, Basics, Send
<1>6. TypeOK'
  BY <1>1, <1>2, <1>5, Basics DEF TypeOK, EnvQueueTables
<1> QED BY <1>1, <1>2, <1>3, <1>4, <1>5, <1>6

LEMMA SendMessageStep ==
  ASSUME KernelInv, NEW dest \in Clients, NEW e \in Envelopes, SendMessage(dest, e)
  PROVE  KernelInv'
<1> USE Names
<1>1. /\ dest \in Procs /\ MayCall /\ e \in held[current]
      /\ held' = [held EXCEPT ![current] = @ \ {e}]
      /\ k_send_message(envQ, current, dest, e)
      /\ UNCHANGED <<current, call, timing, msg_type>>
      /\ msg_type' \in [Envelopes -> MsgType]
  BY Basics DEF SendMessage, TypeOK
<1>2. ServiceRequestsValid'
  <2>1. /\ e \notin InService
        /\ sender_pid' = [sender_pid EXCEPT ![e] = current]
        /\ \A q \in EnvQueues \ {dest} : envQ'[q] = envQ[q]
        /\ Range(envQ'[dest]) = Range(envQ[dest]) \cup {e}
    BY <1>1, ClientSends
  <2>2. /\ sender_pid \in [Envelopes -> Procs \cup {NoPid}]
        /\ msg_type \in [Envelopes -> MsgType]
        /\ InService \subseteq Envelopes /\ ServiceRequestsValid
    BY Basics DEF TypeOK, InService
  <2>3. InService' = InService
    BY <1>1, <2>1 DEF InService
  <2> QED BY <2>1, <2>2, <2>3, <1>1 DEF ServiceRequestsValid
<1> QED BY <1>1, <1>2, ClientSends DEF KernelInv

LEMMA GetConsoleCharsStep ==
  ASSUME KernelInv, NEW e \in Envelopes, GetConsoleChars(e)
  PROVE  KernelInv'
<1> USE Names
<1>1. /\ KB \in Procs /\ MayCall /\ e \in held[current]
      /\ held' = [held EXCEPT ![current] = @ \ {e}]
      /\ k_send_message(envQ, current, KB, e)
      /\ UNCHANGED <<current, call, timing, msg_type>>
      /\ msg_type' \in [Envelopes -> MsgType]
  BY Basics DEF GetConsoleChars, TypeOK
<1>2. current \in Clients
  BY <1>1 DEF MayCall
<1>3. ServiceRequestsValid'
  <2>1. /\ e \notin InService
        /\ sender_pid' = [sender_pid EXCEPT ![e] = current]
        /\ \A q \in EnvQueues \ {KB} : envQ'[q] = envQ[q]
        /\ Range(envQ'[KB]) = Range(envQ[KB]) \cup {e}
    BY <1>1, ClientSends
  <2>2. /\ sender_pid \in [Envelopes -> Procs \cup {NoPid}]
        /\ msg_type \in [Envelopes -> MsgType]
        /\ InService \subseteq Envelopes /\ ServiceRequestsValid
    BY Basics DEF TypeOK, InService
  <2>3. InService' = InService \cup {e}
    BY <1>1, <2>1 DEF InService
  <2> QED BY <2>1, <2>2, <2>3, <1>1, <1>2 DEF ServiceRequestsValid
<1> QED BY <1>1, <1>3, ClientSends DEF KernelInv

LEMMA RequestDelayStep ==
  ASSUME KernelInv, NEW e \in Envelopes, RequestDelay(e)
  PROVE  KernelInv'
<1> USE Names
<1>1. /\ TIMER \in Procs /\ MayCall /\ e \in held[current]
      /\ held' = [held EXCEPT ![current] = @ \ {e}]
      /\ msg_type' = [msg_type EXCEPT ![e] = "WAKEUP10"]
      /\ k_send_message(envQ, current, TIMER, e)
      /\ UNCHANGED <<current, call, timing>>
  BY DEF RequestDelay
<1>2. current \in Clients /\ msg_type' \in [Envelopes -> MsgType]
  BY <1>1, Basics DEF MayCall, TypeOK, MsgType
<1>3. ServiceRequestsValid'
  <2>1. /\ e \notin InService
        /\ sender_pid' = [sender_pid EXCEPT ![e] = current]
        /\ \A q \in EnvQueues \ {TIMER} : envQ'[q] = envQ[q]
        /\ Range(envQ'[TIMER]) = Range(envQ[TIMER]) \cup {e}
    BY <1>1, <1>2, ClientSends
  <2>2. /\ sender_pid \in [Envelopes -> Procs \cup {NoPid}]
        /\ msg_type \in [Envelopes -> MsgType]
        /\ InService \subseteq Envelopes /\ ServiceRequestsValid
    BY Basics DEF TypeOK, InService
  <2>3. InService' = InService \cup {e}
    BY <1>1, <2>1 DEF InService
  <2> QED BY <2>1, <2>2, <2>3, <1>1, <1>2 DEF ServiceRequestsValid
<1> QED BY <1>1, <1>2, <1>3, ClientSends DEF KernelInv

(* crt_i_proc(0) finds in its queue the envelope just sent, and no other. *)
LEMMA DisplayHandOver ==
  ASSUME KernelInv, NEW e \in Envelopes, SendConsoleChars(e)
  PROVE  envQ' = MsgEnvQ_enqueue(envQ, DISPLAYQ, e)
<1> USE Names
<1> DEFINE sent == MsgEnvQ_enqueue(envQ, CRT, e)
<1>1. envQ' = MsgEnvQ_enqueue(MsgEnvQ_dequeue(sent, CRT), DISPLAYQ, Head(sent[CRT]))
  BY DEF SendConsoleChars
<1>2. envQ \in [EnvQueues -> Seq(Envelopes)] /\ CRT \in EnvQueues /\ envQ[CRT] = <<>>
  BY Basics DEF EnvQueueTables, ServiceRequestsValid
<1>3. sent = [envQ EXCEPT ![CRT] = <<e>>] /\ sent[CRT] = <<e>>
  BY <1>2 DEF MsgEnvQ_enqueue
<1>4. Head(sent[CRT]) = e /\ Tail(sent[CRT]) = <<>>
  <2>1. Head(<<e>>) = e /\ Tail(<<e>>) = <<>>
    OBVIOUS
  <2> HIDE DEF sent
  <2> QED BY <2>1, <1>3
<1>5. MsgEnvQ_dequeue(sent, CRT) = envQ
  BY <1>2, <1>3, <1>4 DEF MsgEnvQ_dequeue
<1> QED BY <1>1, <1>4, <1>5

LEMMA SendConsoleCharsStep ==
  ASSUME KernelInv, NEW e \in Envelopes, SendConsoleChars(e)
  PROVE  KernelInv'
<1> USE Names
<1>1. /\ current \in Clients /\ e \in held[current]
      /\ held' = [held EXCEPT ![current] = @ \ {e}]
      /\ sender_pid' = [sender_pid EXCEPT ![e] = current]
      /\ UNCHANGED <<procQ, state, current, call, timing, msg_type>>
  BY DEF SendConsoleChars, MayCall
<1>2. envQ' = MsgEnvQ_enqueue(envQ, DISPLAYQ, e)
  BY DisplayHandOver
<1>3. /\ envQ' \in EnvQueueTables
      /\ \A q \in EnvQueues \ {DISPLAYQ} : envQ'[q] = envQ[q]
      /\ Range(envQ'[DISPLAYQ]) = Range(envQ[DISPLAYQ]) \cup {e}
  BY <1>2, Basics, SentTo
<1>4. EnvelopesConserved'
  <2>1. held \in [UserProcs -> SUBSET Envelopes]
    BY Basics DEF TypeOK
  <2>2. Conserved(MsgEnvQ_enqueue(envQ, DISPLAYQ, e), [held EXCEPT ![current] = @ \ {e}], timing)
    BY <1>1, <2>1, Basics, HeldToQueue
  <2>3. Conserved(envQ', held', timing)
    BY <1>1, <1>2, <2>2
  <2> QED BY <1>1, <2>3 DEF Conserved, EnvelopesConserved
<1>5. TypeOK'
  BY <1>1, <1>3, Basics, SchedulerUntouched DEF TypeOK, EnvQueueTables
<1>6. ServiceRequestsValid'
  <2>1. e \notin Range(envQ[TIMER])
    BY <1>1, Basics DEF Conserved
  <2>2. InService' = InService \cup {e} /\ InService \subseteq Envelopes
    BY <1>1, <1>3, Basics DEF InService, TypeOK
  <2>3. sender_pid \in [Envelopes -> Procs \cup {NoPid}] /\ ServiceRequestsValid
    BY Basics DEF TypeOK
  <2> QED BY <1>1, <1>3, <2>1, <2>2, <2>3 DEF ServiceRequestsValid
<1>7. NoLostWakeup'
  BY <1>1, <1>3, Basics DEF NoLostWakeup
<1> QED BY <1>1, <1>4, <1>5, <1>6, <1>7, SchedulerUntouched DEF KernelInv

(* An i-process that takes the first envelope of a queue back to whoever sent it. *)
LEMMA ServiceReply ==
  ASSUME KernelInv, NEW q \in {DISPLAYQ, KB}, NEW from \in IProcs, envQ[q] # <<>>,
         NEW t \in MsgType,
         msg_type' = [msg_type EXCEPT ![Head(envQ[q])] = t],
         k_send_message(MsgEnvQ_dequeue(envQ, q), from,
                        sender_pid[Head(envQ[q])], Head(envQ[q])),
         UNCHANGED <<current, call, held, timing>>
  PROVE  KernelInv'
<1> USE Names
<1> DEFINE e == Head(envQ[q])
           eq == MsgEnvQ_dequeue(envQ, q)
           dest == sender_pid[e]
<1>1. /\ q \in EnvQueues
      /\ e \in Envelopes /\ e \in Range(envQ[q]) /\ e \in InService
      /\ eq \in EnvQueueTables
      /\ \A r \in EnvQueues \ {q} : eq[r] = envQ[r]
      /\ Range(eq[q]) = Range(envQ[q]) \ {e}
  <2>1. q \in EnvQueues /\ envQ \in EnvQueueTables /\ IsInjective(envQ[q])
    BY Basics
  <2>2. /\ e \in Envelopes /\ e \in Range(envQ[q])
        /\ eq \in EnvQueueTables
        /\ \A r \in EnvQueues \ {q} : eq[r] = envQ[r]
        /\ Range(eq[q]) = Range(envQ[q]) \ {e}
    BY <2>1, TableDequeue
  <2>3. e \in InService
    BY <2>2 DEF InService
  <2> QED BY <2>1, <2>2, <2>3
<1>2. Conserved(MsgEnvQ_enqueue(eq, dest, e), held, timing)
  <2>1. dest \in EnvQueues
    BY <1>1, Basics DEF ServiceRequestsValid
  <2> QED BY <1>1, <2>1, Basics, QueueToQueue
<1> HIDE DEF e, eq
<1>3. dest \in Clients
  BY <1>1, Basics DEF ServiceRequestsValid
<1> HIDE DEF dest
<1>4. /\ k_send_message(eq, from, dest, e)
      /\ msg_type' = [msg_type EXCEPT ![e] = t]
  BY DEF e, eq, dest
<1>5. /\ envQ' = MsgEnvQ_enqueue(eq, dest, e)
      /\ sender_pid' = [sender_pid EXCEPT ![e] = from]
  BY <1>3, <1>4 DEF k_send_message
<1>6. EnvelopesConserved'
  BY <1>2, <1>5 DEF Conserved, EnvelopesConserved
<1>7. /\ envQ' \in [EnvQueues -> Seq(Envelopes)]
      /\ sender_pid' \in [Envelopes -> Procs \cup {NoPid}]
      /\ procQ' \in [ProcQueues -> Seq(UserProcs)]
      /\ state' \in [Procs -> ProcessState]
      /\ SchedulerConsistent' /\ ProcessRoles' /\ NoLostWakeup'
  <2>1. eq \in [EnvQueues -> Seq(Envelopes)] /\ from \in Procs
    BY <1>1 DEF EnvQueueTables
  <2>2. \A p \in UserProcs : state[p] = "BLOCKED_ON_RCV" => eq[p] = <<>>
    BY <1>1, Basics
  <2> QED BY <1>1, <1>4, <2>1, <2>2, Basics, Send
<1>8. TypeOK'
  BY <1>4, <1>7, Basics DEF TypeOK
<1>9. \A r \in EnvQueues \ {dest} : envQ'[r] = eq[r]
  BY <1>1, <1>5 DEF MsgEnvQ_enqueue, EnvQueueTables
<1>10. ServiceRequestsValid'
  <2>1. /\ e \notin Range(eq[DISPLAYQ]) /\ e \notin Range(eq[KB])
        /\ e \notin Range(eq[TIMER]) /\ e \notin timing
    BY <1>1, Basics DEF Conserved
  <2>2. InService' \subseteq InService \ {e} /\ InService \subseteq Envelopes
    BY <1>1, <1>3, <1>9, <2>1, Basics DEF InService, TypeOK
  <2>3. envQ'[TIMER] = envQ[TIMER] /\ envQ'[CRT] = envQ[CRT]
    BY <1>1, <1>3, <1>9
  <2>4. /\ sender_pid \in [Envelopes -> Procs \cup {NoPid}]
        /\ msg_type \in [Envelopes -> MsgType] /\ ServiceRequestsValid
        /\ Range(envQ[TIMER]) \subseteq Envelopes /\ e \notin Range(envQ[TIMER])
    BY <1>1, <2>1, Basics DEF TypeOK
  <2> QED BY <1>4, <1>5, <2>2, <2>3, <2>4 DEF ServiceRequestsValid
<1> QED BY <1>6, <1>7, <1>8, <1>10 DEF KernelInv

LEMMA crt_i_procStep ==
  ASSUME KernelInv, crt_i_proc
  PROVE  KernelInv'
<1>1. CRT \in IProcs /\ "DISPLAY_ACK" \in MsgType /\ DISPLAYQ \in {DISPLAYQ, KB}
  BY Names DEF MsgType
<1> QED BY <1>1, ServiceReply DEF crt_i_proc

LEMMA kbd_i_procStep ==
  ASSUME KernelInv, kbd_i_proc
  PROVE  KernelInv'
<1>1. KB \in IProcs /\ "CONSOLE_INPUT" \in MsgType /\ KB \in {DISPLAYQ, KB}
  BY Names DEF MsgType
<1> QED BY <1>1, ServiceReply DEF kbd_i_proc

(* A tick with nothing due empties the timer's queue into TIMEOUT_Q. *)
LEMMA Ticked ==
  ASSUME KernelInv
  PROVE  /\ AfterDrain \in EnvQueueTables
         /\ Conserved(AfterDrain, held, timing \cup Drained)
         /\ \A q \in EnvQueues \ {TIMER} : AfterDrain[q] = envQ[q]
         /\ Range(AfterDrain[TIMER]) = {}
         /\ Drained \subseteq InService /\ timing \cup Drained \subseteq Envelopes
         /\ timing \subseteq InService
<1> USE Names
<1>1. /\ Drained = Range(envQ[TIMER])
      /\ AfterDrain = [envQ EXCEPT ![TIMER] = <<>>]
      /\ AfterDrain \in EnvQueueTables
  BY Basics, Drain
<1>2. Conserved(AfterDrain, held, timing \cup Drained)
  BY <1>1, Basics, QueueToTiming
<1>3. /\ \A q \in EnvQueues \ {TIMER} : AfterDrain[q] = envQ[q]
      /\ Range(AfterDrain[TIMER]) = {}
  BY <1>1, Basics, EmptyQueue DEF EnvQueueTables
<1>4. Drained \subseteq InService /\ timing \cup Drained \subseteq Envelopes /\ timing \subseteq InService
  BY <1>1, Basics DEF InService, TypeOK
<1> QED BY <1>1, <1>2, <1>3, <1>4

LEMMA timer_i_proc_idleStep ==
  ASSUME KernelInv, timer_i_proc_idle
  PROVE  KernelInv'
<1> USE Names
<1>1. /\ timing' = timing \cup Drained
      /\ envQ' = AfterDrain
      /\ UNCHANGED <<procQ, state, current, call, held, sender_pid, msg_type>>
  BY DEF timer_i_proc_idle
<1>2. EnvelopesConserved'
  BY <1>1, Ticked DEF Conserved, EnvelopesConserved
<1>3. TypeOK'
  BY <1>1, Ticked, Basics, SchedulerUntouched DEF TypeOK, EnvQueueTables
<1>4. ServiceRequestsValid'
  <2>1. InService' \subseteq InService
    BY <1>1, Ticked DEF InService
  <2> QED BY <1>1, <2>1, Ticked, Basics DEF ServiceRequestsValid
<1>5. NoLostWakeup'
  BY <1>1, Ticked, Basics DEF NoLostWakeup
<1> QED BY <1>1, <1>2, <1>3, <1>4, <1>5, SchedulerUntouched DEF KernelInv

LEMMA timer_i_procStep ==
  ASSUME KernelInv, NEW e \in Envelopes, timer_i_proc(e)
  PROVE  KernelInv'
<1> USE Names
<1> DEFINE dest == sender_pid[e]
           tm == timing \cup Drained
           eq == AfterDrain
<1>1. /\ e \in tm
      /\ timing' = tm \ {e}
      /\ msg_type' = [msg_type EXCEPT ![e] = "WAKEUP10"]
      /\ k_send_message(eq, TIMER, dest, e)
      /\ UNCHANGED <<current, call, held>>
  BY DEF timer_i_proc
<1>2. /\ eq \in EnvQueueTables
      /\ Conserved(eq, held, tm)
      /\ \A q \in EnvQueues \ {TIMER} : eq[q] = envQ[q]
      /\ Range(eq[TIMER]) = {}
      /\ tm \subseteq InService /\ tm \subseteq Envelopes
  BY Ticked
<1> HIDE DEF eq, tm
<1>3. dest \in Clients
  BY <1>1, <1>2, Basics DEF ServiceRequestsValid
<1> HIDE DEF dest
<1>4. /\ envQ' = MsgEnvQ_enqueue(eq, dest, e)
      /\ sender_pid' = [sender_pid EXCEPT ![e] = TIMER]
  BY <1>1, <1>3 DEF k_send_message
<1>5. EnvelopesConserved'
  <2>1. Conserved(MsgEnvQ_enqueue(eq, dest, e), held, tm \ {e})
    BY <1>1, <1>2, <1>3, TimingToQueue
  <2> QED BY <1>1, <1>4, <2>1 DEF Conserved, EnvelopesConserved
<1>6. /\ envQ' \in [EnvQueues -> Seq(Envelopes)]
      /\ sender_pid' \in [Envelopes -> Procs \cup {NoPid}]
      /\ procQ' \in [ProcQueues -> Seq(UserProcs)]
      /\ state' \in [Procs -> ProcessState]
      /\ SchedulerConsistent' /\ ProcessRoles' /\ NoLostWakeup'
  <2>1. eq \in [EnvQueues -> Seq(Envelopes)] /\ TIMER \in Procs /\ current' = current
    BY <1>1, <1>2 DEF EnvQueueTables
  <2>2. \A p \in UserProcs : state[p] = "BLOCKED_ON_RCV" => eq[p] = <<>>
    BY <1>2, Basics
  <2> QED BY <1>1, <2>1, <2>2, Basics, Send
<1>7. TypeOK'
  BY <1>1, <1>2, <1>6, Basics DEF TypeOK, MsgType
<1>8. \A r \in EnvQueues \ {dest} : envQ'[r] = eq[r]
  BY <1>2, <1>4 DEF MsgEnvQ_enqueue, EnvQueueTables
<1>9. ServiceRequestsValid'
  <2>1. /\ Range(envQ'[TIMER]) = {} /\ envQ'[CRT] = envQ[CRT]
        /\ envQ'[DISPLAYQ] = eq[DISPLAYQ] /\ envQ'[DISPLAYQ] = envQ[DISPLAYQ]
        /\ envQ'[KB] = eq[KB] /\ envQ'[KB] = envQ[KB]
    BY <1>2, <1>3, <1>8
  <2>2. e \notin Range(eq[DISPLAYQ]) /\ e \notin Range(eq[KB])
    BY <1>1, <1>2 DEF Conserved
  <2>3. InService' \subseteq InService \ {e} /\ InService \subseteq Envelopes
    BY <1>1, <1>2, <2>1, <2>2, Basics DEF InService, TypeOK
  <2>4. sender_pid \in [Envelopes -> Procs \cup {NoPid}] /\ ServiceRequestsValid
    BY Basics DEF TypeOK
  <2> QED BY <1>4, <2>1, <2>3, <2>4 DEF ServiceRequestsValid
<1> QED BY <1>5, <1>6, <1>7, <1>9 DEF KernelInv

-----------------------------------------------------------------------------
(* The theorems. *)

LEMMA NextKernelInv == KernelInv /\ [Next]_vars => KernelInv'
<1> SUFFICES ASSUME KernelInv, [Next]_vars PROVE KernelInv'
  OBVIOUS
<1>1. CASE RequestMsgEnv
  BY <1>1, RequestMsgEnvStep
<1>2. CASE RequestBlocks
  BY <1>2, RequestBlocksStep
<1>3. CASE \E e \in Envelopes : ReleaseMsgEnv(e)
  BY <1>3, ReleaseMsgEnvStep
<1>4. CASE \E dest \in Clients, e \in Envelopes : SendMessage(dest, e)
  BY <1>4, SendMessageStep
<1>5. CASE \E e \in Envelopes : SetType(e)
  BY <1>5, SetTypeStep
<1>6. CASE ReceiveMessage
  BY <1>6, ReceiveMessageStep
<1>7. CASE ReceiveBlocks
  BY <1>7, ReceiveBlocksStep
<1>8. CASE ReleaseProcessor
  BY <1>8, ReleaseProcessorStep
<1>9. CASE \E e \in Envelopes : SendConsoleChars(e)
  BY <1>9, SendConsoleCharsStep
<1>10. CASE \E e \in Envelopes : GetConsoleChars(e)
  BY <1>10, GetConsoleCharsStep
<1>11. CASE \E e \in Envelopes : RequestDelay(e)
  BY <1>11, RequestDelayStep
<1>12. CASE crt_i_proc
  BY <1>12, crt_i_procStep
<1>13. CASE kbd_i_proc
  BY <1>13, kbd_i_procStep
<1>14. CASE timer_i_proc_idle
  BY <1>14, timer_i_proc_idleStep
<1>15. CASE \E e \in Envelopes : timer_i_proc(e)
  BY <1>15, timer_i_procStep
<1>16. CASE UNCHANGED vars
  BY <1>16 DEF vars, KernelInv, TypeOK, ProcessRoles, SchedulerConsistent, QueuesMatch,
               EnvelopesConserved, ServiceRequestsValid, InService, NoLostWakeup
<1> QED
  BY <1>1, <1>2, <1>3, <1>4, <1>5, <1>6, <1>7, <1>8, <1>9, <1>10, <1>11, <1>12, <1>13,
     <1>14, <1>15, <1>16 DEF Next

(* The invariant holds of every reachable state of the kernel. *)
THEOREM Invariance == Spec => []KernelInv
<1>1. Init => KernelInv
  BY InitKernelInv
<1>2. KernelInv /\ [Next]_vars => KernelInv'
  BY NextKernelInv
<1> QED BY <1>1, <1>2, PTL DEF Spec

(* Every variable keeps its type: in particular CURRENT_PROCESS is never an i-process
   once a handler has returned. *)
THEOREM TypeCorrect == Spec => []TypeOK
<1>1. KernelInv => TypeOK
  BY DEF KernelInv
<1> QED BY <1>1, Invariance, PTL

(* No operation of kernal.c and no handler of iProcs.c loses, duplicates or shares an
   envelope. *)
THEOREM NoEnvelopeLost == Spec => []EnvelopesConserved
<1>1. KernelInv => EnvelopesConserved
  BY DEF KernelInv
<1> QED BY <1>1, Invariance, PTL

(* The state fields and the process queues always agree. *)
THEOREM SchedulerCorrect == Spec => []SchedulerConsistent
<1>1. KernelInv => SchedulerConsistent
  BY DEF KernelInv
<1> QED BY <1>1, Invariance, PTL

(* The i-processes can always tell where an envelope goes back to. *)
THEOREM ServiceCorrect == Spec => []ServiceRequestsValid
<1>1. KernelInv => ServiceRequestsValid
  BY DEF KernelInv
<1> QED BY <1>1, Invariance, PTL

(* No process waits for a message that is in its queue. *)
THEOREM WakeupsNotLost == Spec => []NoLostWakeup
<1>1. KernelInv => NoLostWakeup
  BY DEF KernelInv
<1> QED BY <1>1, Invariance, PTL

(* A process that has to wait always finds another to switch to. *)
THEOREM SwitchSucceeds == Spec => []SwitchFindsProcess
<1>1. KernelInv => SwitchFindsProcess
  BY SomeoneReady DEF KernelInv, SwitchFindsProcess
<1> QED BY <1>1, Invariance, PTL

(* A context switch never passes over a ready process of a better priority. *)
THEOREM DispatchCorrect == Spec => DispatchByPriority
<1>1. ASSUME KernelInv, Next, current' # current PROVE Dispatched
  <2>1. RequestBlocks \/ ReceiveBlocks \/ ReleaseProcessor
    BY <1>1 DEF Next, RequestMsgEnv, ReleaseMsgEnv, SendMessage, SetType, ReceiveMessage,
                SendConsoleChars, GetConsoleChars, RequestDelay, crt_i_proc, kbd_i_proc,
                timer_i_proc_idle, timer_i_proc
  <2> QED BY <1>1, <2>1, RequestBlocksStep, ReceiveBlocksStep, ReleaseProcessorStep
<1>2. KernelInv /\ [Next]_vars => [current' # current => Dispatched]_vars
  BY <1>1
<1>3. [][current' # current => Dispatched]_vars => DispatchByPriority
  BY PTL DEF DispatchByPriority, Dispatched
<1> QED BY <1>2, <1>3, Invariance, PTL DEF Spec

-----------------------------------------------------------------------------
(* No free envelope is stranded. *)

(* The inductive invariant says, besides, that only a process inside k_request_msg_env
   waits for an envelope: it is the one that looks at FREE_ENV_QUEUE again when woken. *)
RequestersWait == \A p \in UserProcs : state[p] = "BLOCKED_ON_ENV_REQUEST" => call[p] = "request"

StrandedInv == RequestersWait /\ NoStrandedEnvelope

(* What a switch does to the states and to BLOCKED_QUEUE. *)
LEMMA SwitchStates ==
  ASSUME TypeOK, NEW pq, NEW ns, k_process_switch(pq, ns), BLOCKED_QUEUE \in DOMAIN pq
  PROVE  /\ procQ'[BLOCKED_QUEUE] = pq[BLOCKED_QUEUE]
         /\ \A p \in UserProcs \ {current} : state'[p] \in {state[p], "EXECUTING"}
         /\ state'[current] \in {state[current], ns, "EXECUTING"}
<1>1. state \in [Procs -> ProcessState] /\ UserProcs \subseteq Procs /\ current \in UserProcs
  BY Names DEF TypeOK
<1>2. CASE UNCHANGED <<state, current>> /\ procQ' = pq
  BY <1>2
<1>3. ASSUME NEW pri \in Priorities,
             procQ' = proc_q_dequeue(pq, pri),
             state' = [state EXCEPT ![current] = ns, ![Head(pq[pri])] = "EXECUTING"]
      PROVE  /\ procQ'[BLOCKED_QUEUE] = pq[BLOCKED_QUEUE]
             /\ \A p \in UserProcs \ {current} : state'[p] \in {state[p], "EXECUTING"}
             /\ state'[current] \in {state[current], ns, "EXECUTING"}
  <2>1. pri # BLOCKED_QUEUE
    BY PrioritiesValid DEF Priorities, BLOCKED_QUEUE
  <2>2. procQ'[BLOCKED_QUEUE] = pq[BLOCKED_QUEUE]
    BY <2>1, <1>3 DEF proc_q_dequeue
  <2> QED BY <2>2, <1>1, <1>3
<1> QED BY <1>2, <1>3 DEF k_process_switch

(* What a message sent does to the states and to BLOCKED_QUEUE. *)
LEMMA SendStates ==
  ASSUME TypeOK, ProcessRoles, NEW eq \in EnvQueueTables, NEW from, NEW dest \in Procs, NEW e,
         k_send_message(eq, from, dest, e)
  PROVE  /\ procQ'[BLOCKED_QUEUE] = procQ[BLOCKED_QUEUE]
         /\ envQ'[FREE_ENV_QUEUE] = eq[FREE_ENV_QUEUE]
         /\ \A p \in UserProcs : state'[p] \in {state[p], "READY"}
<1> USE Names
<1>1. /\ state \in [Procs -> ProcessState]
      /\ procQ \in [ProcQueues -> Seq(UserProcs)] /\ BLOCKED_QUEUE \in ProcQueues
  BY PrioritiesValid DEF TypeOK, ProcQueues, BLOCKED_QUEUE
<1>2. envQ'[FREE_ENV_QUEUE] = eq[FREE_ENV_QUEUE]
  BY DEF k_send_message, MsgEnvQ_enqueue, EnvQueueTables
<1>3. CASE state[dest] = "BLOCKED_ON_RCV"
  <2>1. /\ state' = [state EXCEPT ![dest] = "READY"]
        /\ procQ' = proc_q_enqueue(procQ, Priority[dest], dest)
    BY <1>3 DEF k_send_message, proc_pq_enqueue
  <2>2. dest \in UserProcs
    BY <1>3 DEF ProcessRoles
  <2>3. Priority[dest] # BLOCKED_QUEUE
    BY <2>2, PrioritiesValid DEF Priorities, BLOCKED_QUEUE
  <2> QED BY <2>1, <2>3, <1>1, <1>2 DEF proc_q_enqueue
<1>4. CASE state[dest] # "BLOCKED_ON_RCV"
  <2>1. state' = state /\ procQ' = procQ
    BY <1>4 DEF k_send_message
  <2> QED BY <2>1, <1>2
<1> QED BY <1>3, <1>4

(* More woken processes never strand an envelope. *)
LEMMA Undisturbed ==
  ASSUME StrandedInv,
         procQ'[BLOCKED_QUEUE] = procQ[BLOCKED_QUEUE],
         envQ'[FREE_ENV_QUEUE] = envQ[FREE_ENV_QUEUE],
         envQ[FREE_ENV_QUEUE] \in Seq(Envelopes),
         \A p \in UserProcs : call[p] = "request" =>
           call'[p] = "request" /\ state'[p] \in {state[p], "READY", "EXECUTING"},
         \A p \in UserProcs : state'[p] = "BLOCKED_ON_ENV_REQUEST" =>
                                state[p] = "BLOCKED_ON_ENV_REQUEST"
  PROVE  StrandedInv'
<1>1. RequestersWait'
  BY DEF StrandedInv, RequestersWait
<1>2. Woken \subseteq Woken' /\ IsFiniteSet(Woken')
  <2>1. Woken \subseteq Woken'
    BY DEF Woken
  <2>2. Woken' \subseteq UserProcs /\ IsFiniteSet(UserProcs)
    BY FiniteTables, FS_AddElement DEF Woken, UserProcs
  <2> QED BY <2>1, <2>2, FS_Subset
<1>3. /\ Cardinality(Woken) <= Cardinality(Woken')
      /\ Cardinality(Woken) \in Nat /\ Cardinality(Woken') \in Nat
  BY <1>2, FS_Subset, FS_CardinalityType
<1>4. Len(envQ[FREE_ENV_QUEUE]) \in Nat
  BY LenProperties
<1> QED BY <1>1, <1>3, <1>4 DEF StrandedInv, NoStrandedEnvelope

(* A process takes a free envelope: if it was woken for one, this is the one. *)
LEMMA RequestNotStranded ==
  ASSUME KernelInv, StrandedInv, RequestMsgEnv
  PROVE  StrandedInv'
<1> USE Names
<1> DEFINE f == envQ[FREE_ENV_QUEUE]
<1>1. /\ current \in UserProcs /\ state[current] = "EXECUTING"
      /\ f # <<>> /\ f \in Seq(Envelopes)
      /\ envQ' = MsgEnvQ_dequeue(envQ, FREE_ENV_QUEUE)
      /\ call' = [call EXCEPT ![current] = "none"]
      /\ UNCHANGED <<procQ, state, current>>
  BY Basics DEF RequestMsgEnv, In, EnvQueueTables
<1>2. Len(f) \in Nat /\ Len(envQ'[FREE_ENV_QUEUE]) = Len(f) - 1
  <2>1. Len(f) \in Nat /\ Len(Tail(f)) = Len(f) - 1
    BY <1>1, HeadTailProperties, LenProperties
  <2>2. envQ'[FREE_ENV_QUEUE] = Tail(f)
    BY <1>1, Basics DEF MsgEnvQ_dequeue, EnvQueueTables
  <2> QED BY <2>1, <2>2
<1>3. call \in [UserProcs -> {"none", "receive", "request"}]
  BY Basics DEF TypeOK
<1>4. RequestersWait'
  BY <1>1, <1>3 DEF StrandedInv, RequestersWait
<1>5. Woken' = Woken \ {current}
  BY <1>1, <1>3 DEF Woken
<1>6. /\ Cardinality(Woken) \in Nat /\ Cardinality(Woken') \in Nat
      /\ Cardinality(Woken) - 1 <= Cardinality(Woken')
  <2>1. Woken \subseteq UserProcs /\ IsFiniteSet(UserProcs)
    BY FiniteTables, FS_AddElement DEF Woken, UserProcs
  <2>2. IsFiniteSet(Woken)
    BY <2>1, FS_Subset
  <2>3. /\ IsFiniteSet(Woken \ {current})
        /\ Cardinality(Woken \ {current})
             = IF current \in Woken THEN Cardinality(Woken) - 1 ELSE Cardinality(Woken)
    BY <2>2, FS_RemoveElement
  <2>4. Cardinality(Woken) \in Nat /\ Cardinality(Woken \ {current}) \in Nat
    BY <2>2, <2>3, FS_CardinalityType
  <2> QED BY <1>5, <2>3, <2>4
<1> QED BY <1>1, <1>2, <1>4, <1>6 DEF StrandedInv, NoStrandedEnvelope

(* A process finds no free envelope: none is stranded. *)
LEMMA RequestBlocksNotStranded ==
  ASSUME KernelInv, StrandedInv, RequestBlocks
  PROVE  StrandedInv'
<1> USE Names
<1> DEFINE pq == proc_q_enqueue(procQ, BLOCKED_QUEUE, current)
<1>1. /\ current \in UserProcs
      /\ envQ[FREE_ENV_QUEUE] = <<>> /\ envQ' = envQ
      /\ k_process_switch(pq, "BLOCKED_ON_ENV_REQUEST")
      /\ call' = [call EXCEPT ![current] = "request"]
      /\ call \in [UserProcs -> {"none", "receive", "request"}]
  BY Basics DEF RequestBlocks, In, TypeOK
<1>2. BLOCKED_QUEUE \in DOMAIN pq
  BY Basics, PrioritiesValid DEF TypeOK, proc_q_enqueue, ProcQueues, BLOCKED_QUEUE
<1>3. \A p \in UserProcs \ {current} : state'[p] \in {state[p], "EXECUTING"}
  <2> HIDE DEF pq
  <2> QED BY <1>1, <1>2, SwitchStates, Basics
<1>4. RequestersWait'
  BY <1>1, <1>3 DEF StrandedInv, RequestersWait
<1>5. Cardinality(Woken') \in Nat
  <2>1. Woken' \subseteq UserProcs /\ IsFiniteSet(UserProcs)
    BY FiniteTables, FS_AddElement DEF Woken, UserProcs
  <2> QED BY <2>1, FS_Subset, FS_CardinalityType
<1>6. Len(envQ'[FREE_ENV_QUEUE]) = 0
  BY <1>1, LenProperties, EmptySeq
<1> QED BY <1>4, <1>5, <1>6 DEF StrandedInv, NoStrandedEnvelope

(* An envelope comes back: the process it wakes is inside k_request_msg_env. *)
LEMMA ReleaseNotStranded ==
  ASSUME KernelInv, StrandedInv, NEW e \in Envelopes, ReleaseMsgEnv(e)
  PROVE  StrandedInv'
<1> USE Names
<1> DEFINE f == envQ[FREE_ENV_QUEUE]
           p == Head(procQ[BLOCKED_QUEUE])
           pq == proc_q_dequeue(procQ, BLOCKED_QUEUE)
<1>1. /\ f \in Seq(Envelopes)
      /\ procQ \in [ProcQueues -> Seq(UserProcs)] /\ BLOCKED_QUEUE \in ProcQueues
      /\ state \in [Procs -> ProcessState] /\ QueuesMatch(procQ, state)
      /\ envQ' = MsgEnvQ_enqueue(envQ, FREE_ENV_QUEUE, e)
      /\ call' = call
  BY Basics, PrioritiesValid
  DEF ReleaseMsgEnv, EnvQueueTables, TypeOK, SchedulerConsistent, ProcQueues, BLOCKED_QUEUE
<1>2. CASE procQ[BLOCKED_QUEUE] = <<>>
  <2>1. procQ' = procQ /\ state' = state
    BY <1>2 DEF ReleaseMsgEnv
  <2> QED BY <1>1, <1>2, <2>1 DEF StrandedInv, RequestersWait, NoStrandedEnvelope
<1>3. CASE procQ[BLOCKED_QUEUE] # <<>>
  <2>1. /\ state' = [state EXCEPT ![p] = "READY"]
        /\ procQ' = proc_q_enqueue(pq, Priority[p], p)
    BY <1>3 DEF ReleaseMsgEnv, proc_pq_enqueue
  <2>2. p \in UserProcs /\ BelongsOn(state[p], p, BLOCKED_QUEUE)
    <3>1. procQ[BLOCKED_QUEUE] \in Seq(UserProcs)
      BY <1>1
    <3>2. p \in UserProcs /\ p \in Range(procQ[BLOCKED_QUEUE])
      BY <1>3, <3>1, Dequeued
    <3> QED BY <1>1, <3>2 DEF QueuesMatch
  <2>3. state[p] = "BLOCKED_ON_ENV_REQUEST"
    BY <2>2, PrioritiesValid DEF BelongsOn, Priorities, BLOCKED_QUEUE
  <2>4. call[p] = "request"
    BY <2>2, <2>3 DEF StrandedInv, RequestersWait
  <2> HIDE DEF p
  <2>5. \A x \in UserProcs : state'[x] = IF x = p THEN "READY" ELSE state[x]
    BY <1>1, <2>1
  <2>6. p \notin Woken /\ Woken' = Woken \cup {p}
    BY <1>1, <2>2, <2>3, <2>4, <2>5 DEF Woken
  <2>7. /\ Cardinality(Woken) \in Nat
        /\ Cardinality(Woken') = Cardinality(Woken) + 1
    <3>1. Woken \subseteq UserProcs /\ IsFiniteSet(UserProcs)
      BY FiniteTables, FS_AddElement DEF Woken, UserProcs
    <3>2. IsFiniteSet(Woken)
      BY <3>1, FS_Subset
    <3> QED BY <2>6, <3>2, FS_CardinalityType, FS_AddElement
  <2>8. Len(f) \in Nat /\ Len(envQ'[FREE_ENV_QUEUE]) = Len(f) + 1
    <3>1. Len(f) \in Nat /\ Len(Append(f, e)) = Len(f) + 1
      BY <1>1, AppendProperties, LenProperties
    <3>2. envQ'[FREE_ENV_QUEUE] = Append(f, e)
      BY <1>1, Basics DEF MsgEnvQ_enqueue, EnvQueueTables
    <3> QED BY <3>1, <3>2
  <2>9. RequestersWait'
    BY <1>1, <2>5 DEF StrandedInv, RequestersWait
  <2> QED BY <1>3, <2>7, <2>8, <2>9 DEF StrandedInv, NoStrandedEnvelope
<1> QED BY <1>2, <1>3

LEMMA NextStrandedInv == KernelInv /\ StrandedInv /\ [Next]_vars => StrandedInv'
<1> SUFFICES ASSUME KernelInv, StrandedInv, [Next]_vars PROVE StrandedInv'
  OBVIOUS
<1> USE Names
<1>1. /\ envQ[FREE_ENV_QUEUE] \in Seq(Envelopes) /\ envQ \in EnvQueueTables
      /\ TypeOK /\ ProcessRoles /\ current \in UserProcs /\ state[current] = "EXECUTING"
      /\ call \in [UserProcs -> {"none", "receive", "request"}]
  BY Basics DEF TypeOK, EnvQueueTables
<1>2. BLOCKED_QUEUE \in ProcQueues /\ \A p \in UserProcs : Priority[p] # BLOCKED_QUEUE
  BY PrioritiesValid DEF Priorities, ProcQueues, BLOCKED_QUEUE
<1>3. CASE UNCHANGED <<procQ, state, call>> /\ envQ'[FREE_ENV_QUEUE] = envQ[FREE_ENV_QUEUE]
  BY <1>1, <1>3, Undisturbed
<1>4. ASSUME NEW eq \in EnvQueueTables, NEW from, NEW dest \in Procs, NEW e,
             k_send_message(eq, from, dest, e),
             call' = call, eq[FREE_ENV_QUEUE] = envQ[FREE_ENV_QUEUE]
      PROVE  StrandedInv'
  <2>1. /\ procQ'[BLOCKED_QUEUE] = procQ[BLOCKED_QUEUE]
        /\ envQ'[FREE_ENV_QUEUE] = envQ[FREE_ENV_QUEUE]
        /\ \A p \in UserProcs : state'[p] \in {state[p], "READY"}
    BY <1>1, <1>4, SendStates
  <2> QED BY <1>1, <1>4, <2>1, Undisturbed
<1>5. CASE RequestMsgEnv
  BY <1>5, RequestNotStranded
<1>6. CASE RequestBlocks
  BY <1>6, RequestBlocksNotStranded
<1>7. CASE \E e \in Envelopes : ReleaseMsgEnv(e)
  BY <1>7, ReleaseNotStranded
<1>8. CASE \E dest \in Clients, e \in Envelopes : SendMessage(dest, e)
  BY <1>1, <1>4, <1>8 DEF SendMessage
<1>9. CASE \E e \in Envelopes : SetType(e)
  BY <1>3, <1>9 DEF SetType
<1>10. CASE ReceiveMessage
  <2>1. /\ current \in Clients /\ call[current] # "request"
        /\ envQ'[FREE_ENV_QUEUE] = envQ[FREE_ENV_QUEUE]
        /\ call' = [call EXCEPT ![current] = "none"]
        /\ UNCHANGED <<procQ, state>>
    BY <1>1, <1>10 DEF ReceiveMessage, In, MsgEnvQ_dequeue, EnvQueueTables
  <2>2. \A p \in UserProcs : call[p] = "request" => call'[p] = "request"
    BY <1>1, <2>1
  <2> QED BY <1>1, <2>1, <2>2, Undisturbed
<1>11. CASE ReceiveBlocks
  <2>1. /\ call[current] # "request"
        /\ envQ' = envQ
        /\ call' = [call EXCEPT ![current] = "receive"]
        /\ k_process_switch(procQ, "BLOCKED_ON_RCV")
    BY <1>1, <1>11 DEF ReceiveBlocks, In
  <2>2. /\ procQ'[BLOCKED_QUEUE] = procQ[BLOCKED_QUEUE]
        /\ \A p \in UserProcs \ {current} : state'[p] \in {state[p], "EXECUTING"}
        /\ state'[current] \in {state[current], "BLOCKED_ON_RCV", "EXECUTING"}
    BY <1>1, <1>2, <2>1, SwitchStates DEF TypeOK
  <2>3. \A p \in UserProcs : call[p] = "request" => p # current /\ call'[p] = "request"
    BY <1>1, <2>1
  <2> QED BY <1>1, <2>1, <2>2, <2>3, Undisturbed
<1>12. CASE ReleaseProcessor
  <2> DEFINE pq == proc_pq_enqueue(procQ, current)
  <2>1. /\ call[current] # "request" /\ call' = call /\ envQ' = envQ
        /\ k_process_switch(pq, "READY")
    BY <1>12 DEF ReleaseProcessor
  <2>2. BLOCKED_QUEUE \in DOMAIN pq /\ pq[BLOCKED_QUEUE] = procQ[BLOCKED_QUEUE]
    BY <1>1, <1>2 DEF TypeOK, proc_pq_enqueue, proc_q_enqueue
  <2> HIDE DEF pq
  <2>3. /\ procQ'[BLOCKED_QUEUE] = procQ[BLOCKED_QUEUE]
        /\ \A p \in UserProcs \ {current} : state'[p] \in {state[p], "EXECUTING"}
        /\ state'[current] \in {state[current], "READY", "EXECUTING"}
    BY <1>1, <2>1, <2>2, SwitchStates
  <2> QED BY <1>1, <2>1, <2>3, Undisturbed
<1>13. CASE \E e \in Envelopes : SendConsoleChars(e)
  <2>1. UNCHANGED <<procQ, state, call>> /\ envQ'[FREE_ENV_QUEUE] = envQ[FREE_ENV_QUEUE]
    BY <1>1, <1>13 DEF SendConsoleChars, MsgEnvQ_enqueue, MsgEnvQ_dequeue, EnvQueueTables
  <2> QED BY <1>3, <2>1
<1>14. CASE \E e \in Envelopes : GetConsoleChars(e)
  BY <1>1, <1>4, <1>14 DEF GetConsoleChars
<1>15. CASE \E e \in Envelopes : RequestDelay(e)
  BY <1>1, <1>4, <1>15 DEF RequestDelay
<1>16. ASSUME NEW q \in {DISPLAYQ, KB}, envQ[q] # <<>>, NEW from, call' = call,
              k_send_message(MsgEnvQ_dequeue(envQ, q), from,
                             sender_pid[Head(envQ[q])], Head(envQ[q]))
       PROVE  StrandedInv'
  <2> DEFINE eq == MsgEnvQ_dequeue(envQ, q)
             d == sender_pid[Head(envQ[q])]
  <2>1. eq \in EnvQueueTables /\ Head(envQ[q]) \in Range(envQ[q])
        /\ eq[FREE_ENV_QUEUE] = envQ[FREE_ENV_QUEUE]
    BY <1>16, Basics, TableDequeue
  <2>2. d \in Procs
    BY <2>1, Basics DEF ServiceRequestsValid, InService
  <2> HIDE DEF eq, d
  <2>3. k_send_message(eq, from, d, Head(envQ[q]))
    BY <1>16 DEF eq, d
  <2> QED BY <1>4, <1>16, <2>1, <2>2, <2>3
<1>17. CASE crt_i_proc
  BY <1>16, <1>17 DEF crt_i_proc
<1>18. CASE kbd_i_proc
  BY <1>16, <1>18 DEF kbd_i_proc
<1>19. CASE timer_i_proc_idle
  <2>1. envQ'[FREE_ENV_QUEUE] = envQ[FREE_ENV_QUEUE]
    BY <1>19, Ticked DEF timer_i_proc_idle
  <2> QED BY <1>3, <1>19, <2>1 DEF timer_i_proc_idle
<1>20. CASE \E e \in Envelopes : timer_i_proc(e)
  <2>1. PICK e \in Envelopes : timer_i_proc(e)
    BY <1>20
  <2>2. /\ AfterDrain \in EnvQueueTables /\ AfterDrain[FREE_ENV_QUEUE] = envQ[FREE_ENV_QUEUE]
        /\ e \in InService
    BY <2>1, Ticked DEF timer_i_proc
  <2>3. sender_pid[e] \in Procs
    BY <2>2, Basics DEF ServiceRequestsValid
  <2> QED BY <1>4, <2>1, <2>2, <2>3 DEF timer_i_proc
<1>21. CASE UNCHANGED vars
  BY <1>3, <1>21 DEF vars
<1> QED
  BY <1>5, <1>6, <1>7, <1>8, <1>9, <1>10, <1>11, <1>12, <1>13, <1>14, <1>15, <1>17, <1>18,
     <1>19, <1>20, <1>21 DEF Next

(* While a process waits in k_request_msg_env, each free envelope has a woken process on
   its way to it, whatever the number of processes and envelopes. *)
THEOREM EnvelopesNotStranded == Spec => []NoStrandedEnvelope
<1>1. Init => StrandedInv
  <2> SUFFICES ASSUME Init PROVE StrandedInv
    OBVIOUS
  <2>1. \A p \in UserProcs : state[p] \in {"READY", "EXECUTING"}
    BY Names DEF Init
  <2>2. procQ[BLOCKED_QUEUE] = <<>>
    <3>1. /\ BLOCKED_QUEUE \in ProcQueues
          /\ procQ[BLOCKED_QUEUE] \in Seq(UserProcs)
          /\ \A p \in UserProcs : ~ BelongsOn(state[p], p, BLOCKED_QUEUE)
      BY <2>1, InitKernelInv, PrioritiesValid
      DEF KernelInv, TypeOK, BelongsOn, ProcQueues, Priorities, BLOCKED_QUEUE
    <3>2. Range(procQ[BLOCKED_QUEUE]) \subseteq UserProcs
      BY <3>1, ElementOfSeq DEF Range
    <3>3. Range(procQ[BLOCKED_QUEUE]) = {}
      BY <3>1, <3>2, InitKernelInv DEF KernelInv, SchedulerConsistent, QueuesMatch
    <3> QED BY <3>1, <3>3, EmptyQueue
  <2> QED BY <2>1, <2>2 DEF StrandedInv, RequestersWait, NoStrandedEnvelope
<1>2. KernelInv /\ StrandedInv /\ [Next]_vars => StrandedInv'
  BY NextStrandedInv
<1>3. StrandedInv => NoStrandedEnvelope
  BY DEF StrandedInv
<1> QED BY <1>1, <1>2, <1>3, Invariance, PTL DEF Spec

-----------------------------------------------------------------------------
(* The kernel implements EnvelopeOwnership. *)

(* Whose an envelope is can be told from any place it is found in. *)
OwnersKnown ==
  /\ \A e \in Range(envQ[FREE_ENV_QUEUE]) : OwnerOf(e) = Ownership!Free
  /\ \A p \in UserProcs, e \in Envelopes :
       /\ e \in held[p] => OwnerOf(e) = Ownership!Held(p)
       /\ e \in Range(envQ[p]) => OwnerOf(e) = Ownership!Mail(p)
  /\ \A e \in InService : OwnerOf(e) = Ownership!Service(sender_pid[e])
  /\ \A e \in Envelopes : \/ e \in Range(envQ[FREE_ENV_QUEUE]) \/ e \in InService
                          \/ \E p \in UserProcs : e \in held[p] \/ e \in Range(envQ[p])

LEMMA Owners == KernelInv => OwnersKnown
<1> SUFFICES ASSUME KernelInv PROVE OwnersKnown
  OBVIOUS
<1> USE Names
<1>1. /\ \A q1, q2 \in EnvQueues : q1 # q2 => Range(envQ[q1]) \cap Range(envQ[q2]) = {}
      /\ \A p1, p2 \in UserProcs : p1 # p2 => held[p1] \cap held[p2] = {}
      /\ \A q \in EnvQueues, p \in UserProcs : Range(envQ[q]) \cap held[p] = {}
      /\ \A q \in EnvQueues : Range(envQ[q]) \cap timing = {}
      /\ \A p \in UserProcs : held[p] \cap timing = {}
      /\ \A e \in Envelopes : \/ e \in timing
                              \/ \E q \in EnvQueues : e \in Range(envQ[q])
                              \/ \E p \in UserProcs : e \in held[p]
  BY Basics DEF Conserved
<1>2. \A e \in Range(envQ[FREE_ENV_QUEUE]) : OwnerOf(e) = Ownership!Free
  BY DEF OwnerOf, Ownership!Free
<1>3. ASSUME NEW p \in UserProcs, NEW e \in held[p]
      PROVE  OwnerOf(e) = Ownership!Held(p)
  <2>1. e \notin Range(envQ[FREE_ENV_QUEUE])
    BY <1>1
  <2>2. (CHOOSE x \in UserProcs : e \in held[x]) = p
    BY <1>1
  <2> QED BY <2>1, <2>2 DEF OwnerOf, Ownership!Held
<1>4. ASSUME NEW p \in UserProcs, NEW e \in Range(envQ[p])
      PROVE  OwnerOf(e) = Ownership!Mail(p)
  <2>1. e \notin Range(envQ[FREE_ENV_QUEUE]) /\ \A x \in UserProcs : e \notin held[x]
    BY <1>1
  <2>2. \A x \in UserProcs : e \in Range(envQ[x]) => x = p
    BY <1>1
  <2>3. (CHOOSE x \in UserProcs : e \in Range(envQ[x])) = p
    BY <2>2
  <2> QED BY <2>1, <2>3 DEF OwnerOf, Ownership!Mail
<1>5. ASSUME NEW e \in InService
      PROVE  OwnerOf(e) = Ownership!Service(sender_pid[e])
  <2>1. /\ e \notin Range(envQ[FREE_ENV_QUEUE])
        /\ \A x \in UserProcs : e \notin held[x] /\ e \notin Range(envQ[x])
    BY <1>1 DEF InService
  <2> QED BY <2>1 DEF OwnerOf, Ownership!Service
<1>6. \A e \in Envelopes : \/ e \in Range(envQ[FREE_ENV_QUEUE]) \/ e \in InService
                           \/ \E p \in UserProcs : e \in held[p] \/ e \in Range(envQ[p])
  <2>1. Range(envQ[CRT]) = {}
    BY Basics, EmptyQueue DEF ServiceRequestsValid
  <2>2. EnvQueues = UserProcs \cup {KB, CRT, TIMER} \cup {FREE_ENV_QUEUE, DISPLAYQ}
    BY DEF EnvQueues
  <2> QED BY <1>1, <2>1, <2>2 DEF InService
<1> QED BY <1>2, <1>3, <1>4, <1>5, <1>6 DEF OwnersKnown

LEMMA OwnersNext == KernelInv' => OwnersKnown'
BY Owners, PTL

(* An envelope that a step leaves where it is. *)
Stays(f) ==
  /\ f \in Range(envQ[FREE_ENV_QUEUE]) => f \in Range(envQ[FREE_ENV_QUEUE])'
  /\ \A p \in UserProcs : /\ f \in held[p] => f \in held'[p]
                          /\ f \in Range(envQ[p]) => f \in Range(envQ[p])'
  /\ f \in InService => f \in InService' /\ sender_pid'[f] = sender_pid[f]

LEMMA StaysOwned ==
  ASSUME KernelInv, KernelInv', NEW f \in Envelopes, Stays(f)
  PROVE  OwnerOf(f)' = OwnerOf(f)
<1>1. OwnersKnown /\ OwnersKnown'
  BY Owners, OwnersNext
<1>2. CASE f \in Range(envQ[FREE_ENV_QUEUE])
  <2>1. OwnerOf(f) = Ownership!Free
    BY <1>1, <1>2 DEF OwnersKnown
  <2>2. OwnerOf(f)' = Ownership!Free
    BY <1>1, <1>2 DEF OwnersKnown, Stays, Ownership!Free
  <2> QED BY <2>1, <2>2
<1>3. ASSUME NEW p \in UserProcs, f \in held[p] PROVE OwnerOf(f)' = OwnerOf(f)
  <2>1. OwnerOf(f) = Ownership!Held(p)
    BY <1>1, <1>3 DEF OwnersKnown
  <2>2. OwnerOf(f)' = Ownership!Held(p)
    BY <1>1, <1>3 DEF OwnersKnown, Stays, Ownership!Held
  <2> QED BY <2>1, <2>2
<1>4. ASSUME NEW p \in UserProcs, f \in Range(envQ[p]) PROVE OwnerOf(f)' = OwnerOf(f)
  <2>1. OwnerOf(f) = Ownership!Mail(p)
    BY <1>1, <1>4 DEF OwnersKnown
  <2>2. OwnerOf(f)' = Ownership!Mail(p)
    BY <1>1, <1>4 DEF OwnersKnown, Stays, Ownership!Mail
  <2> QED BY <2>1, <2>2
<1>5. CASE f \in InService
  <2>1. OwnerOf(f) = Ownership!Service(sender_pid[f])
    BY <1>1, <1>5 DEF OwnersKnown
  <2>2. OwnerOf(f)' = Ownership!Service(sender_pid'[f])
    BY <1>1, <1>5 DEF OwnersKnown, Stays, Ownership!Service
  <2>3. sender_pid'[f] = sender_pid[f]
    BY <1>5 DEF Stays
  <2> QED BY <2>1, <2>2, <2>3
<1> QED BY <1>1, <1>2, <1>3, <1>4, <1>5 DEF OwnersKnown

(* A step that moves at most one envelope, by one of the transfers, is a step of
   EnvelopeOwnership. *)
Owner == [e \in Envelopes |-> OwnerOf(e)]

Transfers(from, to) ==
  \E p \in Clients :
    \/ from = Ownership!Free /\ to = Ownership!Held(p)
    \/ from = Ownership!Held(p) /\ to = Ownership!Free
    \/ from = Ownership!Mail(p) /\ to = Ownership!Held(p)
    \/ from = Ownership!Held(p) /\ to = Ownership!Service(p)
    \/ from = Ownership!Service(p) /\ to = Ownership!Mail(p)
    \/ from = Ownership!Held(p) /\ \E d \in Clients : to = Ownership!Mail(d)

LEMMA OneTransfer ==
  ASSUME KernelInv, KernelInv', NEW e \in Envelopes,
         \A f \in Envelopes \ {e} : Stays(f),
         Transfers(OwnerOf(e), OwnerOf(e)')
  PROVE  [Ownership!Next]_Owner
<1>1. \A f \in Envelopes \ {e} : OwnerOf(f)' = OwnerOf(f)
  BY StaysOwned
<1>2. Owner' = [Owner EXCEPT ![e] = OwnerOf(e)']
  BY <1>1 DEF Owner
<1>3. Ownership!Transfer(e, OwnerOf(e), OwnerOf(e)')
  BY <1>2 DEF Ownership!Transfer, Owner
<1>4. \E p \in Clients :
        \/ Ownership!Request(e, p) \/ Ownership!Release(e, p) \/ Ownership!Receive(e, p)
        \/ Ownership!Submit(e, p) \/ Ownership!Return(e, p)
        \/ \E d \in Clients : Ownership!Send(e, p, d)
  BY <1>3 DEF Transfers, Ownership!Request, Ownership!Release, Ownership!Receive,
              Ownership!Submit, Ownership!Return, Ownership!Send
<1> QED BY <1>4 DEF Ownership!Next, Owner

LEMMA NoTransfer ==
  ASSUME KernelInv, KernelInv', \A f \in Envelopes : Stays(f)
  PROVE  [Ownership!Next]_Owner
<1>1. \A f \in Envelopes : OwnerOf(f)' = OwnerOf(f)
  BY StaysOwned
<1> QED BY <1>1 DEF Owner

(* The running process takes an envelope from a queue. *)
LEMMA TakesOwned ==
  ASSUME KernelInv, KernelInv', NEW q \in {FREE_ENV_QUEUE, current}, current \in Clients,
         envQ[q] # <<>>,
         envQ' = MsgEnvQ_dequeue(envQ, q),
         held' = [held EXCEPT ![current] = @ \cup {Head(envQ[q])}],
         timing' = timing,
         \A f \in Envelopes \ {Head(envQ[q])} : sender_pid'[f] = sender_pid[f]
  PROVE  [Ownership!Next]_Owner
<1> USE Names
<1>1. OwnersKnown /\ OwnersKnown'
  BY Owners, OwnersNext
<1>2. /\ q \in EnvQueues
      /\ Head(envQ[q]) \in Envelopes /\ Head(envQ[q]) \in Range(envQ[q])
      /\ \A r \in EnvQueues \ {q} : envQ'[r] = envQ[r]
      /\ Range(envQ'[q]) = Range(envQ[q]) \ {Head(envQ[q])}
  BY Basics, TableDequeue
<1>3. PICK e \in Envelopes : e = Head(envQ[q])
  BY <1>2
<1>4. /\ \A p \in UserProcs : held'[p] = IF p = current THEN held[p] \cup {e} ELSE held[p]
      /\ \A f \in Envelopes \ {e} : sender_pid'[f] = sender_pid[f]
      /\ e \in Range(envQ[q]) /\ Range(envQ'[q]) = Range(envQ[q]) \ {e}
      /\ q \notin {DISPLAYQ, KB, TIMER}
      /\ current \in UserProcs /\ e \in held'[current]
  BY <1>2, <1>3, Basics DEF TypeOK
<1>5. ASSUME NEW f \in Envelopes \ {e} PROVE Stays(f)
  <2>1. /\ f \in Range(envQ[FREE_ENV_QUEUE]) => f \in Range(envQ'[FREE_ENV_QUEUE])
        /\ \A p \in UserProcs : /\ f \in held[p] => f \in held'[p]
                                /\ f \in Range(envQ[p]) => f \in Range(envQ'[p])
    BY <1>2, <1>4
  <2>2. InService' = InService
    BY <1>2, <1>4 DEF InService
  <2> QED BY <2>1, <2>2, <1>4 DEF Stays
<1>6. OwnerOf(e)' = Ownership!Held(current)
  <2>1. \A p \in UserProcs : e \in held'[p] => OwnerOf(e)' = Ownership!Held(p)
    BY <1>1 DEF OwnersKnown, Ownership!Held
  <2> QED BY <1>4, <2>1
<1>7. OwnerOf(e) \in {Ownership!Free, Ownership!Mail(current)}
  BY <1>1, <1>4 DEF OwnersKnown
<1>8. Transfers(OwnerOf(e), OwnerOf(e)')
  BY <1>6, <1>7 DEF Transfers
<1> QED BY <1>5, <1>8, OneTransfer

(* The running process puts an envelope on a queue. *)
LEMMA GivesOwned ==
  ASSUME KernelInv, KernelInv', NEW e \in Envelopes, current \in Clients, e \in held[current],
         NEW q \in {FREE_ENV_QUEUE, DISPLAYQ, KB, TIMER} \cup Clients,
         held' = [held EXCEPT ![current] = @ \ {e}],
         \A r \in EnvQueues \ {q} : envQ'[r] = envQ[r],
         Range(envQ'[q]) = Range(envQ[q]) \cup {e},
         timing' = timing,
         q # FREE_ENV_QUEUE => sender_pid'[e] = current,
         \A f \in Envelopes \ {e} : sender_pid'[f] = sender_pid[f]
  PROVE  [Ownership!Next]_Owner
<1> USE Names
<1>1. OwnersKnown /\ OwnersKnown'
  BY Owners, OwnersNext
<1>2. q \in EnvQueues /\ e \in Range(envQ'[q]) /\ held \in [UserProcs -> SUBSET Envelopes]
  BY Basics DEF TypeOK
<1>3. ASSUME NEW f \in Envelopes \ {e} PROVE Stays(f)
  <2>1. /\ f \in Range(envQ[FREE_ENV_QUEUE]) => f \in Range(envQ'[FREE_ENV_QUEUE])
        /\ \A p \in UserProcs : /\ f \in held[p] => f \in held'[p]
                                /\ f \in Range(envQ[p]) => f \in Range(envQ'[p])
        /\ \A r \in {DISPLAYQ, KB, TIMER} : f \in Range(envQ[r]) => f \in Range(envQ'[r])
    BY <1>2
  <2>2. f \in InService => f \in InService'
    BY <2>1 DEF InService
  <2> QED BY <2>1, <2>2 DEF Stays
<1>4. OwnerOf(e) = Ownership!Held(current)
  BY <1>1, <1>2 DEF OwnersKnown
<1>5. OwnerOf(e)' \in {Ownership!Free, Ownership!Service(current)}
                        \cup {Ownership!Mail(d) : d \in Clients}
  <2>1. CASE q = FREE_ENV_QUEUE
    BY <1>1, <1>2, <2>1 DEF OwnersKnown, Ownership!Free
  <2>2. CASE q \in Clients
    BY <1>1, <1>2, <2>2 DEF OwnersKnown, Ownership!Mail
  <2>3. CASE q \in {DISPLAYQ, KB, TIMER}
    <3>1. e \in InService'
      BY <1>2, <2>3 DEF InService
    <3>2. q # FREE_ENV_QUEUE
      BY <2>3
    <3>3. OwnerOf(e)' = Ownership!Service(current)
      BY <1>1, <3>1, <3>2 DEF OwnersKnown, Ownership!Service
    <3> QED BY <3>3
  <2> QED BY <2>1, <2>2, <2>3
<1>6. Transfers(OwnerOf(e), OwnerOf(e)')
  BY <1>4, <1>5 DEF Transfers
<1> QED BY <1>3, <1>6, OneTransfer

(* An i-process returns an envelope to the mailbox of the process that handed it in. *)
LEMMA ReturnsOwned ==
  ASSUME KernelInv, KernelInv', NEW e \in InService, NEW eq \in EnvQueueTables,
         \A q \in UserProcs \cup {FREE_ENV_QUEUE} : eq[q] = envQ[q],
         NEW from, k_send_message(eq, from, sender_pid[e], e),
         held' = held, InService \subseteq InService' \cup {e}
  PROVE  [Ownership!Next]_Owner
<1>1. OwnersKnown /\ OwnersKnown'
  BY Owners, OwnersNext
<1>2. /\ sender_pid[e] \in Clients /\ e \in Envelopes
      /\ sender_pid \in [Envelopes -> Procs \cup {NoPid}]
  BY Basics, Names DEF ServiceRequestsValid, InService, TypeOK
<1>3. PICK d \in Clients : d = sender_pid[e]
  BY <1>2
<1>4. /\ envQ' = MsgEnvQ_enqueue(eq, d, e)
      /\ sender_pid' = [sender_pid EXCEPT ![e] = from]
      /\ OwnerOf(e) = Ownership!Service(d)
      /\ d \in EnvQueues
  BY <1>1, <1>3, Names DEF k_send_message, OwnersKnown
<1>5. /\ \A r \in EnvQueues \ {d} : envQ'[r] = eq[r]
      /\ Range(envQ'[d]) = Range(eq[d]) \cup {e}
  <2>1. eq[d] \in Seq(Envelopes) /\ eq \in [EnvQueues -> Seq(Envelopes)]
    BY <1>4 DEF EnvQueueTables
  <2>2. Range(Append(eq[d], e)) = Range(eq[d]) \cup {e}
    BY <1>2, <2>1, Enqueued
  <2>3. envQ' = [eq EXCEPT ![d] = Append(eq[d], e)]
    BY <1>4 DEF MsgEnvQ_enqueue
  <2> QED BY <1>4, <2>1, <2>2, <2>3
<1>6. ASSUME NEW f \in Envelopes \ {e} PROVE Stays(f)
  <2>1. /\ f \in Range(envQ[FREE_ENV_QUEUE]) => f \in Range(envQ'[FREE_ENV_QUEUE])
        /\ \A p \in UserProcs : f \in Range(envQ[p]) => f \in Range(envQ'[p])
    BY <1>2, <1>5, Names
  <2> QED BY <2>1, <1>2, <1>4 DEF Stays
<1>7. OwnerOf(e)' = Ownership!Mail(d)
  BY <1>1, <1>2, <1>5, Names DEF OwnersKnown, Ownership!Mail
<1>8. Transfers(OwnerOf(e), OwnerOf(e)')
  BY <1>4, <1>7 DEF Transfers
<1> QED BY <1>2, <1>6, <1>8, OneTransfer

(* The running process sends an envelope it holds. *)
LEMMA SendsOwned ==
  ASSUME KernelInv, KernelInv', NEW e \in Envelopes, NEW dest \in Clients \cup {KB, TIMER},
         MayCall, e \in held[current],
         held' = [held EXCEPT ![current] = @ \ {e}],
         k_send_message(envQ, current, dest, e),
         timing' = timing
  PROVE  [Ownership!Next]_Owner
<1>1. dest \in Procs /\ dest \in EnvQueues /\ current \in Clients /\ current \in UserProcs
  BY Names DEF MayCall
<1>2. /\ envQ' = MsgEnvQ_enqueue(envQ, dest, e)
      /\ sender_pid' = [sender_pid EXCEPT ![e] = current]
  BY <1>1 DEF k_send_message
<1>3. /\ \A r \in EnvQueues \ {dest} : envQ'[r] = envQ[r]
      /\ Range(envQ'[dest]) = Range(envQ[dest]) \cup {e}
  BY <1>1, <1>2, Basics, SentTo
<1>4. sender_pid'[e] = current /\ \A f \in Envelopes \ {e} : sender_pid'[f] = sender_pid[f]
  BY <1>2, Basics DEF TypeOK
<1> QED BY <1>1, <1>3, <1>4, GivesOwned

LEMMA OwnershipStep ==
  ASSUME KernelInv, KernelInv', [Next]_vars
  PROVE  [Ownership!Next]_Owner
<1>1. CASE UNCHANGED <<envQ, held, timing, sender_pid>>
  BY <1>1, NoTransfer DEF Stays, InService
<1>2. CASE RequestMsgEnv
  <2>1. /\ current \in Clients
        /\ envQ[FREE_ENV_QUEUE] # <<>>
        /\ envQ' = MsgEnvQ_dequeue(envQ, FREE_ENV_QUEUE)
        /\ held' = [held EXCEPT ![current] = @ \cup {Head(envQ[FREE_ENV_QUEUE])}]
        /\ timing' = timing
        /\ sender_pid' = [sender_pid EXCEPT ![Head(envQ[FREE_ENV_QUEUE])] = current]
    BY <1>2 DEF RequestMsgEnv, In
  <2>2. \A f \in Envelopes \ {Head(envQ[FREE_ENV_QUEUE])} : sender_pid'[f] = sender_pid[f]
    BY <2>1, Basics DEF TypeOK
  <2> QED BY <2>1, <2>2, TakesOwned
<1>3. CASE ReceiveMessage
  <2>1. PICK q \in {FREE_ENV_QUEUE, current} : q = current
    OBVIOUS
  <2>2. /\ current \in Clients
        /\ envQ[q] # <<>>
        /\ envQ' = MsgEnvQ_dequeue(envQ, q)
        /\ held' = [held EXCEPT ![current] = @ \cup {Head(envQ[q])}]
        /\ timing' = timing /\ sender_pid' = sender_pid
    BY <1>3, <2>1 DEF ReceiveMessage, In
  <2> QED BY <2>2, TakesOwned
<1>4. ASSUME NEW e \in Envelopes, ReleaseMsgEnv(e)
      PROVE  [Ownership!Next]_Owner
  <2>1. /\ current \in Clients /\ e \in held[current]
        /\ held' = [held EXCEPT ![current] = @ \ {e}]
        /\ sender_pid' = [sender_pid EXCEPT ![e] = NoPid]
        /\ envQ' = MsgEnvQ_enqueue(envQ, FREE_ENV_QUEUE, e)
        /\ timing' = timing
    BY <1>4 DEF ReleaseMsgEnv, MayCall
  <2>2. /\ \A r \in EnvQueues \ {FREE_ENV_QUEUE} : envQ'[r] = envQ[r]
        /\ Range(envQ'[FREE_ENV_QUEUE]) = Range(envQ[FREE_ENV_QUEUE]) \cup {e}
    BY <2>1, Basics, Names, SentTo
  <2>3. \A f \in Envelopes \ {e} : sender_pid'[f] = sender_pid[f]
    BY <2>1, Basics DEF TypeOK
  <2> QED BY <2>1, <2>2, <2>3, GivesOwned
<1>5. ASSUME NEW dest \in Clients, NEW e \in Envelopes, SendMessage(dest, e)
      PROVE  [Ownership!Next]_Owner
  BY <1>5, SendsOwned DEF SendMessage
<1>6. ASSUME NEW e \in Envelopes, SendConsoleChars(e)
      PROVE  [Ownership!Next]_Owner
  <2>1. /\ current \in Clients /\ e \in held[current]
        /\ held' = [held EXCEPT ![current] = @ \ {e}]
        /\ sender_pid' = [sender_pid EXCEPT ![e] = current]
        /\ timing' = timing
    BY <1>6 DEF SendConsoleChars, MayCall
  <2>2. envQ' = MsgEnvQ_enqueue(envQ, DISPLAYQ, e)
    BY <1>6, DisplayHandOver
  <2>3. /\ \A r \in EnvQueues \ {DISPLAYQ} : envQ'[r] = envQ[r]
        /\ Range(envQ'[DISPLAYQ]) = Range(envQ[DISPLAYQ]) \cup {e}
    BY <2>2, Basics, Names, SentTo
  <2>4. sender_pid'[e] = current /\ \A f \in Envelopes \ {e} : sender_pid'[f] = sender_pid[f]
    BY <2>1, Basics DEF TypeOK
  <2> QED BY <2>1, <2>3, <2>4, GivesOwned
<1>7. ASSUME NEW e \in Envelopes, GetConsoleChars(e)
      PROVE  [Ownership!Next]_Owner
  BY <1>7, SendsOwned DEF GetConsoleChars
<1>8. ASSUME NEW e \in Envelopes, RequestDelay(e)
      PROVE  [Ownership!Next]_Owner
  BY <1>8, SendsOwned DEF RequestDelay
<1>9. ASSUME NEW q \in {DISPLAYQ, KB}, NEW from, envQ[q] # <<>>,
             k_send_message(MsgEnvQ_dequeue(envQ, q), from,
                            sender_pid[Head(envQ[q])], Head(envQ[q])),
             held' = held, timing' = timing
      PROVE  [Ownership!Next]_Owner
  <2>1. /\ q \in EnvQueues /\ q \notin UserProcs \cup {FREE_ENV_QUEUE, TIMER}
        /\ envQ \in EnvQueueTables /\ IsInjective(envQ[q])
    BY Basics, Names
  <2>2. /\ Head(envQ[q]) \in Range(envQ[q])
        /\ MsgEnvQ_dequeue(envQ, q) \in EnvQueueTables
        /\ \A r \in EnvQueues \ {q} : MsgEnvQ_dequeue(envQ, q)[r] = envQ[r]
        /\ Range(MsgEnvQ_dequeue(envQ, q)[q]) = Range(envQ[q]) \ {Head(envQ[q])}
    BY <1>9, <2>1, TableDequeue
  <2>3. PICK eq \in EnvQueueTables : eq = MsgEnvQ_dequeue(envQ, q)
    BY <2>2
  <2>4. PICK e \in InService : e = Head(envQ[q])
    BY <2>2 DEF InService
  <2>5. k_send_message(eq, from, sender_pid[e], e)
    BY <1>9, <2>3, <2>4
  <2>6. InService \subseteq InService' \cup {e}
    <3>1. PICK d : d = sender_pid[e] /\ d \in Clients
      BY Basics DEF ServiceRequestsValid
    <3>2. \A r \in {DISPLAYQ, KB, TIMER} : envQ'[r] = eq[r]
      BY <2>3, <2>5, <3>1, Names DEF k_send_message, MsgEnvQ_enqueue, EnvQueueTables
    <3>3. \A r \in {DISPLAYQ, KB, TIMER} : Range(envQ[r]) \subseteq Range(envQ'[r]) \cup {e}
      BY <2>2, <2>3, <2>4, <3>2, Names
    <3> QED BY <1>9, <3>3 DEF InService
  <2>7. \A r \in UserProcs \cup {FREE_ENV_QUEUE} : eq[r] = envQ[r]
    BY <2>1, <2>2, <2>3, Names
  <2> QED BY <1>9, <2>5, <2>6, <2>7, ReturnsOwned
<1>10. CASE crt_i_proc
  BY <1>9, <1>10 DEF crt_i_proc
<1>11. CASE kbd_i_proc
  BY <1>9, <1>11 DEF kbd_i_proc
<1>12. Range(AfterDrain[TIMER]) = {} /\ Drained = Range(envQ[TIMER])
  BY Ticked, Drain, Basics
<1>13. CASE timer_i_proc_idle
  <2>1. /\ timing' = timing \cup Drained
        /\ envQ' = AfterDrain
        /\ UNCHANGED <<held, sender_pid>>
    BY <1>13 DEF timer_i_proc_idle
  <2>2. \A q \in EnvQueues \ {TIMER} : envQ'[q] = envQ[q]
    BY <2>1, Ticked
  <2>3. InService \subseteq InService'
    BY <1>12, <2>1, <2>2, Names DEF InService
  <2> QED BY <2>1, <2>2, <2>3, NoTransfer, Names DEF Stays
<1>14. ASSUME NEW e \in Envelopes, timer_i_proc(e)
       PROVE  [Ownership!Next]_Owner
  <2>1. /\ e \in timing \cup Drained
        /\ timing' = (timing \cup Drained) \ {e}
        /\ k_send_message(AfterDrain, TIMER, sender_pid[e], e)
        /\ held' = held
    BY <1>14 DEF timer_i_proc
  <2>2. PICK eq \in EnvQueueTables : eq = AfterDrain
    BY Ticked
  <2>3. /\ \A q \in EnvQueues \ {TIMER} : eq[q] = envQ[q]
        /\ e \in InService
    BY <2>1, <2>2, Ticked
  <2>4. InService \subseteq InService' \cup {e}
    <3>1. PICK d : d = sender_pid[e] /\ d \in Clients
      BY <2>3, Basics DEF ServiceRequestsValid
    <3>2. \A r \in {DISPLAYQ, KB} : envQ'[r] = envQ[r]
      BY <2>1, <2>2, <2>3, <3>1, Names DEF k_send_message, MsgEnvQ_enqueue, EnvQueueTables
    <3> QED BY <1>12, <2>1, <3>2 DEF InService
  <2>5. \A q \in UserProcs \cup {FREE_ENV_QUEUE} : eq[q] = envQ[q]
    BY <2>3, Names
  <2> QED BY <2>1, <2>2, <2>3, <2>4, <2>5, ReturnsOwned
<1> QED
  BY <1>1, <1>2, <1>3, <1>4, <1>5, <1>6, <1>7, <1>8, <1>10, <1>11, <1>13, <1>14
  DEF Next, vars, RequestBlocks, SetType, ReceiveBlocks, ReleaseProcessor

(* The kernel implements EnvelopeOwnership: an envelope changes hands only by the six
   transfers, and an i-process returns it to the process that handed it in. *)
THEOREM OwnershipImplemented == Spec => ImplementsOwnership
<1>1. Init => Ownership!Init
  <2> SUFFICES ASSUME Init PROVE Ownership!Init
    OBVIOUS
  <2>1. Range(envQ[FREE_ENV_QUEUE]) = Envelopes
    <3>1. PICK list \in Enumerations(Envelopes) :
            envQ = [q \in EnvQueues |-> IF q = FREE_ENV_QUEUE THEN list ELSE <<>>]
      BY DEF Init
    <3> QED BY <3>1, FiniteTables, Enumerated, Names
  <2>2. \A e \in Envelopes : OwnerOf(e) = Ownership!Free
    BY <2>1 DEF OwnerOf, Ownership!Free
  <2> QED BY <2>2 DEF Ownership!Init
<1>2. KernelInv /\ KernelInv' /\ [Next]_vars => [Ownership!Next]_Owner
  BY OwnershipStep
<1> QED BY <1>1, <1>2, Invariance, PTL DEF Spec, ImplementsOwnership, Ownership!Spec, Owner
=============================================================================
