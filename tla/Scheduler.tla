------------------------------ MODULE Scheduler ------------------------------
(***************************************************************************)
(* The process queues as the code keeps them: singly linked through        *)
(* pcb.next, each with a head and a tail pointer (processQ.c, procPQ.c),   *)
(* under the scheduling operations of kernal.c and under change_priority,  *)
(* the one operation that unlinks a process from the middle of a queue.    *)
(*                                                                         *)
(* Why a process blocks or wakes is left to Kernel: here any client may.   *)
(* A failed assert ends the program (SIGABRT, then die in cleanup.c).      *)
(***************************************************************************)
EXTENDS Integers, FiniteSets, Sequences, SequencesExt

CONSTANTS
  Clients,             \* user processes other than the null process
  NullProc,
  Cci,                 \* the client that interprets the operator's commands
  NULL,                \* the null pointer
  NUM_PRIORITY_LEVEL,
  InitPriority,        \* the priority column of INIT_TABLE
  MaxCommands          \* bound: how often the operator types an n command

UserProcs     == Clients \cup {NullProc}
Priorities    == 0 .. NUM_PRIORITY_LEVEL - 1
BLOCKED_QUEUE == NUM_PRIORITY_LEVEL
ProcQueues    == 0 .. NUM_PRIORITY_LEVEL

ASSUME SchedulerConstants ==
  /\ IsFiniteSet(Clients) /\ NullProc \notin Clients /\ Cci \in Clients /\ NULL \notin UserProcs
  /\ NUM_PRIORITY_LEVEL \in Nat \ {0} /\ MaxCommands \in Nat
  /\ InitPriority \in [UserProcs -> Priorities]
  /\ InitPriority[NullProc] = NUM_PRIORITY_LEVEL - 1

VARIABLES
  lists,     \* every proc_queue's head and tail, and every pcb's next
  state,     \* pcb.state
  prio,      \* pcb.priority
  current,   \* CURRENT_PROCESS
  aborted,   \* an assert has failed
  commands   \* n commands typed so far

vars == <<lists, state, prio, current, aborted, commands>>

Pointer == UserProcs \cup {NULL}

TypeOK ==
  /\ lists \in [head : [ProcQueues -> Pointer], tail : [ProcQueues -> Pointer],
                next : [UserProcs -> Pointer]]
  /\ state \in [UserProcs -> {"READY", "EXECUTING", "BLOCKED_ON_ENV_REQUEST", "BLOCKED_ON_RCV"}]
  /\ prio \in [UserProcs -> Priorities]
  /\ current \in UserProcs
  /\ aborted \in BOOLEAN
  /\ commands \in 0 .. MaxCommands

-----------------------------------------------------------------------------
(* processQ.c.  L is the value of lists an operation starts from. *)

proc_q_is_empty(L, q) == L.head[q] = NULL

(* Mutant: the dequeued process keeps its link. *)
proc_q_dequeue_KeepsNext(L, q) == [L EXCEPT !.head[q] = L.next[L.head[q]]]

(* Of a queue that is not empty: the head advances, the tail stays as it is. *)
proc_q_dequeue(L, q) ==
  [L EXCEPT !.head[q] = L.next[L.head[q]], !.next[L.head[q]] = NULL]

(* Mutant: the tail is not advanced. *)
proc_q_enqueue_KeepsTail(L, q, p) ==
  IF proc_q_is_empty(L, q)
  THEN [L EXCEPT !.head[q] = p, !.tail[q] = p, !.next[p] = NULL]
  ELSE [L EXCEPT !.next[L.tail[q]] = p, !.next[p] = NULL]

(* Mutant: the process is put in front. *)
proc_q_enqueue_AtHead(L, q, p) ==
  IF proc_q_is_empty(L, q)
  THEN [L EXCEPT !.head[q] = p, !.tail[q] = p, !.next[p] = NULL]
  ELSE [L EXCEPT !.head[q] = p, !.next[p] = L.head[q]]

proc_q_enqueue(L, q, p) ==
  IF proc_q_is_empty(L, q)
  THEN [L EXCEPT !.head[q] = p, !.tail[q] = p, !.next[p] = NULL]
  ELSE [L EXCEPT !.next[L.tail[q]] = p, !.tail[q] = p, !.next[p] = NULL]

(* assert(pcb->next == NULL), on entry to proc_q_enqueue. *)
Unlinked(L, p) == L.next[p] = NULL

(* The nodes met by following the links of q from its head. *)
Walk(L, q) ==
  LET node[i \in 0 .. Cardinality(UserProcs)] ==
        IF i = 0 THEN L.head[q]
        ELSE IF node[i - 1] = NULL THEN NULL ELSE L.next[node[i - 1]]
  IN  node

(* The walk unlinks p behind its predecessor and leaves the tail pointer alone. *)
proc_q_remove(L, q, p) ==
  IF proc_q_is_empty(L, q) THEN L
  ELSE IF L.head[q] = p THEN proc_q_dequeue(L, q)
  ELSE LET node == Walk(L, q)
           at == {i \in 1 .. Cardinality(UserProcs) : node[i] = p}
       IN  IF at = {} THEN L
           ELSE LET prev_node == node[(CHOOSE i \in at : \A j \in at : i <= j) - 1]
                IN  [L EXCEPT !.next[prev_node] = L.next[p], !.next[p] = NULL]

-----------------------------------------------------------------------------
(* procPQ.c and the context switch. *)

IsFirstReady(L, pri) ==
  /\ pri \in Priorities /\ ~ proc_q_is_empty(L, pri)
  /\ \A j \in 0 .. pri - 1 : proc_q_is_empty(L, j)

k_process_switch(L, next_state) ==
  \/ /\ \A pri \in Priorities : proc_q_is_empty(L, pri)
     /\ lists' = L
     /\ UNCHANGED <<state, current>>
  \/ \E pri \in Priorities :
       /\ IsFirstReady(L, pri)
       /\ lists' = proc_q_dequeue(L, pri)
       /\ current' = L.head[pri]
       /\ state' = [state EXCEPT ![current] = next_state, ![L.head[pri]] = "EXECUTING"]

(* The program is over at a failed assert. *)
Abort == aborted' = TRUE /\ UNCHANGED <<lists, state, prio, current, commands>>

Running == ~ aborted

-----------------------------------------------------------------------------
(* The tables list the processes of each priority in some order; the first of the best
   priority runs. *)
Init ==
  /\ prio = InitPriority
  /\ \E level \in [Priorities -> UNION {SetToSeqs({p \in UserProcs : prio[p] = pri}) :
                                          pri \in Priorities}] :
       LET best == CHOOSE pri \in Priorities :
                     level[pri] # <<>> /\ \A j \in 0 .. pri - 1 : level[j] = <<>>
           Queued(pri) == IF pri = best THEN Tail(level[pri]) ELSE level[pri]
           After(p) == LET s == Queued(prio[p])
                       IN  {s[i + 1] : i \in {i \in 1 .. Len(s) - 1 : s[i] = p}}
       IN  /\ \A pri \in Priorities : level[pri] \in SetToSeqs({p \in UserProcs : prio[p] = pri})
           /\ current = Head(level[best])
           /\ lists = [head |-> [q \in ProcQueues |->
                                   IF q = BLOCKED_QUEUE \/ Queued(q) = <<>> THEN NULL
                                   ELSE Head(Queued(q))],
                       tail |-> [q \in ProcQueues |->
                                   IF q = BLOCKED_QUEUE \/ level[q] = <<>> THEN NULL
                                   ELSE Last(level[q])],
                       next |-> [p \in UserProcs |->
                                   IF After(p) = {} THEN NULL
                                   ELSE CHOOSE x \in After(p) : TRUE]]
  /\ state = [p \in UserProcs |-> IF p = current THEN "EXECUTING" ELSE "READY"]
  /\ aborted = FALSE /\ commands = 0

ReleaseProcessor ==
  /\ Running
  /\ \/ ~ Unlinked(lists, current) /\ Abort
     \/ /\ Unlinked(lists, current)
        /\ k_process_switch(proc_q_enqueue(lists, prio[current], current), "READY")
        /\ UNCHANGED <<prio, aborted, commands>>

(* k_receive_message with nothing received. *)
BlockOnReceive ==
  /\ Running /\ current \in Clients
  /\ k_process_switch(lists, "BLOCKED_ON_RCV")
  /\ UNCHANGED <<prio, aborted, commands>>

(* k_request_msg_env with no free envelope. *)
BlockOnEnvRequest ==
  /\ Running /\ current \in Clients
  /\ \/ ~ Unlinked(lists, current) /\ Abort
     \/ /\ Unlinked(lists, current)
        /\ k_process_switch(proc_q_enqueue(lists, BLOCKED_QUEUE, current),
                            "BLOCKED_ON_ENV_REQUEST")
        /\ UNCHANGED <<prio, aborted, commands>>

(* k_send_message, by a process or by a handler, to a process waiting to receive. *)
WakeReceiver(p) ==
  /\ Running /\ state[p] = "BLOCKED_ON_RCV"
  /\ \/ ~ Unlinked(lists, p) /\ Abort
     \/ /\ Unlinked(lists, p)
        /\ state' = [state EXCEPT ![p] = "READY"]
        /\ lists' = proc_q_enqueue(lists, prio[p], p)
        /\ UNCHANGED <<prio, current, aborted, commands>>

(* k_release_msg_env with a process waiting for an envelope.  proc_q_dequeue has just
   cleared the link that the assert looks at. *)
WakeRequester ==
  /\ Running /\ current \in Clients
  /\ ~ proc_q_is_empty(lists, BLOCKED_QUEUE)
  /\ LET p == lists.head[BLOCKED_QUEUE]
     IN  /\ state' = [state EXCEPT ![p] = "READY"]
         /\ lists' = proc_q_enqueue(proc_q_dequeue(lists, BLOCKED_QUEUE), prio[p], p)
  /\ UNCHANGED <<prio, current, aborted, commands>>

(* Mutant: the priority is changed first, and the process sought on its new queue. *)
k_change_priority_TooEarly(target_priority, p) ==
  LET L == proc_q_remove(lists, target_priority, p)
  IN  /\ IF state[p] = "READY" /\ Unlinked(L, p)
         THEN lists' = proc_q_enqueue(L, target_priority, p)
         ELSE UNCHANGED lists
      /\ prio' = [prio EXCEPT ![p] = target_priority]
      /\ UNCHANGED <<state, current, aborted>>

(* Mutant: the bound of the table is taken for a level. *)
LegalPriority_OffByOne(target_priority) == target_priority \in 0 .. NUM_PRIORITY_LEVEL

LegalPriority(target_priority) == target_priority \in 0 .. NUM_PRIORITY_LEVEL - 1

k_change_priority(target_priority, p) ==
  LET L == proc_q_remove(lists, prio[p], p)
  IN  \/ /\ state[p] # "READY"
         /\ prio' = [prio EXCEPT ![p] = target_priority]
         /\ UNCHANGED <<lists, state, current, aborted>>
      \/ /\ state[p] = "READY" /\ Unlinked(L, p)
         /\ lists' = proc_q_enqueue(L, target_priority, p)
         /\ prio' = [prio EXCEPT ![p] = target_priority]
         /\ UNCHANGED <<state, current, aborted>>
      \/ /\ state[p] = "READY" /\ ~ Unlinked(L, p)
         /\ aborted' = TRUE
         /\ UNCHANGED <<lists, state, prio, current>>

(* The n command of the CCI, the only caller (cci.c:134).  A level out of range and the
   null process are refused. *)
ChangePriority(target_priority, p) ==
  /\ Running /\ current = Cci
  /\ LegalPriority(target_priority) /\ p # NullProc
  /\ commands < MaxCommands /\ commands' = commands + 1
  /\ k_change_priority(target_priority, p)

-----------------------------------------------------------------------------
GivesUpProcessor == ReleaseProcessor \/ BlockOnReceive \/ BlockOnEnvRequest

Next ==
  \/ ReleaseProcessor
  \/ BlockOnReceive
  \/ BlockOnEnvRequest
  \/ \E p \in Clients : WakeReceiver(p)
  \/ WakeRequester
  \/ \E p \in UserProcs, pri \in 0 .. NUM_PRIORITY_LEVEL : ChangePriority(pri, p)

Spec == Init /\ [][Next]_vars

(* The last process of a ready queue that holds others: the one proc_q_remove unlinks
   without moving the tail pointer off it. *)
IsLinkedTail(p) ==
  /\ state[p] = "READY"
  /\ lists.tail[prio[p]] = p /\ lists.head[prio[p]] # p

(* The operations without a change of priority of such a process. *)
NextKeepingTails ==
  \/ ReleaseProcessor
  \/ BlockOnReceive
  \/ BlockOnEnvRequest
  \/ \E p \in Clients : WakeReceiver(p)
  \/ WakeRequester
  \/ \E p \in UserProcs, pri \in 0 .. NUM_PRIORITY_LEVEL :
       ~ IsLinkedTail(p) /\ ChangePriority(pri, p)

(* Every process of the program gives up the processor again and again. *)
SpecKeepingTails ==
  Init /\ [][NextKeepingTails]_vars /\ WF_vars(GivesUpProcessor)

-----------------------------------------------------------------------------
(* Properties. *)

(* assert(pcb->next == NULL) at processQ.c:67: a process that is put on a queue is linked
   into none. *)
AssertsHold == ~ aborted

Members(L, q) == {Walk(L, q)[i] : i \in 0 .. Cardinality(UserProcs)} \ {NULL}

(* The links form disjoint chains, one from the head to the tail of each queue, and lead
   nowhere else. *)
ListsWellFormed ==
  /\ \A q \in ProcQueues : ~ proc_q_is_empty(lists, q) =>
       /\ lists.tail[q] \in Members(lists, q)
       /\ lists.next[lists.tail[q]] = NULL
  /\ \A q1, q2 \in ProcQueues : q1 # q2 => Members(lists, q1) \cap Members(lists, q2) = {}
  /\ \A p \in UserProcs : (\A q \in ProcQueues : p \notin Members(lists, q)) => Unlinked(lists, p)

Contents(q) ==
  LET node == Walk(lists, q)
      n == Cardinality(Members(lists, q))
  IN  [i \in 1 .. n |-> node[i - 1]]

(* The linked lists behave as FIFO queues: the code implements FifoScheduler. *)
Fifo == INSTANCE FifoScheduler WITH
  ready     <- [pri \in Priorities |-> Contents(pri)],
  waiting   <- Contents(BLOCKED_QUEUE),
  running   <- current,
  receiving <- {p \in UserProcs : state[p] = "BLOCKED_ON_RCV"}
ImplementsFifoScheduler == Fifo!Spec

NoneBetter(p) == \A x \in UserProcs : state[x] = "READY" => prio[p] <= prio[x]

(* Round robin within a priority: a ready process that none outranks gets its turn. *)
ReadyEventuallyRuns ==
  \A p \in UserProcs :
    (state[p] = "READY" /\ NoneBetter(p)) ~> (state[p] = "EXECUTING" \/ ~ NoneBetter(p))
=============================================================================
