------------------------------- MODULE Kernel -------------------------------
(***************************************************************************)
(* The message-passing kernel of the RTX: the primitives of kernal.c, the  *)
(* user API over them (userAPI.c) and the three i-processes of iProcs.c,   *)
(* under any user processes that use only envelopes they hold.             *)
(*                                                                         *)
(* A step is one primitive, up to its return or to the context switch that *)
(* suspends it, or one signal handler.  atomic() (kernal.c:128) is meant   *)
(* to keep signals out of a primitive and returns at its first line, so    *)
(* this module describes the executions in which every signal arrives      *)
(* between two primitives.  That is where the program spends its time: the *)
(* null process and process A sleep outside any primitive.                 *)
(*                                                                         *)
(* Queues are sequences: the linked lists of MsgEnvQueue.c and processQ.c  *)
(* are a matter for modules of their own, and so are change_priority       *)
(* (Scheduler) and the order of TIMEOUT_Q (TimerQueue).                    *)
(***************************************************************************)
EXTENDS Integers, Sequences, FiniteSets, Functions

CONSTANTS
  Clients,             \* user processes other than the null process
  NullProc,            \* NULL_PROCESS_ID
  KB, CRT, TIMER,      \* the i-processes
  Envelopes,           \* MSG_LIST
  FREE_ENV_QUEUE, DISPLAYQ,   \* the two global MsgEnvQ objects
  NoPid,               \* -1 in a sender_pid field
  NUM_PRIORITY_LEVEL,
  Priority             \* the priority column of INIT_TABLE

UserProcs == Clients \cup {NullProc}
IProcs    == {KB, CRT, TIMER}
Procs     == UserProcs \cup IProcs
EnvQueues == Procs \cup {FREE_ENV_QUEUE, DISPLAYQ}

Priorities    == 0 .. NUM_PRIORITY_LEVEL - 1
BLOCKED_QUEUE == NUM_PRIORITY_LEVEL      \* the index of that proc_queue in procQ
ProcQueues    == 0 .. NUM_PRIORITY_LEVEL

ASSUME PidsDistinct ==
  /\ NullProc \notin Clients
  /\ IProcs \cap UserProcs = {}
  /\ KB # CRT /\ KB # TIMER /\ CRT # TIMER
  /\ FREE_ENV_QUEUE \notin Procs /\ DISPLAYQ \notin Procs
  /\ FREE_ENV_QUEUE # DISPLAYQ
  /\ NoPid \notin Procs

(* globals.c:46 gives the null process the lowest priority of all. *)
ASSUME PrioritiesValid ==
  /\ NUM_PRIORITY_LEVEL \in Nat \ {0}
  /\ Priority \in [UserProcs -> Priorities]
  /\ Priority[NullProc] = NUM_PRIORITY_LEVEL - 1

ASSUME FiniteTables == IsFiniteSet(Clients) /\ IsFiniteSet(Envelopes)

MsgType == {"NONE", "CONSOLE_INPUT", "DISPLAY_ACK", "COUNT_REPORT", "WAKEUP10"}
ProcessState == {"READY", "EXECUTING", "BLOCKED_ON_ENV_REQUEST", "BLOCKED_ON_RCV", "NO_STATE"}

VARIABLES
  envQ,        \* contents of every MsgEnvQ: p's rcv_msg_queue is envQ[p]
  procQ,       \* contents of every proc_queue: ready queues, then BLOCKED_QUEUE
  state,       \* pcb.state
  current,     \* CURRENT_PROCESS
  call,        \* the primitive whose loop a process is suspended in
  held,        \* the envelopes a process has in its local variables
  timing,      \* the envelopes linked in TIMEOUT_Q
  sender_pid,  \* MsgEnv.sender_pid
  msg_type     \* MsgEnv.msg_type

vars == <<envQ, procQ, state, current, call, held, timing, sender_pid, msg_type>>

TypeOK ==
  /\ envQ \in [EnvQueues -> Seq(Envelopes)]
  /\ procQ \in [ProcQueues -> Seq(UserProcs)]
  /\ state \in [Procs -> ProcessState]
  /\ current \in UserProcs
  /\ call \in [UserProcs -> {"none", "receive", "request"}]
  /\ held \in [UserProcs -> SUBSET Envelopes]
  /\ timing \in SUBSET Envelopes
  /\ sender_pid \in [Envelopes -> Procs \cup {NoPid}]
  /\ msg_type \in [Envelopes -> MsgType]

-----------------------------------------------------------------------------
(* Initial state: init_all_lists and main's first dispatch. *)

Enumerations(S) == Bijection(1 .. Cardinality(S), S)

(* The processes that start on queue q; BLOCKED_QUEUE is the level of none. *)
StartsOn(q) == {p \in UserProcs \ {current} : Priority[p] = q}

(* The tables may list processes and envelopes in any order. *)
Init ==
  /\ current \in {p \in UserProcs : \A q \in UserProcs : Priority[p] <= Priority[q]}
  /\ state = [p \in Procs |-> IF p \in IProcs THEN "NO_STATE"
                              ELSE IF p = current THEN "EXECUTING" ELSE "READY"]
  /\ procQ \in [ProcQueues -> UNION {Enumerations(StartsOn(q)) : q \in ProcQueues}]
  /\ \A q \in ProcQueues : procQ[q] \in Enumerations(StartsOn(q))
  /\ \E list \in Enumerations(Envelopes) :
       envQ = [q \in EnvQueues |-> IF q = FREE_ENV_QUEUE THEN list ELSE <<>>]
  /\ call = [p \in UserProcs |-> "none"]
  /\ held = [p \in UserProcs |-> {}]
  /\ timing = {}
  /\ sender_pid = [e \in Envelopes |-> NoPid]
  /\ msg_type = [e \in Envelopes |-> "NONE"]

-----------------------------------------------------------------------------
(* Queue operations, on the value of all queues of a kind. *)

MsgEnvQ_enqueue(eq, q, e) == [eq EXCEPT ![q] = Append(@, e)]
MsgEnvQ_dequeue(eq, q)    == [eq EXCEPT ![q] = Tail(@)]

proc_q_enqueue(pq, q, p) == [pq EXCEPT ![q] = Append(@, p)]
proc_q_dequeue(pq, q)    == [pq EXCEPT ![q] = Tail(@)]

proc_pq_enqueue(pq, p) == proc_q_enqueue(pq, Priority[p], p)

(* Mutant: the scan of the ready queues starts at the wrong end. *)
IsFirstReady_FromLowest(pq, pri) ==
  pri \in Priorities /\ pq[pri] # <<>> /\ \A j \in Priorities : j > pri => pq[j] = <<>>

(* The queue proc_pq_dequeue takes from. *)
IsFirstReady(pq, pri) ==
  pri \in Priorities /\ pq[pri] # <<>> /\ \A j \in Priorities : j < pri => pq[j] = <<>>

(* k_process_switch: the running process leaves the processor in next_state for the
   first process of the first nonempty ready queue; with none it returns at once. *)
k_process_switch(pq, next_state) ==
  \/ /\ \A pri \in Priorities : pq[pri] = <<>>
     /\ procQ' = pq
     /\ UNCHANGED <<state, current>>
  \/ \E pri \in Priorities :
       /\ IsFirstReady(pq, pri)
       /\ procQ' = proc_q_dequeue(pq, pri)
       /\ current' = Head(pq[pri])
       /\ state' = [state EXCEPT ![current] = next_state, ![Head(pq[pri])] = "EXECUTING"]

(* Mutant: the receiver is made ready whatever it is doing. *)
k_send_message_AlwaysWakes(eq, from, dest, e) ==
  /\ envQ' = MsgEnvQ_enqueue(eq, dest, e)
  /\ sender_pid' = [sender_pid EXCEPT ![e] = from]
  /\ IF dest \in UserProcs
     THEN /\ state' = [state EXCEPT ![dest] = "READY"]
          /\ procQ' = proc_pq_enqueue(procQ, dest)
     ELSE UNCHANGED <<state, procQ>>

(* Mutant: nothing wakes the receiver. *)
k_send_message_NeverWakes(eq, from, dest, e) ==
  /\ envQ' = MsgEnvQ_enqueue(eq, dest, e)
  /\ sender_pid' = [sender_pid EXCEPT ![e] = from]
  /\ UNCHANGED <<state, procQ>>

(* k_send_message by process from, eq being the envelope queues it starts from.  A pid
   that pid_to_pcb refuses is NULL_ARGUMENT: the envelope goes nowhere. *)
k_send_message(eq, from, dest, e) ==
  \/ /\ dest \notin Procs
     /\ envQ' = eq
     /\ UNCHANGED <<sender_pid, state, procQ>>
  \/ /\ dest \in Procs
     /\ envQ' = MsgEnvQ_enqueue(eq, dest, e)
     /\ sender_pid' = [sender_pid EXCEPT ![e] = from]
     /\ IF state[dest] = "BLOCKED_ON_RCV"
        THEN /\ state' = [state EXCEPT ![dest] = "READY"]
             /\ procQ' = proc_pq_enqueue(procQ, dest)
        ELSE UNCHANGED <<state, procQ>>

-----------------------------------------------------------------------------
(* Primitives of the running process.  A process suspended in a loop of            *)
(* k_receive_message or k_request_msg_env resumes that loop and nothing else.      *)

MayCall == current \in Clients /\ call[current] = "none"
In(primitive) == current \in Clients /\ call[current] \in {"none", primitive}

RequestMsgEnv ==
  /\ In("request")
  /\ envQ[FREE_ENV_QUEUE] # <<>>
  /\ LET e == Head(envQ[FREE_ENV_QUEUE])
     IN  /\ held' = [held EXCEPT ![current] = @ \cup {e}]
         /\ sender_pid' = [sender_pid EXCEPT ![e] = current]
  /\ envQ' = MsgEnvQ_dequeue(envQ, FREE_ENV_QUEUE)
  /\ call' = [call EXCEPT ![current] = "none"]
  /\ UNCHANGED <<procQ, state, current, timing, msg_type>>

RequestBlocks ==
  /\ In("request")
  /\ envQ[FREE_ENV_QUEUE] = <<>>
  /\ k_process_switch(proc_q_enqueue(procQ, BLOCKED_QUEUE, current), "BLOCKED_ON_ENV_REQUEST")
  /\ call' = [call EXCEPT ![current] = "request"]
  /\ UNCHANGED <<envQ, held, timing, sender_pid, msg_type>>

(* Mutant: a waiting process is woken only when the free queue stops being empty. *)
ReleaseMsgEnv_WakesOnlyFirst(e) ==
  /\ MayCall /\ e \in held[current]
  /\ held' = [held EXCEPT ![current] = @ \ {e}]
  /\ sender_pid' = [sender_pid EXCEPT ![e] = NoPid]
  /\ envQ' = MsgEnvQ_enqueue(envQ, FREE_ENV_QUEUE, e)
  /\ IF procQ[BLOCKED_QUEUE] = <<>> \/ envQ[FREE_ENV_QUEUE] # <<>>
     THEN UNCHANGED <<procQ, state>>
     ELSE LET p == Head(procQ[BLOCKED_QUEUE])
          IN  /\ state' = [state EXCEPT ![p] = "READY"]
              /\ procQ' = proc_pq_enqueue(proc_q_dequeue(procQ, BLOCKED_QUEUE), p)
  /\ UNCHANGED <<current, call, timing, msg_type>>

ReleaseMsgEnv(e) ==
  /\ MayCall /\ e \in held[current]
  /\ held' = [held EXCEPT ![current] = @ \ {e}]
  /\ sender_pid' = [sender_pid EXCEPT ![e] = NoPid]
  /\ envQ' = MsgEnvQ_enqueue(envQ, FREE_ENV_QUEUE, e)
  /\ IF procQ[BLOCKED_QUEUE] = <<>>
     THEN UNCHANGED <<procQ, state>>
     ELSE LET p == Head(procQ[BLOCKED_QUEUE])
          IN  /\ state' = [state EXCEPT ![p] = "READY"]
              /\ procQ' = proc_pq_enqueue(proc_q_dequeue(procQ, BLOCKED_QUEUE), p)
  /\ UNCHANGED <<current, call, timing, msg_type>>

SendMessage(dest, e) ==
  /\ MayCall /\ e \in held[current]
  /\ held' = [held EXCEPT ![current] = @ \ {e}]
  /\ k_send_message(envQ, current, dest, e)
  /\ UNCHANGED <<current, call, timing, msg_type>>

(* A process labels an envelope it holds (procABC.c:37) before sending it. *)
SetType(e) ==
  /\ MayCall /\ e \in held[current]
  /\ msg_type' = [msg_type EXCEPT ![e] = "COUNT_REPORT"]
  /\ UNCHANGED <<envQ, procQ, state, current, call, held, timing, sender_pid>>

ReceiveMessage ==
  /\ In("receive")
  /\ envQ[current] # <<>>
  /\ held' = [held EXCEPT ![current] = @ \cup {Head(envQ[current])}]
  /\ envQ' = MsgEnvQ_dequeue(envQ, current)
  /\ call' = [call EXCEPT ![current] = "none"]
  /\ UNCHANGED <<procQ, state, current, timing, sender_pid, msg_type>>

ReceiveBlocks ==
  /\ In("receive")
  /\ envQ[current] = <<>>
  /\ k_process_switch(procQ, "BLOCKED_ON_RCV")
  /\ call' = [call EXCEPT ![current] = "receive"]
  /\ UNCHANGED <<envQ, held, timing, sender_pid, msg_type>>

(* Mutant: the process gives up the processor without going back on its ready queue. *)
ReleaseProcessor_NotQueued ==
  /\ call[current] = "none"
  /\ k_process_switch(procQ, "READY")
  /\ UNCHANGED <<envQ, call, held, timing, sender_pid, msg_type>>

ReleaseProcessor ==
  /\ call[current] = "none"
  /\ k_process_switch(proc_pq_enqueue(procQ, current), "READY")
  /\ UNCHANGED <<envQ, call, held, timing, sender_pid, msg_type>>

(* Mutant: the i-process is entered before the send, which then names it as the sender. *)
SendConsoleChars_AsCrt(e) ==
  /\ MayCall /\ e \in held[current]
  /\ held' = [held EXCEPT ![current] = @ \ {e}]
  /\ envQ' = MsgEnvQ_enqueue(envQ, DISPLAYQ, e)
  /\ sender_pid' = [sender_pid EXCEPT ![e] = CRT]
  /\ UNCHANGED <<procQ, state, current, call, timing, msg_type>>

(* k_send_console_chars sends to the CRT i-process and calls crt_i_proc(0), which takes
   the first envelope of its queue and puts it on DISPLAYQ. *)
SendConsoleChars(e) ==
  /\ MayCall /\ e \in held[current]
  /\ held' = [held EXCEPT ![current] = @ \ {e}]
  /\ LET sent == MsgEnvQ_enqueue(envQ, CRT, e)
     IN  envQ' = MsgEnvQ_enqueue(MsgEnvQ_dequeue(sent, CRT), DISPLAYQ, Head(sent[CRT]))
  /\ sender_pid' = [sender_pid EXCEPT ![e] = current]
  /\ UNCHANGED <<procQ, state, current, call, timing, msg_type>>

GetConsoleChars(e) ==
  /\ MayCall /\ e \in held[current]
  /\ held' = [held EXCEPT ![current] = @ \ {e}]
  /\ k_send_message(envQ, current, KB, e)
  /\ UNCHANGED <<current, call, timing, msg_type>>

(* Mutant: the wakeup code is not stored in the envelope. *)
RequestDelay_Untyped(e) ==
  /\ MayCall /\ e \in held[current]
  /\ held' = [held EXCEPT ![current] = @ \ {e}]
  /\ k_send_message(envQ, current, TIMER, e)
  /\ UNCHANGED <<current, call, timing, msg_type>>

(* Every caller of request_delay passes WAKEUP10. *)
RequestDelay(e) ==
  /\ MayCall /\ e \in held[current]
  /\ held' = [held EXCEPT ![current] = @ \ {e}]
  /\ msg_type' = [msg_type EXCEPT ![e] = "WAKEUP10"]
  /\ k_send_message(envQ, current, TIMER, e)
  /\ UNCHANGED <<current, call, timing>>

-----------------------------------------------------------------------------
(* Signal handlers. *)

(* Mutant: the handler returns without k_i_proc_return. *)
crt_i_proc_NoReturn ==
  /\ envQ[DISPLAYQ] # <<>>
  /\ LET e == Head(envQ[DISPLAYQ])
     IN  /\ msg_type' = [msg_type EXCEPT ![e] = "DISPLAY_ACK"]
         /\ k_send_message(MsgEnvQ_dequeue(envQ, DISPLAYQ), CRT, sender_pid[e], e)
  /\ current' = CRT
  /\ UNCHANGED <<call, held, timing>>

(* SIGUSR2: crt_i_proc acknowledges the first envelope of DISPLAYQ to its sender.  The
   signal follows a display, so DISPLAYQ is not empty then. *)
crt_i_proc ==
  /\ envQ[DISPLAYQ] # <<>>
  /\ LET e == Head(envQ[DISPLAYQ])
     IN  /\ msg_type' = [msg_type EXCEPT ![e] = "DISPLAY_ACK"]
         /\ k_send_message(MsgEnvQ_dequeue(envQ, DISPLAYQ), CRT, sender_pid[e], e)
  /\ UNCHANGED <<current, call, held, timing>>

(* SIGUSR1: kbd_i_proc returns a line to the process that asked for one.  With no
   request queued it changes nothing here. *)
kbd_i_proc ==
  /\ envQ[KB] # <<>>
  /\ LET e == Head(envQ[KB])
     IN  /\ msg_type' = [msg_type EXCEPT ![e] = "CONSOLE_INPUT"]
         /\ k_send_message(MsgEnvQ_dequeue(envQ, KB), KB, sender_pid[e], e)
  /\ UNCHANGED <<current, call, held, timing>>

(* The length of the prefix of requests that timer_i_proc's loop moves to TIMEOUT_Q. *)
WakeupPrefix(q) ==
  CHOOSE n \in 0 .. Len(q) :
    /\ \A i \in 1 .. n : msg_type[q[i]] = "WAKEUP10"
    /\ n < Len(q) => msg_type[q[n + 1]] # "WAKEUP10"

Drained == {envQ[TIMER][i] : i \in 1 .. WakeupPrefix(envQ[TIMER])}

(* The loop also takes, and drops, the envelope that stops it. *)
AfterDrain == [envQ EXCEPT ![TIMER] = SubSeq(@, WakeupPrefix(@) + 2, Len(@))]

(* SIGALRM, with no envelope of TIMEOUT_Q due. *)
timer_i_proc_idle ==
  /\ timing' = timing \cup Drained
  /\ envQ' = AfterDrain
  /\ UNCHANGED <<procQ, state, current, call, held, sender_pid, msg_type>>

(* SIGALRM, with e the envelope check_timeout_q returns: at most one a tick. *)
timer_i_proc(e) ==
  /\ e \in timing \cup Drained
  /\ timing' = (timing \cup Drained) \ {e}
  /\ msg_type' = [msg_type EXCEPT ![e] = "WAKEUP10"]
  /\ k_send_message(AfterDrain, TIMER, sender_pid[e], e)
  /\ UNCHANGED <<current, call, held>>

-----------------------------------------------------------------------------
Next ==
  \/ RequestMsgEnv
  \/ RequestBlocks
  \/ \E e \in Envelopes : ReleaseMsgEnv(e)
  \/ \E dest \in Clients, e \in Envelopes : SendMessage(dest, e)
  \/ \E e \in Envelopes : SetType(e)
  \/ ReceiveMessage
  \/ ReceiveBlocks
  \/ ReleaseProcessor
  \/ \E e \in Envelopes : SendConsoleChars(e)
  \/ \E e \in Envelopes : GetConsoleChars(e)
  \/ \E e \in Envelopes : RequestDelay(e)
  \/ crt_i_proc
  \/ kbd_i_proc
  \/ timer_i_proc_idle
  \/ \E e \in Envelopes : timer_i_proc(e)

Spec == Init /\ [][Next]_vars
-----------------------------------------------------------------------------
(* Properties. *)

(* Every envelope is in exactly one place: one position of one queue, the hands of one
   process, or TIMEOUT_Q.  The kernel neither loses, duplicates nor shares one (the
   "memory problems" procABC.c:90 suspects). *)
EnvelopesConserved ==
  /\ \A q \in EnvQueues : IsInjective(envQ[q])
  /\ \A q1, q2 \in EnvQueues : q1 # q2 => Range(envQ[q1]) \cap Range(envQ[q2]) = {}
  /\ \A p1, p2 \in UserProcs : p1 # p2 => held[p1] \cap held[p2] = {}
  /\ \A q \in EnvQueues, p \in UserProcs : Range(envQ[q]) \cap held[p] = {}
  /\ \A q \in EnvQueues : Range(envQ[q]) \cap timing = {}
  /\ \A p \in UserProcs : held[p] \cap timing = {}
  /\ \A e \in Envelopes : \/ e \in timing
                          \/ \E q \in EnvQueues : e \in Range(envQ[q])
                          \/ \E p \in UserProcs : e \in held[p]

(* The queue a process in state st belongs on. *)
BelongsOn(st, p, q) ==
  \/ st = "READY" /\ q = Priority[p]
  \/ st = "BLOCKED_ON_ENV_REQUEST" /\ q = BLOCKED_QUEUE

QueuesMatch(pq, st) ==
  \A q \in ProcQueues :
    /\ IsInjective(pq[q])
    /\ \A p \in UserProcs : p \in Range(pq[q]) <=> BelongsOn(st[p], p, q)

(* The state field of a pcb and the process queues agree: the running process alone is
   EXECUTING and on no queue, a READY process is once on the ready queue of its priority,
   one waiting for an envelope once on BLOCKED_QUEUE, one waiting for a message nowhere. *)
SchedulerConsistent ==
  /\ \A p \in UserProcs : state[p] = "EXECUTING" <=> p = current
  /\ QueuesMatch(procQ, state)

(* k_process_switch always finds a process, so neither loop of kernal.c:19 and kernal.c:90
   spins, and the first never links a process into BLOCKED_QUEUE twice. *)
SwitchFindsProcess == current \in Clients => \E pri \in Priorities : procQ[pri] # <<>>

(* An i-process always knows where to return an envelope: what waits for the CRT, the
   keyboard or the timer carries the pid of the client that asked, and what waits for the
   timer carries the code without which timer_i_proc would drop it (iProcs.c:123). *)
InService == Range(envQ[DISPLAYQ]) \cup Range(envQ[KB]) \cup Range(envQ[TIMER]) \cup timing

ServiceRequestsValid ==
  /\ \A e \in InService : sender_pid[e] \in Clients
  /\ \A e \in Range(envQ[TIMER]) : msg_type[e] = "WAKEUP10"
  /\ envQ[CRT] = <<>>

(* No lost wakeup in k_receive_message: a process waiting for a message has none. *)
NoLostWakeup == \A p \in UserProcs : state[p] = "BLOCKED_ON_RCV" => envQ[p] = <<>>

(* Processes that k_release_msg_env has made runnable and that have not yet looked at
   FREE_ENV_QUEUE again. *)
Woken == {p \in UserProcs : call[p] = "request" /\ state[p] \in {"READY", "EXECUTING"}}

(* No lost wakeup in k_request_msg_env: while a process waits for an envelope, each free
   envelope has a woken process on its way to it. *)
NoStrandedEnvelope ==
  procQ[BLOCKED_QUEUE] # <<>> => Len(envQ[FREE_ENV_QUEUE]) <= Cardinality(Woken)

(* The processor goes to a process that no ready process outranks (proc_pq_dequeue). *)
DispatchByPriority ==
  [][current' # current =>
       \A p \in UserProcs : state'[p] = "READY" => Priority[current'] <= Priority[p]]_vars

(* An i-process keeps an envelope for the process that handed it in, and returns it to
   that process and no other: the kernel implements EnvelopeOwnership. *)
OwnerOf(e) ==
  IF e \in Range(envQ[FREE_ENV_QUEUE]) THEN [at |-> "free", pid |-> NoPid]
  ELSE IF \E p \in UserProcs : e \in held[p]
       THEN [at |-> "held", pid |-> CHOOSE p \in UserProcs : e \in held[p]]
  ELSE IF \E p \in UserProcs : e \in Range(envQ[p])
       THEN [at |-> "mail", pid |-> CHOOSE p \in UserProcs : e \in Range(envQ[p])]
  ELSE [at |-> "service", pid |-> sender_pid[e]]

Ownership == INSTANCE EnvelopeOwnership WITH owner <- [e \in Envelopes |-> OwnerOf(e)]
ImplementsOwnership == Ownership!Spec
=============================================================================
