----------------------------- MODULE AppsProofs -----------------------------
(***************************************************************************)
(* Proofs about Apps: the processes, as programs, are clients that Kernel  *)
(* allows; the reports reach C in order; the CCI and the clock never wait  *)
(* for an envelope; the clock sends what it does not have only after a     *)
(* text was overwritten or a second was over too soon; no three delays are *)
(* under way.                                                              *)
(***************************************************************************)
EXTENDS Apps, KernelProofs

(* The names of the programs, and the values of their variables. *)
Labels == {"receive_start", "release_start", "request", "fill", "send", "yield",
           "receive", "forward", "top", "await_ack", "delay", "await_wakeup", "release",
           "request_display", "request_input", "request_start", "prompt", "await_prompt",
           "ask", "await_input", "command", "await_answer", "request_timeout", "again", "print"}

AppTypes ==
  /\ pc \in [Clients -> Labels]
  /\ env \in [Clients -> Envelopes \cup {NoEnv}]
  /\ num_count \in Counts
  /\ data \in [Envelopes -> Counts \cup {NoEnv}]
  /\ msgQueue \in Seq(Envelopes)

(* A, B and C send, forward and keep only envelopes they hold; A's report carries the count, and C
   delays with, and releases, none that is in its local queue. *)
Hands ==
  /\ pc[A] = "send" => env[A] \in held[A] /\ IsReport(env[A]) /\ data[env[A]] = num_count
  /\ pc[B] = "forward" => env[B] \in held[B]
  /\ IsInjective(msgQueue) /\ Range(msgQueue) \subseteq held[C]
  /\ pc[C] \in {"delay", "release"} => env[C] \notin Range(msgQueue)

(* A report carries the count before it on; any other message leaves it.  The types of the messages
   and the counts they carry are parameters, for the same queue before and after a step. *)
Carries(e, type, carried, before, after) ==
  IF type[e] = "COUNT_REPORT" THEN carried[e] = before /\ after = NextCount(before)
  ELSE after = before

(* Along a queue: n[i] is the count after its first i messages. *)
Run(q, type, carried, first, last) ==
  \E n \in [0 .. Len(q) -> Counts] :
    /\ n[0] = first /\ n[Len(q)] = last
    /\ \A i \in 1 .. Len(q) : Carries(q[i], type, carried, n[i - 1], n[i])

(* From place to place on the way to C the count goes on where the place before left it; it begins
   with the one C awaits, and the last leaves the one that A has come to. *)
Chain ==
  \E x1, x2, x3 \in Counts :
    /\ Run(msgQueue, msg_type, data, awaited, x1)
    /\ Run(envQ[C], msg_type, data, x1, x2)
    /\ IF pc[B] = "forward" THEN Carries(env[B], msg_type, data, x2, x3) ELSE x3 = x2
    /\ Run(envQ[B], msg_type, data, x3, num_count)

(* Neither A nor B ever asks an i-process for anything. *)
Senders == \A e \in InService : sender_pid[e] \notin {A, B}

(* While the clock requests its envelopes no other process has run, and until the CCI has its
   three none sends to A: the free queue is long enough for both. *)
Wanted(p) ==
  CASE pc[p] = "request_display" /\ p = CCI -> 3
    [] pc[p] = "request_input"   -> 2
    [] pc[p] = "request_start"   -> 1
    [] pc[p] = "request_timeout" -> 2
    [] pc[p] = "request_display" /\ p = CLOCK -> 1
    [] OTHER -> 0

Starting(p) == pc[p] \in {"request_display", "request_input", "request_start", "request_timeout"}

StartInv ==
  /\ Starting(CLOCK) => current = CLOCK /\ pc[CCI] = "request_display"
  /\ Starting(CCI) =>
       /\ pc[A] = "receive_start" /\ envQ[A] = <<>>
       /\ Len(envQ[FREE_ENV_QUEUE]) >= Wanted(CCI) + Wanted(CLOCK)
  /\ pc[CLOCK] \notin {"request", "request_input", "request_start"}
  /\ pc[CCI] \notin {"request", "request_timeout"}

(* While no text has been overwritten, DISPLAYQ holds the one on the shared page and the one
   whose signal is pending. *)
One(condition) == IF condition THEN 1 ELSE 0

ConsoleInv ==
  /\ ok_flag \in {"OKAY_DISPLAY", "WAITING_TO_BE_WRITTEN"} /\ crt \in {"polling", "printing"}
  /\ crt = "printing" => ok_flag = "OKAY_DISPLAY"
  /\ ~ crossed => Len(envQ[DISPLAYQ]) = One(ok_flag = "OKAY_DISPLAY") + One(SIGUSR2)

(* The clock has two envelopes: the one that times the seconds is in one place, and the other is
   with the clock, on display, or on its way back. *)
Mails(type) == {e \in Range(envQ[CLOCK]) : msg_type[e] = type}
ClockShown  == {e \in Range(envQ[DISPLAYQ]) : sender_pid[e] = CLOCK}
ClockWaits  == {e \in Range(envQ[TIMER]) \cup timing : sender_pid[e] = CLOCK}
ClockTimers == ClockWaits \cup Mails("WAKEUP10") \cup ({env[CLOCK]} \ {NoEnv})

(* An acknowledgement may be missing, or a second have ended before it came. *)
Excused == crossed \/ late

ClockInv ==
  /\ pc[CLOCK] \in {"request_timeout", "request_display", "delay", "receive", "again", "print"}
  /\ state[CLOCK] = "BLOCKED_ON_RCV" => pc[CLOCK] = "receive"
  /\ pc[CLOCK] = "request_timeout" => ClockTimers = {}
  /\ Starting(CLOCK) => displayEnv = NoEnv
  /\ \A e, f \in ClockTimers : e = f
  /\ ClockShown \cup Mails("DISPLAY_ACK") \subseteq {displayEnv}
  /\ env[CLOCK] # NoEnv => env[CLOCK] \in held[CLOCK] /\ env[CLOCK] # displayEnv
  /\ ~ Starting(CLOCK) => displayEnv \in held[CLOCK] \cup ClockShown \cup Mails("DISPLAY_ACK")
  /\ ~ Excused /\ pc[CLOCK] = "print" => Mails("WAKEUP10") = {}
  /\ ~ Excused /\ (pc[CLOCK] \in {"again", "print"} \/ Mails("WAKEUP10") # {})
       => displayEnv \in held[CLOCK]
  /\ resent => Excused

(* A delay of C is in one place, and none is under way but while C waits for its end: nobody but
   the timer sends C a wakeup, for what B passes on to it are reports. *)
Delays   == Range(envQ[TIMER]) \cup timing
CWaits   == {e \in Delays : sender_pid[e] = C}
CWakeups == {e \in Range(envQ[C]) : msg_type[e] = "WAKEUP10"}
CTimers  == CWaits \cup CWakeups

DelayInv ==
  /\ \A e \in Delays : sender_pid[e] \in {C, CLOCK}
  /\ \A e, f \in CTimers : e = f
  /\ pc[C] # "await_wakeup" => CTimers = {}
  /\ \A e \in Range(envQ[B]) : IsReport(e)
  /\ pc[B] = "forward" => IsReport(env[B])

-----------------------------------------------------------------------------
(* The processes are clients of the kernel. *)

(* Five processes, pairwise distinct. *)
LEMMA Programs ==
  /\ Clients = {A, B, C, CCI, CLOCK} /\ Clients \subseteq UserProcs
  /\ A # B /\ A # C /\ A # CCI /\ A # CLOCK /\ B # C /\ B # CCI /\ B # CLOCK
  /\ C # CCI /\ C # CLOCK /\ CCI # CLOCK
  /\ NoEnv \notin Envelopes /\ NoEnv \notin Counts
<1> DEFINE t == <<A, B, C, CCI, CLOCK>>
<1>1. IsInjective(t)
  BY ProcessTable
<1>2. /\ DOMAIN t = 1 .. 5
      /\ t[1] = A /\ t[2] = B /\ t[3] = C /\ t[4] = CCI /\ t[5] = CLOCK
  OBVIOUS
<1> HIDE DEF t
<1>3. \A i, j \in 1 .. 5 : i # j => t[i] # t[j]
  BY <1>1, <1>2 DEF IsInjective
<1>4. /\ t[1] # t[2] /\ t[1] # t[3] /\ t[1] # t[4] /\ t[1] # t[5] /\ t[2] # t[3] /\ t[2] # t[4]
      /\ t[2] # t[5] /\ t[3] # t[4] /\ t[3] # t[5] /\ t[4] # t[5]
  BY <1>3
<1> QED BY <1>2, <1>4, ProcessTable, PoolAndCount DEF UserProcs

LEMMA CountsClosed == \A n \in Counts : NextCount(n) \in Counts
BY PoolAndCount DEF Counts, NextCount

(* A sequence of all elements of a set, each once, is one of its enumerations. *)
LEMMA Enumerates ==
  ASSUME NEW S, IsFiniteSet(S), NEW s \in Seq(S), IsInjective(s), Range(s) = S
  PROVE  s \in Enumerations(S)
<1>1. Len(s) = Cardinality(S)
  BY InjectiveFits
<1>2. s \in [1 .. Cardinality(S) -> S] /\ \A t \in S : \E i \in 1 .. Cardinality(S) : s[i] = t
  BY <1>1 DEF Range
<1> QED BY <1>2 DEF Enumerations, Bijection, Injection, Surjection, IsInjective

LEMMA TupleOfOne ==
  ASSUME NEW a
  PROVE  <<a>> \in Seq({a}) /\ IsInjective(<<a>>) /\ Range(<<a>>) = {a}
<1> DEFINE t == <<a>>
<1>1. t \in Seq({a}) /\ DOMAIN t = {1} /\ t[1] = a
  OBVIOUS
<1> HIDE DEF t
<1>2. t \in Seq({a}) /\ IsInjective(t) /\ Range(t) = {a}
  BY <1>1 DEF IsInjective, Range
<1> QED BY <1>2 DEF t

LEMMA TupleOfThree ==
  ASSUME NEW a, NEW b, NEW c, a # b, a # c, b # c
  PROVE  /\ <<a, b, c>> \in Seq({a, b, c}) /\ IsInjective(<<a, b, c>>)
         /\ Range(<<a, b, c>>) = {a, b, c}
<1> DEFINE t == <<a, b, c>>
<1>1. t \in Seq({a, b, c}) /\ DOMAIN t = 1 .. 3 /\ t[1] = a /\ t[2] = b /\ t[3] = c
  OBVIOUS
<1> HIDE DEF t
<1>2. 1 .. 3 = {1, 2, 3}
  OBVIOUS
<1>3. IsInjective(t)
  BY <1>1, <1>2 DEF IsInjective
<1>4. Range(t) = {t[1], t[2], t[3]}
  BY <1>1, <1>2 DEF Range
<1>5. t \in Seq({a, b, c}) /\ IsInjective(t) /\ Range(t) = {a, b, c}
  BY <1>1, <1>3, <1>4
<1> QED BY <1>5 DEF t

(* The first dispatch finds the queues as INIT_TABLE fills them. *)
LEMMA AppInitIsInit == AppInit => Init
<1> SUFFICES ASSUME AppInit PROVE Init
  OBVIOUS
<1> USE Names, Programs
<1>1. /\ NUM_PRIORITY_LEVEL \in Nat /\ NUM_PRIORITY_LEVEL > 2
      /\ Priority[NullProc] = NUM_PRIORITY_LEVEL - 1
      /\ Priority[A] = 1 /\ Priority[B] = 1 /\ Priority[C] = 1
      /\ Priority[CCI] = 0 /\ Priority[CLOCK] = 0
      /\ \A p \in UserProcs : Priority[p] \in 0 .. NUM_PRIORITY_LEVEL - 1
  BY ProcessTable, PrioritiesValid DEF Priorities
<1>2. /\ current = CLOCK
      /\ current \in {p \in UserProcs : \A q \in UserProcs : Priority[p] <= Priority[q]}
  BY <1>1 DEF AppInit
<1>3. ASSUME NEW q \in ProcQueues PROVE procQ[q] \in Enumerations(StartsOn(q))
  <2> DEFINE Lists == /\ procQ[q] \in Seq(StartsOn(q))
                      /\ IsInjective(procQ[q]) /\ Range(procQ[q]) = StartsOn(q)
  <2>1. procQ = [r \in ProcQueues |-> CASE r = 0 -> <<CCI>>
                                       [] r = 1 -> <<A, B, C>>
                                       [] r = Priority[NullProc] -> <<NullProc>>
                                       [] OTHER -> <<>>]
    BY DEF AppInit
  <2>2. IsFiniteSet(StartsOn(q))
    <3>1. IsFiniteSet(Clients \cup {NullProc})
      BY FiniteTables, FS_AddElement
    <3> QED BY <3>1, FS_Subset DEF StartsOn
  <2>3. ASSUME q = 0 PROVE Lists
    <3>1. procQ[q] = <<CCI>> /\ StartsOn(q) = {CCI}
      BY <1>1, <1>2, <2>1, <2>3 DEF StartsOn
    <3>2. <<CCI>> \in Seq({CCI}) /\ IsInjective(<<CCI>>) /\ Range(<<CCI>>) = {CCI}
      BY TupleOfOne
    <3> QED BY <3>1, <3>2
  <2>4. ASSUME q = 1 PROVE Lists
    <3>1. procQ[q] = <<A, B, C>> /\ StartsOn(q) = {A, B, C}
      BY <1>1, <1>2, <2>1, <2>4 DEF StartsOn
    <3>2. /\ <<A, B, C>> \in Seq({A, B, C}) /\ IsInjective(<<A, B, C>>)
          /\ Range(<<A, B, C>>) = {A, B, C}
      BY TupleOfThree
    <3> QED BY <3>1, <3>2
  <2>5. ASSUME q = Priority[NullProc] PROVE Lists
    <3>1. procQ[q] = <<NullProc>> /\ StartsOn(q) = {NullProc}
      BY <1>1, <1>2, <2>1, <2>5 DEF StartsOn
    <3>2. /\ <<NullProc>> \in Seq({NullProc}) /\ IsInjective(<<NullProc>>)
          /\ Range(<<NullProc>>) = {NullProc}
      BY TupleOfOne
    <3> QED BY <3>1, <3>2
  <2>6. ASSUME q \notin {0, 1, Priority[NullProc]} PROVE Lists
    <3>1. procQ[q] = <<>> /\ StartsOn(q) = {}
      BY <1>1, <1>2, <2>1, <2>6 DEF StartsOn
    <3> QED BY <3>1, EmptyQueue
  <2>7. Lists
    BY <2>3, <2>4, <2>5, <2>6
  <2> QED BY <2>2, <2>7, Enumerates
<1>4. procQ \in [ProcQueues -> UNION {Enumerations(StartsOn(q)) : q \in ProcQueues}]
  <2>1. procQ = [q \in ProcQueues |-> procQ[q]]
    BY DEF AppInit
  <2> QED BY <1>3, <2>1
<1> QED BY <1>2, <1>3, <1>4, PoolAndCount DEF AppInit, Init

(* A step of a program is a step of the kernel, or leaves it alone. *)
LEMMA ProcessesUseTheKernel ==
  ASSUME TypeOK, AppNext
  PROVE  [Next]_vars
<1> USE Programs DEF MayCall
<1>1. /\ \A p \in UserProcs : held[p] \subseteq Envelopes
      /\ current \in Clients => current \in UserProcs
  BY DEF TypeOK
<1>2. ASSUME NEW e, SendConsoleChars(e) \/ ReleaseMsgEnv(e) \/ RequestDelay(e) \/ GetConsoleChars(e)
                     \/ SetType(e)
      PROVE  Next
  <2>1. e \in Envelopes
    BY <1>1, <1>2 DEF SendConsoleChars, ReleaseMsgEnv, RequestDelay, GetConsoleChars, SetType
  <2> QED BY <1>2, <2>1 DEF Next
<1>3. ASSUME NEW e, NEW d \in Clients, SendMessage(d, e) PROVE Next
  <2>1. e \in Envelopes
    BY <1>1, <1>3 DEF SendMessage
  <2> QED BY <1>3, <2>1 DEF Next
<1>4. RequestMsgEnv \/ RequestBlocks \/ ReceiveMessage \/ ReceiveBlocks \/ ReleaseProcessor
        \/ crt_i_proc \/ kbd_i_proc \/ (\E e \in Envelopes : timer_i_proc(e)) => Next
  BY DEF Next
<1>5. CASE procA
  BY <1>2, <1>3, <1>4, <1>5 DEF procA, A_Start, A_Report
<1>6. CASE procB
  BY <1>2, <1>3, <1>4, <1>6 DEF procB
<1>7. CASE procC
  BY <1>2, <1>4, <1>7 DEF procC, C_Receive, C_Print, C_Discard, C_Yield, C_AwaitAck, C_Delay,
                          C_AwaitWakeup, C_Release, Receives, Display
<1>8. CASE cci_process
  BY <1>2, <1>3, <1>4, <1>8 DEF cci_process, CCI_Input, CCI_Silent, CCI_Start, CCI_Prompt, CCI_StartsA,
                                CCI_Answer, cci_print, cci_printed, Receives, Display, vars
<1>9. CASE clock_process
  BY <1>2, <1>4, <1>9 DEF clock_process, CLOCK_Start, CLOCK_Acknowledged, CLOCK_Second, CLOCK_Print,
                          CLOCK_PrintsAgain, Receives, Display, vars
<1>10. CASE null_process \/ Suspends
  BY <1>4, <1>10 DEF null_process, Suspends
<1>11. CASE CrtPrints \/ CrtSignals \/ Derailed
  BY <1>11 DEF CrtPrints, CrtSignals, Derailed, appVars, vars
<1>12. CASE crt_handler \/ kbd_handler \/ \E p \in {C, CLOCK} : timer_handler(p)
  BY <1>4, <1>12 DEF crt_handler, kbd_handler, timer_handler
<1> QED
  BY <1>5, <1>6, <1>7, <1>8, <1>9, <1>10, <1>11, <1>12 DEF AppNext

(* Processes A, B, C, the clock and the CCI use only envelopes they hold, as Kernel requires of
   its clients: whatever is proved of Kernel holds of them. *)
THEOREM AppsAreClients == AppSpec => Spec
<1>1. KernelInv /\ [AppNext]_appVars => [Next]_vars
  BY ProcessesUseTheKernel DEF KernelInv, appVars, vars
<1>2. Init => KernelInv
  BY InitKernelInv
<1>3. KernelInv /\ [Next]_vars => KernelInv'
  BY NextKernelInv
<1> QED BY <1>1, <1>2, <1>3, AppInitIsInit, PTL DEF AppSpec, Spec
-----------------------------------------------------------------------------
(* What the primitives and the handlers change, by kind. *)

OthersHold  == \A p \in UserProcs \ {current} : held'[p] = held[p]
Relabels(e) == \A f \in Envelopes \ {e} : sender_pid'[f] = sender_pid[f] /\ msg_type'[f] = msg_type[f]
Wakes       == \A p \in UserProcs : state'[p] \in {state[p], "READY"}

(* The running process takes e, the first envelope of q. *)
Takes(q, e) ==
  /\ current \in Clients /\ current' = current /\ state' = state
  /\ e \in Envelopes /\ e \in Range(envQ[q]) /\ envQ[q] # <<>> /\ e = Head(envQ[q])
  /\ envQ'[q] = Tail(envQ[q]) /\ Range(envQ'[q]) = Range(envQ[q]) \ {e}
  /\ \A r \in EnvQueues \ {q} : envQ'[r] = envQ[r]
  /\ held'[current] = held[current] \cup {e} /\ OthersHold
  /\ timing' = timing /\ msg_type' = msg_type /\ Relabels(e)

(* It puts e, which it holds, at the end of q. *)
Gives(q, e) ==
  /\ current \in Clients /\ current' = current /\ Wakes
  /\ e \in Envelopes /\ e \in held[current]
  /\ envQ'[q] = Append(envQ[q], e) /\ Range(envQ'[q]) = Range(envQ[q]) \cup {e}
  /\ \A r \in EnvQueues \ {q} : envQ'[r] = envQ[r]
  /\ held'[current] = held[current] \ {e} /\ OthersHold
  /\ timing' = timing /\ Relabels(e)
  /\ q # FREE_ENV_QUEUE => sender_pid'[e] = current

(* It leaves the processor in state ns, or keeps it. *)
Switches(ns) ==
  /\ \A p \in UserProcs \ {current} : state'[p] \in {state[p], "EXECUTING"}
  /\ state'[current] \in {"EXECUTING", ns}
  /\ UNCHANGED <<envQ, held, timing, sender_pid, msg_type>>

(* A handler returns e, of a type of its own, to the process that handed it in. *)
Returns(e, type) ==
  /\ e \in Envelopes /\ e \in InService /\ sender_pid[e] \in Clients
  /\ current' = current /\ held' = held /\ Wakes
  /\ envQ'[sender_pid[e]] = Append(envQ[sender_pid[e]], e)
  /\ Range(envQ'[sender_pid[e]]) = Range(envQ[sender_pid[e]]) \cup {e}
  /\ \A r \in EnvQueues \ {sender_pid[e], DISPLAYQ, KB, TIMER} : envQ'[r] = envQ[r]
  /\ InService' \subseteq InService \ {e}
  /\ msg_type'[e] = type /\ Relabels(e)

LEMMA RequestTakes ==
  ASSUME KernelInv, RequestMsgEnv
  PROVE  Takes(FREE_ENV_QUEUE, FirstFree)
<1>1. /\ envQ \in EnvQueueTables /\ FREE_ENV_QUEUE \in EnvQueues /\ current \in UserProcs
      /\ IsInjective(envQ[FREE_ENV_QUEUE]) /\ TypeOK
  BY Basics, Names
<1>2. envQ[FREE_ENV_QUEUE] # <<>> /\ current \in Clients
  BY DEF RequestMsgEnv, In
<1>3. /\ Head(envQ[FREE_ENV_QUEUE]) \in Envelopes
      /\ Head(envQ[FREE_ENV_QUEUE]) \in Range(envQ[FREE_ENV_QUEUE])
      /\ \A r \in EnvQueues \ {FREE_ENV_QUEUE} : envQ'[r] = envQ[r]
      /\ Range(envQ'[FREE_ENV_QUEUE]) = Range(envQ[FREE_ENV_QUEUE]) \ {Head(envQ[FREE_ENV_QUEUE])}
  BY <1>1, <1>2, TableDequeue DEF RequestMsgEnv
<1>4. envQ'[FREE_ENV_QUEUE] = Tail(envQ[FREE_ENV_QUEUE])
  BY <1>1 DEF RequestMsgEnv, MsgEnvQ_dequeue, EnvQueueTables
<1> QED BY <1>1, <1>2, <1>3, <1>4 DEF RequestMsgEnv, Takes, FirstFree, OthersHold, Relabels, TypeOK

LEMMA ReceiveTakes ==
  ASSUME KernelInv, ReceiveMessage
  PROVE  Takes(current, Mail(current))
<1>1. /\ envQ \in EnvQueueTables /\ current \in UserProcs /\ current \in EnvQueues
      /\ IsInjective(envQ[current]) /\ TypeOK
  BY Basics, Names
<1>2. envQ[current] # <<>> /\ current \in Clients
  BY DEF ReceiveMessage, In
<1>3. /\ Head(envQ[current]) \in Envelopes
      /\ Head(envQ[current]) \in Range(envQ[current])
      /\ \A r \in EnvQueues \ {current} : envQ'[r] = envQ[r]
      /\ Range(envQ'[current]) = Range(envQ[current]) \ {Head(envQ[current])}
  BY <1>1, <1>2, TableDequeue DEF ReceiveMessage
<1>4. envQ'[current] = Tail(envQ[current])
  BY <1>1 DEF ReceiveMessage, MsgEnvQ_dequeue, EnvQueueTables
<1> QED BY <1>1, <1>2, <1>3, <1>4 DEF ReceiveMessage, Takes, Mail, OthersHold, Relabels, TypeOK

(* The primitives that hand an envelope in, with the queue each puts it on. *)
LEMMA PrimitiveGives ==
  ASSUME KernelInv, NEW q \in EnvQueues, NEW e, MayCall, e \in held[current],
         held' = [held EXCEPT ![current] = @ \ {e}],
         envQ' = MsgEnvQ_enqueue(envQ, q, e),
         UNCHANGED <<current, timing>>, Relabels(e), Wakes,
         q # FREE_ENV_QUEUE => sender_pid'[e] = current
  PROVE  Gives(q, e)
<1>1. envQ \in EnvQueueTables /\ current \in UserProcs /\ TypeOK
  BY Basics
<1>2. e \in Envelopes /\ current \in Clients
  BY <1>1 DEF TypeOK, MayCall
<1>3. /\ \A r \in EnvQueues \ {q} : envQ'[r] = envQ[r]
      /\ Range(envQ'[q]) = Range(envQ[q]) \cup {e}
  BY <1>1, <1>2, SentTo
<1>4. envQ'[q] = Append(envQ[q], e)
  BY <1>1 DEF MsgEnvQ_enqueue, EnvQueueTables
<1> QED BY <1>1, <1>2, <1>3, <1>4 DEF Gives, OthersHold, TypeOK

LEMMA SendGives ==
  ASSUME KernelInv, NEW q \in Procs, NEW e, MayCall, e \in held[current],
         held' = [held EXCEPT ![current] = @ \ {e}],
         k_send_message(envQ, current, q, e),
         UNCHANGED <<current, timing>>, \A f \in Envelopes \ {e} : msg_type'[f] = msg_type[f]
  PROVE  Gives(q, e)
<1>1. q \in EnvQueues /\ TypeOK /\ ProcessRoles /\ envQ \in EnvQueueTables
  BY Names, Basics
<1>2. /\ envQ' = MsgEnvQ_enqueue(envQ, q, e)
      /\ sender_pid' = [sender_pid EXCEPT ![e] = current]
      /\ \A p \in UserProcs : state'[p] \in {state[p], "READY"}
  BY <1>1, SendStates DEF k_send_message
<1>3. e \in Envelopes
  BY <1>1, Basics DEF TypeOK
<1>4. Relabels(e) /\ Wakes /\ sender_pid'[e] = current
  BY <1>1, <1>2, <1>3 DEF Relabels, Wakes, TypeOK
<1> QED BY <1>1, <1>2, <1>4, PrimitiveGives

LEMMA SendMessageGives ==
  ASSUME KernelInv, NEW d \in Clients, NEW e, SendMessage(d, e)
  PROVE  Gives(d, e) /\ msg_type' = msg_type
BY SendGives, Names DEF SendMessage

LEMMA GetConsoleCharsGives ==
  ASSUME KernelInv, NEW e, GetConsoleChars(e)
  PROVE  Gives(KB, e) /\ msg_type' = msg_type
BY SendGives, Names DEF GetConsoleChars

LEMMA RequestDelayGives ==
  ASSUME KernelInv, NEW e, RequestDelay(e)
  PROVE  Gives(TIMER, e)
<1>1. \A f \in Envelopes \ {e} : msg_type'[f] = msg_type[f]
  BY Basics DEF RequestDelay, TypeOK
<1> QED BY <1>1, SendGives, Names DEF RequestDelay

LEMMA DisplayGives ==
  ASSUME KernelInv, NEW e, Display(e)
  PROVE  Gives(DISPLAYQ, e) /\ msg_type' = msg_type
<1>1. SendConsoleChars(e) /\ MayCall /\ e \in held[current] /\ DISPLAYQ \in EnvQueues
  BY Names DEF Display, SendConsoleChars
<1>2. e \in Envelopes /\ TypeOK
  BY <1>1, Basics DEF TypeOK
<1>3. envQ' = MsgEnvQ_enqueue(envQ, DISPLAYQ, e)
  BY <1>1, <1>2, DisplayHandOver
<1>4. Relabels(e) /\ Wakes /\ sender_pid'[e] = current /\ msg_type' = msg_type
  BY <1>1, <1>2 DEF SendConsoleChars, Relabels, Wakes, TypeOK
<1> QED BY <1>1, <1>3, <1>4, PrimitiveGives DEF SendConsoleChars

LEMMA ReleaseGives ==
  ASSUME KernelInv, NEW e, ReleaseMsgEnv(e)
  PROVE  Gives(FREE_ENV_QUEUE, e) /\ msg_type' = msg_type
<1>1. FREE_ENV_QUEUE \in EnvQueues /\ TypeOK /\ current \in UserProcs
  BY Names, Basics
<1>2. e \in Envelopes
  BY <1>1 DEF ReleaseMsgEnv, TypeOK
<1>3. Relabels(e) /\ msg_type' = msg_type
  BY <1>1, <1>2 DEF ReleaseMsgEnv, Relabels, TypeOK
<1>4. Wakes
  BY <1>1, Names DEF ReleaseMsgEnv, Wakes, TypeOK
<1> QED BY <1>1, <1>3, <1>4, PrimitiveGives DEF ReleaseMsgEnv

LEMMA PrimitiveSwitches ==
  ASSUME KernelInv, NEW pq, NEW ns, k_process_switch(pq, ns), BLOCKED_QUEUE \in DOMAIN pq,
         UNCHANGED <<envQ, held, timing, sender_pid, msg_type>>
  PROVE  Switches(ns)
BY Basics, SwitchStates DEF Switches

LEMMA SwitchesByKind ==
  ASSUME KernelInv
  PROVE  /\ RequestBlocks    => Switches("BLOCKED_ON_ENV_REQUEST")
         /\ ReceiveBlocks    => Switches("BLOCKED_ON_RCV")
         /\ ReleaseProcessor => Switches("READY")
<1>1. /\ BLOCKED_QUEUE \in DOMAIN procQ
      /\ \A q, p : BLOCKED_QUEUE \in DOMAIN proc_q_enqueue(procQ, q, p)
  BY Basics, PrioritiesValid DEF TypeOK, proc_q_enqueue, BLOCKED_QUEUE, ProcQueues
<1> QED BY <1>1, PrimitiveSwitches DEF RequestBlocks, ReceiveBlocks, ReleaseProcessor, proc_pq_enqueue

(* An i-process that has taken e from its queue sends it back. *)
LEMMA HandlerReturns ==
  ASSUME KernelInv, KernelInv', NEW e \in InService, NEW eq \in EnvQueueTables, NEW from, NEW type,
         \A r \in EnvQueues \ {DISPLAYQ, KB, TIMER} : eq[r] = envQ[r],
         (Range(eq[DISPLAYQ]) \cup Range(eq[KB]) \cup Range(eq[TIMER]) \cup timing')
           \subseteq InService \ {e},
         msg_type' = [msg_type EXCEPT ![e] = type],
         k_send_message(eq, from, sender_pid[e], e),
         UNCHANGED <<current, held>>
  PROVE  /\ Returns(e, type)
         /\ \A r \in {DISPLAYQ, KB, TIMER} : envQ'[r] = eq[r]
<1>1. /\ TypeOK /\ ProcessRoles /\ sender_pid[e] \in Clients /\ Clients \subseteq Procs
      /\ e \in Envelopes
  BY Basics, Names DEF ServiceRequestsValid, InService, TypeOK
<1>2. PICK d \in Clients : d = sender_pid[e]
  BY <1>1
<1>3. /\ envQ' = MsgEnvQ_enqueue(eq, d, e)
      /\ sender_pid' = [sender_pid EXCEPT ![e] = from]
  BY <1>1, <1>2 DEF k_send_message
<1>4. Wakes
  BY <1>1, SendStates DEF Wakes
<1>5. d \in EnvQueues /\ d \notin {DISPLAYQ, KB, TIMER} /\ eq[d] \in Seq(Envelopes)
  BY <1>2, Names DEF EnvQueueTables
<1>6. /\ envQ'[d] = Append(eq[d], e)
      /\ Range(envQ'[d]) = Range(eq[d]) \cup {e}
      /\ \A r \in EnvQueues \ {d} : envQ'[r] = eq[r]
  <2>1. envQ'[d] = Append(eq[d], e) /\ \A r \in EnvQueues \ {d} : envQ'[r] = eq[r]
    BY <1>3, <1>5 DEF MsgEnvQ_enqueue, EnvQueueTables
  <2> QED BY <2>1, <1>1, <1>5, Enqueued
<1>7. \A r \in {DISPLAYQ, KB, TIMER} : envQ'[r] = eq[r]
  BY <1>2, <1>6, Names
<1>8. InService' \subseteq InService \ {e}
  BY <1>7 DEF InService
<1>9. Relabels(e) /\ msg_type'[e] = type
  BY <1>1, <1>3 DEF Relabels, TypeOK
<1>10. \A r \in EnvQueues \ {d, DISPLAYQ, KB, TIMER} : envQ'[r] = envQ[r]
  BY <1>6
<1> QED BY <1>1, <1>2, <1>4, <1>5, <1>6, <1>7, <1>8, <1>9, <1>10 DEF Returns

LEMMA CrtReturns ==
  ASSUME KernelInv, KernelInv', crt_i_proc
  PROVE  /\ Returns(Head(envQ[DISPLAYQ]), "DISPLAY_ACK")
         /\ envQ[DISPLAYQ] # <<>> /\ Head(envQ[DISPLAYQ]) \in Range(envQ[DISPLAYQ])
         /\ envQ'[DISPLAYQ] = Tail(envQ[DISPLAYQ])
         /\ Range(envQ'[DISPLAYQ]) = Range(envQ[DISPLAYQ]) \ {Head(envQ[DISPLAYQ])}
         /\ envQ'[TIMER] = envQ[TIMER] /\ timing' = timing
<1>1. /\ envQ \in EnvQueueTables /\ IsInjective(envQ[DISPLAYQ]) /\ Conserved(envQ, held, timing)
      /\ DISPLAYQ \in EnvQueues /\ KB \in EnvQueues /\ TIMER \in EnvQueues
      /\ DISPLAYQ # KB /\ DISPLAYQ # TIMER
  BY Basics, Names
<1>2. envQ[DISPLAYQ] # <<>> /\ timing' = timing
  BY DEF crt_i_proc
<1>3. PICK eq \in EnvQueueTables : eq = MsgEnvQ_dequeue(envQ, DISPLAYQ)
  BY <1>1, <1>2, TableDequeue
<1>4. PICK e \in InService : e = Head(envQ[DISPLAYQ]) /\ e \in Range(envQ[DISPLAYQ])
  BY <1>1, <1>2, TableDequeue DEF InService
<1>5. /\ \A r \in EnvQueues \ {DISPLAYQ} : eq[r] = envQ[r]
      /\ Range(eq[DISPLAYQ]) = Range(envQ[DISPLAYQ]) \ {e}
      /\ eq[DISPLAYQ] = Tail(envQ[DISPLAYQ])
  BY <1>1, <1>2, <1>3, <1>4, TableDequeue DEF MsgEnvQ_dequeue, EnvQueueTables
<1>6. e \notin Range(envQ[KB]) /\ e \notin Range(envQ[TIMER]) /\ e \notin timing
  BY <1>1, <1>4 DEF Conserved
<1>7. (Range(eq[DISPLAYQ]) \cup Range(eq[KB]) \cup Range(eq[TIMER]) \cup timing')
        \subseteq InService \ {e}
  BY <1>1, <1>2, <1>5, <1>6 DEF InService
<1>8. /\ Returns(e, "DISPLAY_ACK")
      /\ \A r \in {DISPLAYQ, KB, TIMER} : envQ'[r] = eq[r]
  <2>1. /\ msg_type' = [msg_type EXCEPT ![e] = "DISPLAY_ACK"]
        /\ k_send_message(eq, CRT, sender_pid[e], e) /\ UNCHANGED <<current, held>>
    BY <1>3, <1>4 DEF crt_i_proc
  <2>2. \A r \in EnvQueues \ {DISPLAYQ, KB, TIMER} : eq[r] = envQ[r]
    BY <1>5
  <2> QED BY <1>7, <2>1, <2>2, HandlerReturns
<1> QED BY <1>1, <1>2, <1>4, <1>5, <1>8

LEMMA KbdReturns ==
  ASSUME KernelInv, KernelInv', kbd_i_proc
  PROVE  /\ Returns(Head(envQ[KB]), "CONSOLE_INPUT")
         /\ Head(envQ[KB]) \in Range(envQ[KB])
         /\ envQ'[DISPLAYQ] = envQ[DISPLAYQ] /\ envQ'[TIMER] = envQ[TIMER] /\ timing' = timing
<1>1. /\ envQ \in EnvQueueTables /\ IsInjective(envQ[KB]) /\ Conserved(envQ, held, timing)
      /\ DISPLAYQ \in EnvQueues /\ KB \in EnvQueues /\ TIMER \in EnvQueues
      /\ DISPLAYQ # KB /\ KB # TIMER
  BY Basics, Names
<1>2. envQ[KB] # <<>> /\ timing' = timing
  BY DEF kbd_i_proc
<1>3. PICK eq \in EnvQueueTables : eq = MsgEnvQ_dequeue(envQ, KB)
  BY <1>1, <1>2, TableDequeue
<1>4. PICK e \in InService : e = Head(envQ[KB]) /\ e \in Range(envQ[KB])
  BY <1>1, <1>2, TableDequeue DEF InService
<1>5. /\ \A r \in EnvQueues \ {KB} : eq[r] = envQ[r]
      /\ Range(eq[KB]) = Range(envQ[KB]) \ {e}
  BY <1>1, <1>2, <1>3, <1>4, TableDequeue
<1>6. e \notin Range(envQ[DISPLAYQ]) /\ e \notin Range(envQ[TIMER]) /\ e \notin timing
  BY <1>1, <1>4 DEF Conserved
<1>7. (Range(eq[DISPLAYQ]) \cup Range(eq[KB]) \cup Range(eq[TIMER]) \cup timing')
        \subseteq InService \ {e}
  BY <1>1, <1>2, <1>5, <1>6 DEF InService
<1>8. /\ Returns(e, "CONSOLE_INPUT")
      /\ \A r \in {DISPLAYQ, KB, TIMER} : envQ'[r] = eq[r]
  <2>1. /\ msg_type' = [msg_type EXCEPT ![e] = "CONSOLE_INPUT"]
        /\ k_send_message(eq, KB, sender_pid[e], e) /\ UNCHANGED <<current, held>>
    BY <1>3, <1>4 DEF kbd_i_proc
  <2>2. \A r \in EnvQueues \ {DISPLAYQ, KB, TIMER} : eq[r] = envQ[r]
    BY <1>5
  <2> QED BY <1>7, <2>1, <2>2, HandlerReturns
<1> QED BY <1>1, <1>2, <1>4, <1>5, <1>8

LEMMA TimerReturns ==
  ASSUME KernelInv, KernelInv', NEW e, timer_i_proc(e)
  PROVE  /\ Returns(e, "WAKEUP10")
         /\ e \in Range(envQ[TIMER]) \cup timing
         /\ envQ'[DISPLAYQ] = envQ[DISPLAYQ]
         /\ (Range(envQ[TIMER]) \cup timing)' \subseteq (Range(envQ[TIMER]) \cup timing) \ {e}
<1>1. /\ envQ \in EnvQueueTables /\ Conserved(envQ, held, timing)
      /\ DISPLAYQ \in EnvQueues /\ KB \in EnvQueues /\ TIMER \in EnvQueues
      /\ DISPLAYQ # TIMER /\ KB # TIMER /\ DISPLAYQ # KB
  BY Basics, Names
<1>2. /\ e \in timing \cup Drained /\ timing' = (timing \cup Drained) \ {e}
      /\ Drained = Range(envQ[TIMER])
  BY Basics, Drain DEF timer_i_proc
<1>3. PICK eq \in EnvQueueTables : eq = AfterDrain
  BY Ticked
<1>4. (\A r \in EnvQueues \ {TIMER} : eq[r] = envQ[r]) /\ Range(eq[TIMER]) = {}
  BY <1>3, Ticked
<1>5. e \in InService /\ e \notin Range(envQ[DISPLAYQ]) /\ e \notin Range(envQ[KB])
  BY <1>1, <1>2 DEF InService, Conserved
<1>6. (Range(eq[DISPLAYQ]) \cup Range(eq[KB]) \cup Range(eq[TIMER]) \cup timing')
        \subseteq InService \ {e}
  BY <1>1, <1>2, <1>4, <1>5 DEF InService
<1>7. /\ Returns(e, "WAKEUP10")
      /\ \A r \in {DISPLAYQ, KB, TIMER} : envQ'[r] = eq[r]
  BY <1>3, <1>4, <1>5, <1>6, HandlerReturns DEF timer_i_proc
<1> QED BY <1>1, <1>2, <1>4, <1>7

-----------------------------------------------------------------------------
(* What each program may do, by kind. *)

(* Process A marks an envelope it holds as a report. *)
Marks(e) ==
  /\ e \in Envelopes /\ e \in held[current] /\ Relabels(e)
  /\ UNCHANGED <<envQ, state, current, held, timing, sender_pid>>

(* A step of process p that displays nothing, takes envelopes from the first queues and puts
   them on the second. *)
Works(p, from, to) ==
  /\ current = p /\ UNCHANGED console
  /\ \/ UNCHANGED vars
     \/ \E q \in from : \E e : Takes(q, e)
     \/ \E q \in to : \E e : Gives(q, e)
     \/ \E e : Marks(e)
     \/ Switches("READY")

Shows(p) ==
  /\ current = p /\ resent' = resent
  /\ \E e : Display(e) /\ Gives(DISPLAYQ, e) /\ msg_type' = msg_type

LEMMA Kinds ==
  ASSUME KernelInv
  PROVE  /\ RequestMsgEnv  => Takes(FREE_ENV_QUEUE, FirstFree)
         /\ ReceiveMessage => Takes(current, Mail(current))
         /\ \A d \in Clients : \A e : SendMessage(d, e) => Gives(d, e)
         /\ \A e : /\ GetConsoleChars(e) => Gives(KB, e)
                   /\ RequestDelay(e)    => Gives(TIMER, e)
                   /\ ReleaseMsgEnv(e)   => Gives(FREE_ENV_QUEUE, e)
                   /\ Display(e)         => Gives(DISPLAYQ, e) /\ msg_type' = msg_type
                   /\ SetType(e)         => Marks(e)
         /\ RequestBlocks    => Switches("BLOCKED_ON_ENV_REQUEST")
         /\ ReceiveBlocks    => Switches("BLOCKED_ON_RCV")
         /\ ReleaseProcessor => Switches("READY")
<1>1. ASSUME NEW e, SetType(e) PROVE Marks(e)
  BY <1>1, Basics, Names DEF SetType, MayCall, Marks, Relabels, TypeOK
<1> QED
  BY <1>1, RequestTakes, ReceiveTakes, SendMessageGives, GetConsoleCharsGives, RequestDelayGives,
     ReleaseGives, DisplayGives, SwitchesByKind

LEMMA WorkOfA ==
  ASSUME KernelInv, procA
  PROVE  Works(A, {FREE_ENV_QUEUE, A}, {FREE_ENV_QUEUE, B}) /\ resent' = resent
<1>1. current = A /\ Quiet /\ B \in Clients
  BY Programs DEF procA, A_Start, A_Report, At
<1>2. CASE A_Start
  BY <1>1, <1>2, Kinds DEF A_Start, Works, Quiet
<1>3. CASE A_Report
  BY <1>1, <1>3, Kinds DEF A_Report, Works, Quiet
<1> QED BY <1>2, <1>3, <1>1 DEF procA, Quiet

LEMMA WorkOfB ==
  ASSUME KernelInv, procB
  PROVE  Works(B, {B}, {C}) /\ resent' = resent
<1>1. current = B /\ Quiet /\ C \in Clients
  BY Programs DEF procB, At
<1>2. ReceiveMessage \/ SendMessage(C, env[B]) \/ ReleaseProcessor
  BY DEF procB
<1> QED BY <1>1, <1>2, Kinds DEF Works, Quiet

LEMMA WorkOfC ==
  ASSUME KernelInv, procC
  PROVE  Shows(C) \/ (Works(C, {C}, {FREE_ENV_QUEUE, TIMER}) /\ resent' = resent)
<1>1. current = C
  BY DEF procC, C_Receive, C_Print, C_Discard, C_Yield, C_AwaitAck, C_Delay, C_AwaitWakeup,
         C_Release, At
<1>2. CASE C_Print
  BY <1>1, <1>2, Kinds DEF C_Print, Display, Shows
<1>3. CASE ~ C_Print
  <2>1. /\ Quiet
        /\ \/ ReceiveMessage \/ ReleaseProcessor
           \/ \E e : ReleaseMsgEnv(e) \/ RequestDelay(e)
    BY <1>3 DEF procC, C_Receive, C_Discard, C_Yield, C_AwaitAck, C_Delay, C_AwaitWakeup,
                C_Release, Receives
  <2> QED BY <1>1, <2>1, Kinds DEF Works, Quiet
<1> QED BY <1>2, <1>3

LEMMA WorkOfCCI ==
  ASSUME KernelInv, cci_process
  PROVE  Shows(CCI) \/ (Works(CCI, {FREE_ENV_QUEUE, CCI}, {KB, A}) /\ resent' = resent)
<1>1. current = CCI /\ A \in Clients
  BY Programs DEF cci_process, CCI_Input, CCI_Silent, CCI_Start, CCI_Prompt, CCI_StartsA, CCI_Answer, At
<1>2. \/ \E e : Display(e)
      \/ /\ Quiet
         /\ \/ UNCHANGED vars \/ RequestMsgEnv \/ ReceiveMessage
            \/ SendMessage(A, a_env) \/ \E e : GetConsoleChars(e)
  BY DEF cci_process, CCI_Input, CCI_Silent, CCI_Start, CCI_Prompt, CCI_StartsA, CCI_Answer,
         cci_print, cci_printed, Receives
<1>3. CASE \E e : Display(e)
  BY <1>1, <1>3, Kinds DEF Display, Shows
<1> QED BY <1>1, <1>2, <1>3, Kinds DEF Works, Quiet

LEMMA WorkOfClock ==
  ASSUME KernelInv, clock_process
  PROVE  Shows(CLOCK) \/ Works(CLOCK, {FREE_ENV_QUEUE, CLOCK}, {TIMER})
<1>1. current = CLOCK
  BY DEF clock_process, CLOCK_Start, CLOCK_Acknowledged, CLOCK_Second, CLOCK_Print,
         CLOCK_PrintsAgain, At
<1>2. \/ \E e : Display(e)
      \/ /\ UNCHANGED console
         /\ \/ UNCHANGED vars \/ RequestMsgEnv \/ ReceiveMessage \/ \E e : RequestDelay(e)
  BY DEF clock_process, CLOCK_Start, CLOCK_Acknowledged, CLOCK_Second, CLOCK_Print,
         CLOCK_PrintsAgain, Receives, Quiet
<1>3. CASE \E e : Display(e)
  BY <1>1, <1>3, Kinds DEF Display, Shows
<1> QED BY <1>1, <1>2, <1>3, Kinds DEF Works

LEMMA WorkOfOthers ==
  ASSUME KernelInv, null_process \/ Suspends
  PROVE  /\ Quiet /\ UNCHANGED programs
         /\ \E ns \in {"BLOCKED_ON_ENV_REQUEST", "BLOCKED_ON_RCV", "READY"} : Switches(ns)
BY Kinds DEF null_process, Suspends

-----------------------------------------------------------------------------
(* The console. *)

LEMMA QuietConsole ==
  ASSUME ConsoleInv, UNCHANGED <<ok_flag, crt, SIGUSR2, crossed>>,
         envQ'[DISPLAYQ] = envQ[DISPLAYQ]
  PROVE  ConsoleInv'
BY DEF ConsoleInv

LEMMA WorksQuietly ==
  ASSUME KernelInv, ConsoleInv, NEW p \in Clients, NEW from, NEW to, Works(p, from, to),
         DISPLAYQ \notin from \cup to
  PROVE  ConsoleInv'
<1>1. envQ'[DISPLAYQ] = envQ[DISPLAYQ]
  BY Names DEF Works, vars, Takes, Gives, Marks, Switches
<1> QED BY <1>1, QuietConsole DEF Works, console

LEMMA ShowsConsole ==
  ASSUME KernelInv, ConsoleInv, NEW p, Shows(p)
  PROVE  ConsoleInv'
<1>1. PICK e \in Envelopes : Display(e) /\ envQ'[DISPLAYQ] = Append(envQ[DISPLAYQ], e)
  BY DEF Shows, Gives
<1>2. envQ[DISPLAYQ] \in Seq(Envelopes)
  BY Basics, Names DEF TypeOK
<1>3. Len(envQ'[DISPLAYQ]) = Len(envQ[DISPLAYQ]) + 1 /\ Len(envQ[DISPLAYQ]) \in Nat
  BY <1>1, <1>2
<1>4. /\ ok_flag' = "OKAY_DISPLAY" /\ crt' = crt /\ SIGUSR2' = SIGUSR2
      /\ ~ crossed' => ~ crossed /\ ok_flag # "OKAY_DISPLAY"
  BY <1>1, Zenon DEF Display
<1>5. One(TRUE) = 1 /\ One(ok_flag = "OKAY_DISPLAY") \in Nat /\ One(SIGUSR2) \in {0, 1}
  BY DEF One
<1>6. ~ crossed' => Len(envQ'[DISPLAYQ]) = 1 + One(SIGUSR2)
  BY <1>3, <1>4, <1>5 DEF ConsoleInv, One
<1> QED BY <1>4, <1>5, <1>6 DEF ConsoleInv

LEMMA ConsoleStep ==
  ASSUME KernelInv, KernelInv', ConsoleInv, AppNext
  PROVE  ConsoleInv'
<1> USE Programs, Names
<1>1. CASE procA
  BY <1>1, WorkOfA, WorksQuietly
<1>2. CASE procB
  BY <1>2, WorkOfB, WorksQuietly
<1>3. CASE procC
  BY <1>3, WorkOfC, WorksQuietly, ShowsConsole
<1>4. CASE cci_process
  BY <1>4, WorkOfCCI, WorksQuietly, ShowsConsole
<1>5. CASE clock_process
  BY <1>5, WorkOfClock, WorksQuietly, ShowsConsole
<1>6. CASE null_process \/ Suspends
  BY <1>6, WorkOfOthers, QuietConsole DEF Quiet, Switches, console
<1>7. CASE CrtPrints
  BY <1>7 DEF CrtPrints, ConsoleInv, vars
<1>12. CASE CrtSignals
  <2>1. /\ ok_flag = "OKAY_DISPLAY" /\ ok_flag' = "WAITING_TO_BE_WRITTEN" /\ crt' = "polling"
        /\ SIGUSR2' /\ envQ' = envQ
        /\ ~ crossed' => ~ crossed /\ ~ SIGUSR2
    <3>1. SIGUSR2' /\ (~ crossed' => ~ crossed /\ ~ SIGUSR2)
      BY <1>12, Zenon DEF CrtSignals
    <3> QED BY <1>12, <3>1 DEF CrtSignals, ConsoleInv, vars
  <2>2. /\ One(SIGUSR2') = 1 /\ One(ok_flag' = "OKAY_DISPLAY") = 0
        /\ ~ SIGUSR2 => One(SIGUSR2) = 0
    BY <2>1, Zenon DEF One
  <2>3. One(ok_flag = "OKAY_DISPLAY") = 1
    BY <2>1 DEF One
  <2>4. ~ crossed' => Len(envQ[DISPLAYQ]) = One(ok_flag = "OKAY_DISPLAY") + One(SIGUSR2)
    BY <2>1, Zenon DEF ConsoleInv
  <2>5. ~ crossed' => Len(envQ[DISPLAYQ]) = 1 + 0
    BY <2>1, <2>2, <2>3, <2>4, Zenon
  <2>6. 1 + 0 = 0 + 1
    OBVIOUS
  <2>7. ~ crossed' => Len(envQ'[DISPLAYQ]) = One(ok_flag' = "OKAY_DISPLAY") + One(SIGUSR2')
    BY <2>1, <2>2, <2>5, <2>6, Zenon
  <2> QED BY <2>1, <2>7 DEF ConsoleInv
<1>8. CASE crt_handler
  <2>1. /\ envQ[DISPLAYQ] # <<>> /\ envQ'[DISPLAYQ] = Tail(envQ[DISPLAYQ])
    BY <1>8, CrtReturns DEF crt_handler
  <2>2. Len(envQ'[DISPLAYQ]) = Len(envQ[DISPLAYQ]) - 1
    BY <2>1, Basics DEF TypeOK
  <2>3. Len(envQ[DISPLAYQ]) \in Nat
    BY Basics DEF TypeOK
  <2>4. SIGUSR2 /\ ~ SIGUSR2' /\ UNCHANGED <<ok_flag, crt>> /\ (~ crossed' => ~ crossed)
    BY <1>8, Zenon DEF crt_handler
  <2> QED BY <2>2, <2>3, <2>4 DEF ConsoleInv, One
<1>9. CASE kbd_handler
  BY <1>9, KbdReturns, QuietConsole DEF kbd_handler, Quiet, console
<1>10. ASSUME NEW p \in {C, CLOCK}, timer_handler(p) PROVE ConsoleInv'
  BY <1>10, TimerReturns, QuietConsole DEF timer_handler
<1>11. CASE Derailed
  BY <1>11, QuietConsole DEF Derailed, appVars, vars, console
<1> QED BY <1>1, <1>2, <1>3, <1>4, <1>5, <1>6, <1>7, <1>8, <1>9, <1>10, <1>11, <1>12 DEF AppNext

-----------------------------------------------------------------------------
(* Who is served. *)

LEMMA WorkKeepsSenders ==
  ASSUME KernelInv, Senders, NEW p \in Clients, NEW to,
         p \in {A, B} => to \cap {DISPLAYQ, KB, TIMER} = {},
         Works(p, {FREE_ENV_QUEUE, p}, to) \/ Works(p, {p}, to) \/ (Shows(p) /\ p \notin {A, B})
  PROVE  Senders'
<1> USE Names, Programs
<1>1. Conserved(envQ, held, timing) /\ TypeOK /\ current = p /\ p \in UserProcs
  BY Basics DEF Works, Shows
<1>2. CASE UNCHANGED vars
  BY <1>2 DEF vars, Senders, InService
<1>3. ASSUME NEW e, NEW q \in {FREE_ENV_QUEUE, p}, Takes(q, e) PROVE Senders'
  <2>1. e \notin InService
    <3>1. /\ q \in EnvQueues \ {DISPLAYQ, KB, TIMER} /\ {DISPLAYQ, KB, TIMER} \subseteq EnvQueues
          /\ e \in Range(envQ[q])
      BY <1>1, <1>3 DEF Takes
    <3>2. /\ \A r \in {DISPLAYQ, KB, TIMER} : Range(envQ[q]) \cap Range(envQ[r]) = {}
          /\ Range(envQ[q]) \cap timing = {}
      BY <1>1, <3>1 DEF Conserved
    <3> QED BY <3>1, <3>2 DEF InService
  <2>2. InService' = InService
    BY <1>1, <1>3 DEF Takes, InService
  <2>3. InService \subseteq Envelopes
    BY Basics DEF InService, TypeOK
  <2> QED BY <2>1, <2>2, <2>3, <1>3 DEF Takes, Relabels, Senders
<1>4. ASSUME NEW e, NEW q, Gives(q, e), q \in {DISPLAYQ, KB, TIMER} => p \notin {A, B} PROVE Senders'
  <2>1. InService' \subseteq InService \cup {e}
    BY <1>4 DEF Gives, InService
  <2>2. InService \subseteq Envelopes /\ e \notin InService
    BY <1>1, <1>4, Basics DEF InService, TypeOK, Conserved, Gives
  <2>3. CASE q \in {DISPLAYQ, KB, TIMER}
    <3>1. sender_pid'[e] = p /\ p \notin {A, B}
      BY <1>1, <1>4, <2>3 DEF Gives
    <3> QED BY <3>1, <2>1, <2>2, <1>4 DEF Gives, Relabels, Senders
  <2>4. CASE q \notin {DISPLAYQ, KB, TIMER}
    <3>1. InService' = InService
      BY <2>4, <1>4 DEF Gives, InService
    <3> QED BY <3>1, <2>2, <1>4 DEF Gives, Relabels, Senders
  <2> QED BY <2>3, <2>4
<1>5. ASSUME UNCHANGED <<envQ, timing, sender_pid>> PROVE Senders'
  BY <1>5 DEF Senders, InService
<1>6. CASE Shows(p) /\ p \notin {A, B}
  BY <1>4, <1>6 DEF Shows
<1>7. CASE Works(p, {FREE_ENV_QUEUE, p}, to) \/ Works(p, {p}, to)
  <2>1. \A q \in to : q \in {DISPLAYQ, KB, TIMER} => p \notin {A, B}
    OBVIOUS
  <2> QED BY <1>2, <1>3, <1>4, <1>5, <1>7, <2>1 DEF Works, Marks, Switches
<1> QED BY <1>6, <1>7

LEMMA ReturnKeepsSenders ==
  ASSUME Senders, NEW e, NEW type, Returns(e, type), InService \subseteq Envelopes
  PROVE  Senders'
BY DEF Senders, Returns, Relabels

LEMMA SendersStep ==
  ASSUME KernelInv, KernelInv', Senders, AppNext
  PROVE  Senders'
<1> USE Programs, Names
<1>1. InService \subseteq Envelopes
  BY Basics DEF InService, TypeOK
<1>2. CASE procA
  <2>1. {FREE_ENV_QUEUE, B} \cap {DISPLAYQ, KB, TIMER} = {}
    OBVIOUS
  <2>2. Works(A, {FREE_ENV_QUEUE, A}, {FREE_ENV_QUEUE, B})
    BY <1>2, WorkOfA
  <2> QED BY <2>1, <2>2, WorkKeepsSenders
<1>3. CASE procB
  <2>1. {C} \cap {DISPLAYQ, KB, TIMER} = {}
    OBVIOUS
  <2>2. Works(B, {B}, {C})
    BY <1>3, WorkOfB
  <2> QED BY <2>1, <2>2, WorkKeepsSenders
<1>4. CASE procC
  BY <1>4, WorkOfC, WorkKeepsSenders
<1>5. CASE cci_process
  BY <1>5, WorkOfCCI, WorkKeepsSenders
<1>6. CASE clock_process
  BY <1>6, WorkOfClock, WorkKeepsSenders
<1>7. CASE UNCHANGED <<envQ, timing, sender_pid>>
  BY <1>7 DEF Senders, InService
<1>8. CASE null_process \/ Suspends
  BY <1>7, <1>8, WorkOfOthers DEF Switches
<1>9. CASE CrtPrints \/ CrtSignals \/ Derailed
  BY <1>7, <1>9 DEF CrtPrints, CrtSignals, Derailed, appVars, vars
<1>10. CASE crt_handler
  BY <1>1, <1>10, CrtReturns, ReturnKeepsSenders DEF crt_handler
<1>11. CASE kbd_handler
  BY <1>1, <1>11, KbdReturns, ReturnKeepsSenders DEF kbd_handler
<1>12. CASE \E p \in {C, CLOCK} : timer_handler(p)
  BY <1>1, <1>12, TimerReturns, ReturnKeepsSenders DEF timer_handler
<1> QED
  BY <1>2, <1>3, <1>4, <1>5, <1>6, <1>8, <1>9, <1>10, <1>11, <1>12 DEF AppNext

-----------------------------------------------------------------------------
(* The free queue and the two processes of the best priority. *)

StartSafe == StartInv /\ CommandsNeverStarve

(* A step that leaves the programs of the CCI and the clock where they are, and the free queue
   no shorter. *)
LEMMA StartUntouched ==
  ASSUME StartSafe, AppTypes, envQ[FREE_ENV_QUEUE] \in Seq(Envelopes),
         pc'[CCI] = pc[CCI], pc'[CLOCK] = pc[CLOCK],
         Starting(CLOCK) => current' = current,
         Starting(CCI) => /\ pc'[A] = pc[A] /\ envQ'[A] = envQ[A]
                          /\ Len(envQ'[FREE_ENV_QUEUE]) >= Len(envQ[FREE_ENV_QUEUE])
                          /\ Len(envQ'[FREE_ENV_QUEUE]) \in Nat,
         \A p \in {CCI, CLOCK} : state'[p] \in {state[p], "READY", "EXECUTING"}
  PROVE  StartSafe'
<1>1. CommandsNeverStarve'
  BY DEF StartSafe, CommandsNeverStarve
<1>2. Wanted(CCI)' = Wanted(CCI) /\ Wanted(CLOCK)' = Wanted(CLOCK)
  BY DEF Wanted
<1>3. Wanted(CCI) \in 0 .. 3 /\ Wanted(CLOCK) \in 0 .. 3
  BY Programs DEF Wanted
<1>4. Starting(CCI)' = Starting(CCI) /\ Starting(CLOCK)' = Starting(CLOCK)
  BY DEF Starting
<1>5. Starting(CCI) => Len(envQ'[FREE_ENV_QUEUE]) >= Wanted(CCI) + Wanted(CLOCK)
  BY <1>3 DEF StartSafe, StartInv
<1> QED BY <1>1, <1>2, <1>4, <1>5 DEF StartSafe, StartInv, Starting

LEMMA WorkStates ==
  ASSUME NEW p, NEW from, NEW to, Works(p, from, to) \/ Shows(p)
  PROVE  \A r \in UserProcs : state'[r] \in {state[r], "READY", "EXECUTING"}
BY DEF Works, Shows, vars, Takes, Gives, Wakes, Marks, Switches

LEMMA WorkKeepsStart ==
  ASSUME KernelInv, KernelInv', StartSafe, AppTypes, NEW p \in {A, B, C}, NEW to,
         \/ Shows(p) /\ p # A
         \/ Works(p, {FREE_ENV_QUEUE, p}, to) /\ (Starting(CCI) => FALSE)
         \/ Works(p, {p}, to) /\ (Starting(CCI) => p # A),
         A \notin to,
         pc'[CCI] = pc[CCI], pc'[CLOCK] = pc[CLOCK], p # A => pc'[A] = pc[A]
  PROVE  StartSafe'
<1> USE Names, Programs
<1>1. /\ current = p /\ p \in UserProcs /\ ~ Starting(CLOCK)
      /\ envQ[FREE_ENV_QUEUE] \in Seq(Envelopes) /\ envQ'[FREE_ENV_QUEUE] \in Seq(Envelopes)
  BY Basics DEF Works, Shows, StartSafe, StartInv, KernelInv, TypeOK
<1>2. \A r \in {CCI, CLOCK} : state'[r] \in {state[r], "READY", "EXECUTING"}
  BY <1>1, WorkStates
<1>3. Len(envQ'[FREE_ENV_QUEUE]) \in Nat
  BY <1>1
<1>4. ASSUME NEW q, NEW e, Gives(q, e), q # A, p # A PROVE StartSafe'
  <2>1. Len(envQ'[FREE_ENV_QUEUE]) >= Len(envQ[FREE_ENV_QUEUE])
    <3>1. CASE q = FREE_ENV_QUEUE
      BY <1>1, <1>4, <3>1 DEF Gives
    <3>2. CASE q # FREE_ENV_QUEUE
      BY <1>1, <1>4, <3>2 DEF Gives
    <3> QED BY <3>1, <3>2
  <2>2. envQ'[A] = envQ[A]
    BY <1>4 DEF Gives
  <2> QED BY <2>1, <2>2, <1>1, <1>2, <1>3, <1>4, StartUntouched
<1>5. CASE p # A /\ UNCHANGED <<envQ>>
  BY <1>1, <1>2, <1>3, <1>5, StartUntouched
<1>6. ASSUME NEW e, Takes(p, e), p # A PROVE StartSafe'
  BY <1>1, <1>2, <1>3, <1>6, StartUntouched DEF Takes
<1>7. CASE ~ Starting(CCI)
  BY <1>1, <1>2, <1>7, StartUntouched
<1>8. CASE Starting(CCI) /\ Shows(p) /\ p # A
  BY <1>4, <1>8 DEF Shows
<1>9. CASE Starting(CCI) /\ Works(p, {p}, to)
  <2>1. p # A /\ \A q \in to : q # A
    BY <1>9
  <2> QED BY <2>1, <1>4, <1>5, <1>6, <1>9 DEF Works, vars, Marks, Switches
<1> QED BY <1>7, <1>8, <1>9

(* The CCI and the clock get the envelopes they start with. *)
LEMMA CciKeepsStart ==
  ASSUME KernelInv, KernelInv', StartSafe, AppTypes, cci_process
  PROVE  StartSafe'
<1> USE Names, Programs
<1>1. /\ current = CCI /\ ~ Starting(CLOCK) /\ Wanted(CLOCK) = 0
      /\ envQ[FREE_ENV_QUEUE] \in Seq(Envelopes) /\ current \in UserProcs
  <2>1. current = CCI
    BY WorkOfCCI DEF Works, Shows
  <2> QED BY <2>1, Basics DEF StartSafe, StartInv, TypeOK, Starting, Wanted
<1>2. pc'[CLOCK] = pc[CLOCK] /\ pc'[A] = pc[A]
  BY DEF AppTypes, cci_process, CCI_Input, CCI_Silent, CCI_Start, CCI_Prompt, CCI_StartsA,
         CCI_Answer, cci_print, cci_printed, Goto
<1>3. CommandsNeverStarve'
  BY <1>1, WorkOfCCI, WorkStates DEF StartSafe, CommandsNeverStarve
<1>4. Wanted(CLOCK)' = 0 /\ ~ Starting(CLOCK)'
  BY <1>1, <1>2 DEF Wanted, Starting
<1>5. CASE CCI_Start
  <2>1. Takes(FREE_ENV_QUEUE, FirstFree)
    BY <1>5, Kinds DEF CCI_Start
  <2>2. /\ Len(envQ'[FREE_ENV_QUEUE]) = Len(envQ[FREE_ENV_QUEUE]) - 1
        /\ Len(envQ[FREE_ENV_QUEUE]) \in Nat
        /\ envQ'[A] = envQ[A]
    BY <2>1, <1>1 DEF Takes
  <2>3. /\ Starting(CCI)
        /\ Starting(CCI)' => Wanted(CCI)' = Wanted(CCI) - 1 /\ Wanted(CCI) \in {2, 3}
        /\ pc'[CCI] \notin {"request", "request_timeout"}
    BY <1>5 DEF CCI_Start, At, Goto, AppTypes, Starting, Wanted
  <2> QED BY <1>1, <1>2, <1>3, <1>4, <2>2, <2>3 DEF StartSafe, StartInv
<1>6. CASE ~ CCI_Start
  <2>1. pc'[CCI] \in {"prompt", "await_prompt", "ask", "await_input", "command", "await_answer"}
    BY <1>6 DEF AppTypes, cci_process, CCI_Input, CCI_Silent, CCI_Prompt, CCI_StartsA,
                CCI_Answer, cci_print, cci_printed, Goto
  <2>2. ~ Starting(CCI)'
    BY <2>1 DEF Starting
  <2> QED BY <1>2, <1>3, <1>4, <2>1, <2>2 DEF StartSafe, StartInv
<1> QED BY <1>5, <1>6

LEMMA ClockKeepsStart ==
  ASSUME KernelInv, KernelInv', StartSafe, AppTypes, clock_process
  PROVE  StartSafe'
<1> USE Names, Programs
<1>1. /\ current = CLOCK /\ current \in UserProcs
      /\ envQ[FREE_ENV_QUEUE] \in Seq(Envelopes)
  BY WorkOfClock, Basics DEF Works, Shows, TypeOK
<1>2. pc'[CCI] = pc[CCI] /\ pc'[A] = pc[A]
  BY DEF AppTypes, clock_process, CLOCK_Start, CLOCK_Acknowledged, CLOCK_Second, CLOCK_Print,
         CLOCK_PrintsAgain, Goto
<1>3. CommandsNeverStarve'
  BY <1>1, WorkOfClock, WorkStates DEF StartSafe, CommandsNeverStarve
<1>4. Starting(CCI)' = Starting(CCI) /\ Wanted(CCI)' = Wanted(CCI) /\ Wanted(CCI) \in 0 .. 3
  BY <1>2 DEF Starting, Wanted
<1>5. CASE Starting(CLOCK)
  <2>1. /\ CLOCK_Start /\ pc[CLOCK] # "delay"
        /\ pc'[CLOCK] \in {"request_display", "delay"}
        /\ Wanted(CLOCK)' = Wanted(CLOCK) - 1 /\ Wanted(CLOCK) \in {1, 2}
    BY <1>5 DEF Starting, Wanted, AppTypes, clock_process, CLOCK_Start, CLOCK_Acknowledged,
                CLOCK_Second, CLOCK_Print, CLOCK_PrintsAgain, At, Goto
  <2>2. Takes(FREE_ENV_QUEUE, FirstFree)
    BY <2>1, Kinds DEF CLOCK_Start, At
  <2>3. /\ Len(envQ'[FREE_ENV_QUEUE]) = Len(envQ[FREE_ENV_QUEUE]) - 1
        /\ Len(envQ[FREE_ENV_QUEUE]) \in Nat
        /\ envQ'[A] = envQ[A] /\ current' = current
    BY <2>2, <1>1 DEF Takes
  <2> QED BY <1>1, <1>2, <1>3, <1>4, <1>5, <2>1, <2>3 DEF StartSafe, StartInv
<1>6. CASE ~ Starting(CLOCK)
  <2>1. pc'[CLOCK] \in {"receive", "again", "print", pc[CLOCK]} /\ ~ Starting(CLOCK)'
    BY <1>6 DEF Starting, AppTypes, clock_process, CLOCK_Start, CLOCK_Acknowledged,
                CLOCK_Second, CLOCK_Print, CLOCK_PrintsAgain, At, Goto
  <2>2. Wanted(CLOCK) = 0 /\ Wanted(CLOCK)' = 0
    BY <1>6, <2>1 DEF Wanted, Starting
  <2>3. /\ envQ'[A] = envQ[A] /\ envQ'[FREE_ENV_QUEUE] = envQ[FREE_ENV_QUEUE]
    <3>1. \/ \E e : Display(e) /\ Gives(DISPLAYQ, e)
          \/ UNCHANGED vars
          \/ \E e : Takes(CLOCK, e)
          \/ \E e : Gives(TIMER, e)
      BY <1>1, <1>6, Kinds DEF clock_process, CLOCK_Start, CLOCK_Acknowledged, CLOCK_Second,
         CLOCK_Print, CLOCK_PrintsAgain, Receives, At, Starting
    <3> QED BY <3>1 DEF Takes, Gives, vars
  <2> QED BY <1>2, <1>3, <1>4, <2>1, <2>2, <2>3 DEF StartSafe, StartInv, Starting
<1> QED BY <1>5, <1>6

LEMMA SuspendsKeepsStart ==
  ASSUME KernelInv, KernelInv', StartSafe, AppTypes, null_process \/ Suspends
  PROVE  StartSafe'
<1> USE Names, Programs
<1>1. /\ envQ[FREE_ENV_QUEUE] \in Seq(Envelopes) /\ pc' = pc /\ envQ' = envQ
      /\ \E ns \in {"BLOCKED_ON_ENV_REQUEST", "BLOCKED_ON_RCV", "READY"} : Switches(ns)
  BY WorkOfOthers, Basics DEF programs, Switches, TypeOK
<1>2. ~ (null_process /\ Starting(CLOCK))
  BY DEF null_process, StartSafe, StartInv
<1>3. Starting(CLOCK) => Starting(CCI)
  BY DEF StartSafe, StartInv, Starting
<1>4. ASSUME Starting(CCI) PROVE envQ[FREE_ENV_QUEUE] # <<>>
  <2>1. Wanted(CCI) \in 1 .. 3 /\ Wanted(CLOCK) \in 0 .. 3
    BY <1>4 DEF Starting, Wanted, StartSafe, StartInv
  <2>2. Len(envQ[FREE_ENV_QUEUE]) >= 1 /\ Len(envQ[FREE_ENV_QUEUE]) \in Nat
    BY <1>1, <1>4, <2>1 DEF StartSafe, StartInv
  <2> QED BY <2>2, <1>1
<1>5. ASSUME RequestBlocks,
             pc[current] \in {"request", "request_display", "request_input", "request_start",
                              "request_timeout"}
      PROVE  current \notin {CCI, CLOCK}
  BY <1>3, <1>4, <1>5 DEF RequestBlocks, StartSafe, StartInv, Starting
<1>6. Suspends => ~ Starting(CLOCK)
  BY <1>3, <1>4 DEF Suspends, RequestBlocks, StartSafe, StartInv, Starting
<1>7. CommandsNeverStarve'
  <2>1. CASE /\ RequestBlocks
             /\ pc[current] \in {"request", "request_display", "request_input", "request_start",
                                 "request_timeout"}
    BY <1>5, <2>1, Kinds DEF Switches, StartSafe, CommandsNeverStarve
  <2>2. CASE ReceiveBlocks
    BY <2>2, Kinds DEF Switches, StartSafe, CommandsNeverStarve
  <2>3. CASE ReleaseProcessor
    BY <2>3, Kinds DEF Switches, StartSafe, CommandsNeverStarve
  <2> QED BY <2>1, <2>2, <2>3 DEF null_process, Suspends
<1>8. StartInv'
  <2>1. Wanted(CCI)' = Wanted(CCI) /\ Wanted(CLOCK)' = Wanted(CLOCK)
    BY <1>1 DEF Wanted
  <2>2. Starting(CCI)' = Starting(CCI) /\ Starting(CLOCK)' = FALSE
    BY <1>1, <1>2, <1>6 DEF Starting
  <2> QED BY <1>1, <2>1, <2>2 DEF StartSafe, StartInv, Starting
<1> QED BY <1>7, <1>8 DEF StartSafe

LEMMA ReturnKeepsStart ==
  ASSUME KernelInv, KernelInv', StartSafe, AppTypes, Senders,
         NEW e, NEW type, Returns(e, type), pc' = pc
  PROVE  StartSafe'
<1> USE Names, Programs
<1>1. sender_pid[e] # A /\ sender_pid[e] \in Clients
  BY DEF Senders, Returns
<1>2. envQ'[A] = envQ[A] /\ envQ'[FREE_ENV_QUEUE] = envQ[FREE_ENV_QUEUE]
  BY <1>1 DEF Returns
<1>3. envQ[FREE_ENV_QUEUE] \in Seq(Envelopes)
  BY Basics DEF TypeOK
<1> QED BY <1>2, <1>3, StartUntouched DEF Returns, Wakes

LEMMA StartStep ==
  ASSUME KernelInv, KernelInv', StartSafe, AppTypes, Senders, AppNext
  PROVE  StartSafe'
<1> USE Names, Programs
<1>1. CASE procA
  <2>1. pc'[CCI] = pc[CCI] /\ pc'[CLOCK] = pc[CLOCK]
    BY <1>1 DEF AppTypes, procA, A_Start, A_Report, Goto
  <2>2. ~ Starting(CCI)
    BY <1>1 DEF StartSafe, StartInv, procA, A_Start, A_Report, At, ReceiveMessage
  <2> QED BY <1>1, <2>1, <2>2, WorkOfA, WorkKeepsStart
<1>2. CASE procB
  <2>1. pc'[CCI] = pc[CCI] /\ pc'[CLOCK] = pc[CLOCK] /\ pc'[A] = pc[A]
    BY <1>2 DEF AppTypes, procB, Goto
  <2> QED BY <1>2, <2>1, WorkOfB, WorkKeepsStart
<1>3. CASE procC
  <2>1. pc'[CCI] = pc[CCI] /\ pc'[CLOCK] = pc[CLOCK] /\ pc'[A] = pc[A]
    BY <1>3 DEF AppTypes, procC, C_Receive, C_Print, C_Discard, C_Yield, C_AwaitAck, C_Delay,
                C_AwaitWakeup, C_Release, C_Next, Goto
  <2> QED BY <1>3, <2>1, WorkOfC, WorkKeepsStart
<1>4. CASE UNCHANGED vars /\ pc' = pc
  BY <1>4, Basics, StartUntouched DEF vars, TypeOK
<1>5. CASE CrtPrints \/ CrtSignals \/ Derailed
  BY <1>4, <1>5 DEF CrtPrints, CrtSignals, Derailed, appVars, programs
<1>6. CASE crt_handler
  BY <1>6, CrtReturns, ReturnKeepsStart DEF crt_handler, programs
<1>7. CASE kbd_handler
  BY <1>7, KbdReturns, ReturnKeepsStart DEF kbd_handler, programs
<1>8. CASE \E p \in {C, CLOCK} : timer_handler(p)
  BY <1>8, TimerReturns, ReturnKeepsStart DEF timer_handler, programs
<1> QED
  BY <1>1, <1>2, <1>3, <1>5, <1>6, <1>7, <1>8, CciKeepsStart, ClockKeepsStart, SuspendsKeepsStart
  DEF AppNext

-----------------------------------------------------------------------------
(* The clock and its two envelopes. *)

(* A step that is none of the clock's business. *)
LEMMA ClockAlone ==
  ASSUME ClockInv, pc'[CLOCK] = pc[CLOCK], env'[CLOCK] = env[CLOCK], displayEnv' = displayEnv,
         resent' => resent, Excused => Excused',
         held'[CLOCK] = held[CLOCK],
         state'[CLOCK] = "BLOCKED_ON_RCV" =>
           state[CLOCK] = "BLOCKED_ON_RCV" \/ pc[CLOCK] = "receive",
         \A type : Mails(type)' = Mails(type),
         ClockShown' = ClockShown, ClockWaits' \subseteq ClockWaits
  PROVE  ClockInv'
<1>1. ClockTimers' \subseteq ClockTimers
  BY DEF ClockTimers
<1>2. Starting(CLOCK)' = Starting(CLOCK)
  BY DEF Starting
<1> QED BY <1>1, <1>2 DEF ClockInv

(* The others neither send to the clock nor touch what it handed in. *)
LEMMA OthersLeaveClock ==
  ASSUME KernelInv, NEW p \in Clients \ {CLOCK}, NEW to, CLOCK \notin to,
         Works(p, {FREE_ENV_QUEUE, p}, to) \/ Works(p, {p}, to) \/ Shows(p)
  PROVE  /\ held'[CLOCK] = held[CLOCK]
         /\ state'[CLOCK] = "BLOCKED_ON_RCV" => state[CLOCK] = "BLOCKED_ON_RCV"
         /\ \A type : Mails(type)' = Mails(type)
         /\ ClockShown' = ClockShown /\ ClockWaits' = ClockWaits
         /\ Excused => Excused'
<1> USE Names, Programs
<1> DEFINE Left == /\ held'[CLOCK] = held[CLOCK]
                   /\ state'[CLOCK] = "BLOCKED_ON_RCV" => state[CLOCK] = "BLOCKED_ON_RCV"
                   /\ \A type : Mails(type)' = Mails(type)
                   /\ ClockShown' = ClockShown /\ ClockWaits' = ClockWaits
<1>1. /\ current = p /\ p \in UserProcs /\ Conserved(envQ, held, timing)
      /\ \A q \in EnvQueues : Range(envQ[q]) \subseteq Envelopes
      /\ timing \subseteq Envelopes
      /\ {CLOCK, DISPLAYQ, TIMER, FREE_ENV_QUEUE, p} \subseteq EnvQueues
  BY Basics DEF Works, Shows, TypeOK
<1>2. ASSUME UNCHANGED vars PROVE Left
  BY <1>2 DEF vars, Mails, ClockShown, ClockWaits
<1>3. ASSUME NEW e, NEW q \in {FREE_ENV_QUEUE, p}, Takes(q, e) PROVE Left
  <2>1. e \notin Range(envQ[DISPLAYQ]) /\ e \notin Range(envQ[TIMER]) /\ e \notin timing
    <3>1. q \in EnvQueues /\ q # DISPLAYQ /\ q # TIMER /\ e \in Range(envQ[q])
      BY <1>1, <1>3 DEF Takes
    <3>2. /\ Range(envQ[q]) \cap Range(envQ[DISPLAYQ]) = {}
          /\ Range(envQ[q]) \cap Range(envQ[TIMER]) = {} /\ Range(envQ[q]) \cap timing = {}
      BY <1>1, <3>1 DEF Conserved
    <3> QED BY <3>1, <3>2
  <2>2. /\ envQ'[CLOCK] = envQ[CLOCK] /\ envQ'[DISPLAYQ] = envQ[DISPLAYQ]
        /\ envQ'[TIMER] = envQ[TIMER]
        /\ held'[CLOCK] = held[CLOCK] /\ timing' = timing /\ state' = state /\ msg_type' = msg_type
    <3>1. q \notin {CLOCK, DISPLAYQ, TIMER}
      OBVIOUS
    <3>2. \A r \in {CLOCK, DISPLAYQ, TIMER} : envQ'[r] = envQ[r]
      BY <3>1, <1>1, <1>3 DEF Takes
    <3> QED BY <3>2, <1>1, <1>3 DEF Takes, OthersHold
  <2>3. ClockShown' = ClockShown /\ ClockWaits' = ClockWaits
    BY <1>1, <1>3, <2>1, <2>2 DEF Takes, Relabels, ClockShown, ClockWaits
  <2> QED BY <2>2, <2>3 DEF Mails
<1>4. ASSUME NEW e, NEW q, q # CLOCK, Gives(q, e) PROVE Left
  <2>1. /\ e \notin Range(envQ[CLOCK]) /\ e \notin Range(envQ[DISPLAYQ])
        /\ e \notin Range(envQ[TIMER])
        /\ e \notin timing
    BY <1>1, <1>4 DEF Conserved, Gives
  <2>2. /\ envQ'[CLOCK] = envQ[CLOCK] /\ held'[CLOCK] = held[CLOCK] /\ timing' = timing
        /\ state'[CLOCK] \in {state[CLOCK], "READY"}
    BY <1>1, <1>4 DEF Gives, OthersHold, Wakes
  <2>3. \A type : Mails(type)' = Mails(type)
    BY <1>1, <1>4, <2>1, <2>2 DEF Gives, Relabels, Mails
  <2>4. ASSUME NEW r \in {DISPLAYQ, TIMER}
        PROVE  {f \in Range(envQ'[r]) : sender_pid'[f] = CLOCK}
                 = {f \in Range(envQ[r]) : sender_pid[f] = CLOCK}
    <3>1. CASE q = r
      <4>1. Range(envQ'[r]) = Range(envQ[r]) \cup {e} /\ sender_pid'[e] # CLOCK
        BY <1>1, <1>4, <3>1 DEF Gives
      <4> QED BY <4>1, <1>1, <1>4, <2>1 DEF Gives, Relabels
    <3>2. CASE q # r
      BY <3>2, <1>1, <1>4, <2>1 DEF Gives, Relabels
    <3> QED BY <3>1, <3>2
  <2>5. \A f \in timing : sender_pid'[f] = sender_pid[f]
    BY <1>1, <1>4, <2>1 DEF Gives, Relabels
  <2>6. ClockShown' = ClockShown
    BY <2>4 DEF ClockShown
  <2>7. ClockWaits' = ClockWaits
    BY <2>2, <2>4, <2>5 DEF ClockWaits
  <2> QED BY <2>2, <2>3, <2>6, <2>7
<1>5. ASSUME NEW e, Marks(e) PROVE Left
  <2>1. e \notin Range(envQ[CLOCK])
    BY <1>1, <1>5 DEF Conserved, Marks
  <2> QED BY <1>1, <1>5, <2>1 DEF Marks, Relabels, Mails, ClockShown, ClockWaits
<1>6. ASSUME Switches("READY") PROVE Left
  BY <1>1, <1>6 DEF Switches, Mails, ClockShown, ClockWaits
<1>7. Excused => Excused'
  BY Zenon DEF Works, Shows, console, Display, Excused
<1>8. CASE Shows(p)
  BY <1>4, <1>7, <1>8 DEF Shows
<1>9. CASE Works(p, {FREE_ENV_QUEUE, p}, to) \/ Works(p, {p}, to)
  <2>1. \A q \in to : q # CLOCK
    OBVIOUS
  <2>2. Left
    BY <1>2, <1>3, <1>4, <1>5, <1>6, <1>9, <2>1 DEF Works
  <2> QED BY <2>2, <1>7
<1> QED BY <1>8, <1>9

(* What the clock takes and gives. *)
LEMMA ClockTakes ==
  ASSUME KernelInv, current = CLOCK, NEW q \in {FREE_ENV_QUEUE, CLOCK}, NEW e, Takes(q, e)
  PROVE  /\ ClockShown' = ClockShown /\ ClockWaits' = ClockWaits
         /\ \A type : Mails(type)' = Mails(type) \ {e}
         /\ held'[CLOCK] = held[CLOCK] \cup {e} /\ state'[CLOCK] = "EXECUTING"
         /\ e \in Envelopes /\ e \in Range(envQ[q]) /\ e \notin held[CLOCK]
         /\ e \notin ClockShown /\ e \notin ClockWaits
         /\ q = FREE_ENV_QUEUE => \A type : e \notin Mails(type)
<1> USE Names, Programs
<1>1. /\ CLOCK \in UserProcs /\ Conserved(envQ, held, timing) /\ state[CLOCK] = "EXECUTING"
      /\ \A r \in EnvQueues : Range(envQ[r]) \subseteq Envelopes
      /\ timing \subseteq Envelopes
      /\ {CLOCK, DISPLAYQ, TIMER, FREE_ENV_QUEUE} \subseteq EnvQueues
  BY Basics DEF TypeOK
<1>2. /\ e \notin Range(envQ[DISPLAYQ]) /\ e \notin Range(envQ[TIMER]) /\ e \notin timing
      /\ e \notin held[CLOCK]
      /\ q = FREE_ENV_QUEUE => e \notin Range(envQ[CLOCK])
  <2>1. q \in EnvQueues /\ q # DISPLAYQ /\ q # TIMER /\ e \in Range(envQ[q])
    BY <1>1 DEF Takes
  <2>2. /\ Range(envQ[q]) \cap Range(envQ[DISPLAYQ]) = {}
        /\ Range(envQ[q]) \cap Range(envQ[TIMER]) = {}
        /\ Range(envQ[q]) \cap timing = {} /\ Range(envQ[q]) \cap held[CLOCK] = {}
    BY <1>1, <2>1 DEF Conserved
  <2>3. q = FREE_ENV_QUEUE => Range(envQ[q]) \cap Range(envQ[CLOCK]) = {}
    BY <1>1 DEF Conserved
  <2> QED BY <2>1, <2>2, <2>3
<1>3. /\ envQ'[DISPLAYQ] = envQ[DISPLAYQ] /\ envQ'[TIMER] = envQ[TIMER]
      /\ Range(envQ'[CLOCK]) = Range(envQ[CLOCK]) \ {e}
      /\ timing' = timing /\ msg_type' = msg_type
  <2>1. CASE q = CLOCK
    BY <1>1, <2>1 DEF Takes
  <2>2. CASE q = FREE_ENV_QUEUE
    BY <1>1, <1>2, <2>2 DEF Takes
  <2> QED BY <2>1, <2>2, <1>1 DEF Takes
<1>4. ClockShown' = ClockShown /\ ClockWaits' = ClockWaits
  BY <1>1, <1>2, <1>3 DEF Takes, Relabels, ClockShown, ClockWaits
<1>5. \A type : Mails(type)' = Mails(type) \ {e}
  BY <1>3 DEF Mails
<1> QED BY <1>1, <1>2, <1>4, <1>5 DEF Takes, ClockShown, ClockWaits, Mails

LEMMA ClockGives ==
  ASSUME KernelInv, current = CLOCK, NEW q \in {DISPLAYQ, TIMER}, NEW e, Gives(q, e)
  PROVE  /\ ClockShown' = ClockShown \cup (IF q = DISPLAYQ THEN {e} ELSE {})
         /\ ClockWaits' = ClockWaits \cup (IF q = TIMER THEN {e} ELSE {})
         /\ \A type : Mails(type)' = Mails(type) /\ e \notin Mails(type)
         /\ held'[CLOCK] = held[CLOCK] \ {e} /\ state'[CLOCK] # "BLOCKED_ON_RCV"
         /\ e \in Envelopes /\ e \in held[CLOCK]
<1> USE Names, Programs
<1>1. /\ CLOCK \in UserProcs /\ Conserved(envQ, held, timing) /\ state[CLOCK] = "EXECUTING"
      /\ \A r \in EnvQueues : Range(envQ[r]) \subseteq Envelopes
      /\ timing \subseteq Envelopes
      /\ {CLOCK, DISPLAYQ, TIMER} \subseteq EnvQueues
  BY Basics DEF TypeOK
<1>2. /\ e \notin Range(envQ[DISPLAYQ]) /\ e \notin Range(envQ[TIMER]) /\ e \notin timing
      /\ e \notin Range(envQ[CLOCK])
  BY <1>1 DEF Conserved, Gives
<1>3. /\ envQ'[CLOCK] = envQ[CLOCK] /\ timing' = timing /\ sender_pid'[e] = CLOCK
      /\ Range(envQ'[q]) = Range(envQ[q]) \cup {e}
      /\ \A r \in {DISPLAYQ, TIMER} \ {q} : envQ'[r] = envQ[r]
      /\ \A f \in Envelopes \ {e} : sender_pid'[f] = sender_pid[f] /\ msg_type'[f] = msg_type[f]
  BY <1>1 DEF Gives, Relabels
<1>4. ClockShown' = ClockShown \cup (IF q = DISPLAYQ THEN {e} ELSE {})
  <2>1. CASE q = DISPLAYQ
    BY <1>1, <1>2, <1>3, <2>1 DEF ClockShown
  <2>2. CASE q = TIMER
    BY <1>1, <1>2, <1>3, <2>2 DEF ClockShown
  <2> QED BY <2>1, <2>2
<1>5. ClockWaits' = ClockWaits \cup (IF q = TIMER THEN {e} ELSE {})
  <2>1. CASE q = DISPLAYQ
    BY <1>1, <1>2, <1>3, <2>1 DEF ClockWaits
  <2>2. CASE q = TIMER
    BY <1>1, <1>2, <1>3, <2>2 DEF ClockWaits
  <2> QED BY <2>1, <2>2
<1>6. \A type : Mails(type)' = Mails(type) /\ e \notin Mails(type)
  BY <1>1, <1>2, <1>3 DEF Mails
<1>7. state'[CLOCK] # "BLOCKED_ON_RCV" /\ held'[CLOCK] = held[CLOCK] \ {e}
  BY <1>1 DEF Gives, Wakes
<1> QED BY <1>4, <1>5, <1>6, <1>7 DEF Gives

(* The program of the clock, statement by statement. *)
LEMMA ClockRequests ==
  ASSUME KernelInv, ClockInv, AppTypes, CLOCK_Start, current = CLOCK, UNCHANGED <<console, resent>>
  PROVE  ClockInv'
<1> USE Programs
<1>1. ASSUME NEW e, Takes(FREE_ENV_QUEUE, e), pc[CLOCK] = "request_timeout",
             env'[CLOCK] = e, pc'[CLOCK] = "request_display", displayEnv' = displayEnv
      PROVE  ClockInv'
  <2>1. /\ ClockShown' = ClockShown /\ ClockWaits' = ClockWaits
        /\ \A type : Mails(type)' = Mails(type)
        /\ e \in held'[CLOCK] /\ state'[CLOCK] = "EXECUTING" /\ e \in Envelopes
    BY <1>1, ClockTakes
  <2>2. displayEnv = NoEnv /\ ClockTimers = {} /\ Mails("WAKEUP10") = {}
    BY <1>1 DEF ClockInv, Starting, ClockTimers
  <2>3. ClockTimers' \subseteq {e}
    BY <1>1, <2>1, <2>2 DEF ClockTimers
  <2> QED BY <1>1, <2>1, <2>2, <2>3 DEF ClockInv, Starting, Excused, console
<1>2. ASSUME NEW e, Takes(FREE_ENV_QUEUE, e), pc[CLOCK] = "request_display",
             displayEnv' = e, pc'[CLOCK] = "delay", env'[CLOCK] = env[CLOCK]
      PROVE  ClockInv'
  <2>1. /\ ClockShown' = ClockShown /\ ClockWaits' = ClockWaits
        /\ \A type : Mails(type)' = Mails(type)
        /\ held'[CLOCK] = held[CLOCK] \cup {e} /\ state'[CLOCK] = "EXECUTING"
        /\ e \in Envelopes /\ e \notin held[CLOCK]
    BY <1>2, ClockTakes
  <2>2. ClockShown \cup Mails("DISPLAY_ACK") = {}
    <3>1. displayEnv = NoEnv
      BY <1>2 DEF ClockInv, Starting
    <3>2. ClockShown \cup Mails("DISPLAY_ACK") \subseteq Envelopes
      BY Basics, Names DEF ClockShown, Mails
    <3> QED BY <3>1, <3>2 DEF ClockInv
  <2>3. ClockTimers' = ClockTimers
    BY <1>2, <2>1 DEF ClockTimers
  <2> QED BY <1>2, <2>1, <2>2, <2>3 DEF ClockInv, Starting, Excused, console
<1>3. CASE RequestDelay(env[CLOCK]) /\ Assign(CLOCK, NoEnv) /\ At(CLOCK, "delay")
             /\ Goto(CLOCK, "receive") /\ displayEnv' = displayEnv
  <2>1. PICK e : e = env[CLOCK]
    OBVIOUS
  <2>2. /\ ClockShown' = ClockShown /\ ClockWaits' = ClockWaits \cup {e}
        /\ \A type : Mails(type)' = Mails(type) /\ e \notin Mails(type)
        /\ held'[CLOCK] = held[CLOCK] \ {e} /\ state'[CLOCK] # "BLOCKED_ON_RCV"
        /\ e \in Envelopes
    <3>1. Gives(TIMER, e) /\ TIMER \in {DISPLAYQ, TIMER} /\ TIMER # DISPLAYQ
      BY <1>3, <2>1, Kinds, Names
    <3> QED BY <3>1, ClockGives
  <2>3. /\ pc'[CLOCK] = "receive" /\ env'[CLOCK] = NoEnv /\ pc[CLOCK] = "delay"
    BY <1>3 DEF Assign, Goto, At, AppTypes
  <2>4. ClockTimers' \subseteq ClockTimers
    BY <2>1, <2>2, <2>3 DEF ClockTimers
  <2>5. e # displayEnv
    BY <2>1, <2>2 DEF ClockInv
  <2> QED BY <1>3, <2>2, <2>3, <2>4, <2>5 DEF ClockInv, Starting, Excused, console
<1>4. CASE /\ RequestMsgEnv /\ At(CLOCK, "request_timeout") /\ Assign(CLOCK, FirstFree)
           /\ Goto(CLOCK, "request_display") /\ displayEnv' = displayEnv
  BY <1>1, <1>4, Kinds DEF At, Assign, Goto, AppTypes
<1>5. CASE /\ RequestMsgEnv /\ At(CLOCK, "request_display") /\ displayEnv' = FirstFree
           /\ Goto(CLOCK, "delay") /\ env' = env
  BY <1>2, <1>5, Kinds DEF At, Goto, AppTypes
<1> QED BY <1>3, <1>4, <1>5 DEF CLOCK_Start

LEMMA ClockGetsAcknowledgement ==
  ASSUME KernelInv, ClockInv, AppTypes, CLOCK_Acknowledged, current = CLOCK,
         UNCHANGED <<console, resent>>
  PROVE  ClockInv'
<1> USE Programs
<1>1. PICK e : e = Mail(CLOCK) /\ Takes(CLOCK, e) /\ msg_type[e] = "DISPLAY_ACK"
  BY Kinds DEF CLOCK_Acknowledged, Receives
<1>2. /\ ClockShown' = ClockShown /\ ClockWaits' = ClockWaits
      /\ \A type : Mails(type)' = Mails(type) \ {e}
      /\ held'[CLOCK] = held[CLOCK] \cup {e} /\ state'[CLOCK] = "EXECUTING"
      /\ e \in Range(envQ[CLOCK])
  BY <1>1, ClockTakes
<1>3. e \in Mails("DISPLAY_ACK") /\ e \notin Mails("WAKEUP10")
  BY <1>1, <1>2 DEF Mails
<1>4. displayEnv' = e /\ displayEnv = e /\ pc[CLOCK] = "receive" /\ UNCHANGED <<env, pc>>
  BY <1>1, <1>3 DEF ClockInv, CLOCK_Acknowledged, At
<1>5. ClockTimers' = ClockTimers
  BY <1>2, <1>3, <1>4 DEF ClockTimers
<1>6. env[CLOCK] # NoEnv => env[CLOCK] \in held'[CLOCK] /\ env[CLOCK] # displayEnv
  BY <1>2 DEF ClockInv
<1>7. ClockShown' \cup Mails("DISPLAY_ACK")' \subseteq {displayEnv}
  BY <1>2 DEF ClockInv
<1> QED BY <1>2, <1>4, <1>5, <1>6, <1>7 DEF ClockInv, Starting, Excused, console

LEMMA ClockCountsSecond ==
  ASSUME KernelInv, ClockInv, AppTypes, CLOCK_Second, current = CLOCK, UNCHANGED <<console, resent>>
  PROVE  ClockInv'
<1> USE Programs
<1>1. CASE At(CLOCK, "receive") /\ Receives(CLOCK, "WAKEUP10") /\ Assign(CLOCK, Mail(CLOCK))
             /\ Goto(CLOCK, "again") /\ displayEnv' = displayEnv
  <2>1. PICK e : e = Mail(CLOCK) /\ Takes(CLOCK, e) /\ msg_type[e] = "WAKEUP10"
    BY <1>1, Kinds DEF Receives
  <2>2. /\ ClockShown' = ClockShown /\ ClockWaits' = ClockWaits
        /\ \A type : Mails(type)' = Mails(type) \ {e}
        /\ held'[CLOCK] = held[CLOCK] \cup {e} /\ state'[CLOCK] = "EXECUTING"
        /\ e \in Range(envQ[CLOCK]) /\ e \notin held[CLOCK] /\ e \notin ClockShown
    BY <2>1, ClockTakes
  <2>3. e \in Mails("WAKEUP10") /\ e \notin Mails("DISPLAY_ACK")
    BY <2>1, <2>2 DEF Mails
  <2>4. env'[CLOCK] = e /\ pc'[CLOCK] = "again" /\ pc[CLOCK] = "receive"
    BY <1>1, <2>1 DEF Assign, Goto, At, AppTypes
  <2>5. ClockTimers' \subseteq ClockTimers
    BY <2>2, <2>3, <2>4 DEF ClockTimers
  <2>6. e # displayEnv
    BY <2>2, <2>3, <2>4 DEF ClockInv, Starting
  <2>7. Mails("DISPLAY_ACK")' = Mails("DISPLAY_ACK")
    BY <2>2, <2>3
  <2> QED BY <1>1, <2>2, <2>3, <2>4, <2>5, <2>6, <2>7 DEF ClockInv, Starting, Excused, console
<1>2. CASE At(CLOCK, "again") /\ RequestDelay(env[CLOCK]) /\ Assign(CLOCK, NoEnv)
             /\ Goto(CLOCK, IF clockDisplayRequest THEN "print" ELSE "receive")
             /\ displayEnv' = displayEnv
  <2>1. PICK e : e = env[CLOCK]
    OBVIOUS
  <2>2. /\ ClockShown' = ClockShown /\ ClockWaits' = ClockWaits \cup {e}
        /\ \A type : Mails(type)' = Mails(type) /\ e \notin Mails(type)
        /\ held'[CLOCK] = held[CLOCK] \ {e} /\ state'[CLOCK] # "BLOCKED_ON_RCV"
        /\ e \in Envelopes
    <3>1. Gives(TIMER, e) /\ TIMER \in {DISPLAYQ, TIMER} /\ TIMER # DISPLAYQ
      BY <1>2, <2>1, Kinds, Names
    <3> QED BY <3>1, ClockGives
  <2>3. /\ pc'[CLOCK] \in {"receive", "print"} /\ env'[CLOCK] = NoEnv /\ pc[CLOCK] = "again"
    BY <1>2 DEF Assign, Goto, At, AppTypes
  <2>4. ClockTimers' \subseteq ClockTimers
    BY <2>1, <2>2, <2>3 DEF ClockTimers
  <2>5. e # displayEnv
    BY <2>1, <2>2 DEF ClockInv
  <2>6. Mails("WAKEUP10") = {}
    <3>1. e \in ClockTimers /\ Mails("WAKEUP10") \subseteq ClockTimers
      BY <2>1, <2>2 DEF ClockTimers
    <3> QED BY <3>1, <2>2 DEF ClockInv
  <2> QED BY <1>2, <2>2, <2>3, <2>4, <2>5, <2>6 DEF ClockInv, Starting, Excused, console
<1> QED BY <1>1, <1>2 DEF CLOCK_Second

LEMMA ClockShowsTime ==
  ASSUME KernelInv, ClockInv, AppTypes, CLOCK_Print, current = CLOCK
  PROVE  ClockInv'
<1> USE Programs
<1>1. PICK e : e = displayEnv /\ Display(e) /\ Gives(DISPLAYQ, e)
  BY Kinds DEF CLOCK_Print
<1>2. /\ ClockShown' = ClockShown \cup {e} /\ ClockWaits' = ClockWaits
      /\ \A type : Mails(type)' = Mails(type)
      /\ held'[CLOCK] = held[CLOCK] \ {e} /\ state'[CLOCK] # "BLOCKED_ON_RCV"
  <2>1. DISPLAYQ \in {DISPLAYQ, TIMER} /\ TIMER # DISPLAYQ
    BY Names
  <2>2. Gives(DISPLAYQ, e)
    BY <1>1
  <2>3. /\ ClockShown' = ClockShown \cup (IF DISPLAYQ = DISPLAYQ THEN {e} ELSE {})
        /\ ClockWaits' = ClockWaits \cup (IF DISPLAYQ = TIMER THEN {e} ELSE {})
        /\ \A type : Mails(type)' = Mails(type)
        /\ held'[CLOCK] = held[CLOCK] \ {e} /\ state'[CLOCK] # "BLOCKED_ON_RCV"
    BY <2>1, <2>2, ClockGives, Zenon
  <2> QED BY <2>1, <2>3
<1>3. pc[CLOCK] = "print" /\ pc'[CLOCK] = "receive" /\ env' = env /\ displayEnv' = displayEnv
  BY DEF CLOCK_Print, At, Goto, AppTypes
<1>4. ClockTimers' = ClockTimers
  BY <1>2, <1>3 DEF ClockTimers
<1>5. ~ resent'
  <2>1. ~ resent
    BY Zenon DEF CLOCK_Print, At
  <2>2. resent' = resent
    BY <1>1 DEF Display
  <2> QED BY <2>1, <2>2, Zenon
<1>6. ~ Excused' => Mails("WAKEUP10")' = {}
  <2>1. Excused => Excused'
    BY <1>1, Zenon DEF Display, Excused
  <2> QED BY <1>2, <1>3, <2>1 DEF ClockInv
<1>7. env'[CLOCK] # NoEnv => env'[CLOCK] \in held'[CLOCK] /\ env'[CLOCK] # displayEnv'
  BY <1>1, <1>2, <1>3 DEF ClockInv
<1> QED BY <1>1, <1>2, <1>3, <1>4, <1>5, <1>6, <1>7 DEF ClockInv, Starting

LEMMA ClockShowsAgain ==
  ASSUME ClockInv, CLOCK_PrintsAgain
  PROVE  ClockInv'
<1>1. /\ pc[CLOCK] = "print" /\ displayEnv \notin held[CLOCK]
      /\ UNCHANGED <<vars, pc, env, displayEnv, crossed, late>>
  BY DEF CLOCK_PrintsAgain, At, console
<1>2. Excused'
  BY <1>1, Zenon DEF ClockInv, Excused
<1>3. /\ \A type : Mails(type)' = Mails(type)
      /\ ClockShown' = ClockShown /\ ClockTimers' = ClockTimers
  BY <1>1 DEF vars, Mails, ClockShown, ClockTimers, ClockWaits
<1>4. Starting(CLOCK)' = Starting(CLOCK)
  BY <1>1 DEF Starting
<1> QED BY <1>1, <1>2, <1>3, <1>4 DEF ClockInv, vars

LEMMA ClockProgram ==
  ASSUME KernelInv, ClockInv, AppTypes, clock_process
  PROVE  ClockInv'
<1>1. current = CLOCK
  BY WorkOfClock DEF Works, Shows
<1> QED
  BY <1>1, ClockRequests, ClockGetsAcknowledgement, ClockCountsSecond, ClockShowsTime,
     ClockShowsAgain DEF clock_process, Quiet


(* Steps that move no envelope of the clock. *)
LEMMA SwitchLeavesClock ==
  ASSUME AppTypes, ClockInv, NEW ns, Switches(ns), current \in UserProcs,
         current = CLOCK => ns # "BLOCKED_ON_RCV" \/ pc[CLOCK] = "receive",
         UNCHANGED <<pc, env, displayEnv>>, resent' => resent, Excused => Excused'
  PROVE  ClockInv'
<1>1. UNCHANGED <<envQ, held, timing, sender_pid, msg_type>>
  BY DEF Switches
<1>2. /\ \A type : Mails(type)' = Mails(type)
      /\ ClockShown' = ClockShown /\ ClockWaits' = ClockWaits
  BY <1>1 DEF Mails, ClockShown, ClockWaits
<1>3. state'[CLOCK] = "BLOCKED_ON_RCV" => state[CLOCK] = "BLOCKED_ON_RCV" \/ pc[CLOCK] = "receive"
  BY Programs DEF Switches
<1> QED BY <1>1, <1>2, <1>3, ClockAlone

LEMMA StayLeavesClock ==
  ASSUME ClockInv, UNCHANGED <<vars, pc, env, displayEnv>>, resent' => resent, Excused => Excused'
  PROVE  ClockInv'
<1>1. /\ \A type : Mails(type)' = Mails(type)
      /\ ClockShown' = ClockShown /\ ClockWaits' = ClockWaits
  BY DEF vars, Mails, ClockShown, ClockWaits
<1> QED BY <1>1, ClockAlone DEF vars

(* What a handler returns to another process, or to the clock. *)
LEMMA ReturnsToOthers ==
  ASSUME KernelInv, ClockInv, NEW e, NEW type, Returns(e, type), sender_pid[e] # CLOCK,
         UNCHANGED <<pc, env, displayEnv, resent>>, Excused => Excused',
         Range(envQ'[DISPLAYQ]) \subseteq Range(envQ[DISPLAYQ]),
         \A f \in Range(envQ[DISPLAYQ]) : f # e => f \in Range(envQ'[DISPLAYQ]),
         (Range(envQ[TIMER]) \cup timing)' \subseteq Range(envQ[TIMER]) \cup timing
  PROVE  ClockInv'
<1> USE Names, Programs
<1>1. /\ Conserved(envQ, held, timing) /\ CLOCK \in EnvQueues /\ CLOCK \in UserProcs
      /\ \A q \in EnvQueues : Range(envQ[q]) \subseteq Envelopes
      /\ InService' \subseteq InService \ {e} /\ InService \subseteq Envelopes
  BY Basics DEF Returns, InService, TypeOK
<1>2. envQ'[CLOCK] = envQ[CLOCK]
  BY <1>1 DEF Returns
<1>3. e \notin Range(envQ[CLOCK])
  BY <1>1 DEF Returns, InService, Conserved
<1>4. \A t : Mails(t)' = Mails(t)
  BY <1>1, <1>2, <1>3 DEF Returns, Relabels, Mails
<1>5. \A f \in InService' : f \in InService /\ sender_pid'[f] = sender_pid[f]
  BY <1>1 DEF Returns, Relabels
<1>6. ClockShown' = ClockShown
  <2>1. \A f \in Range(envQ[DISPLAYQ]) \ {e} : sender_pid'[f] = sender_pid[f]
    BY <1>1 DEF Returns, Relabels
  <2>2. e \notin Range(envQ'[DISPLAYQ])
    BY <1>1 DEF InService
  <2> QED BY <2>1, <2>2 DEF ClockShown
<1>7. ClockWaits' \subseteq ClockWaits
  BY <1>5 DEF ClockWaits, InService
<1>8. state'[CLOCK] = "BLOCKED_ON_RCV" => state[CLOCK] = "BLOCKED_ON_RCV"
  BY DEF Returns, Wakes
<1>9. held'[CLOCK] = held[CLOCK] /\ (resent' => resent)
  BY Zenon DEF Returns
<1> QED BY <1>4, <1>6, <1>7, <1>8, <1>9, ClockAlone

LEMMA ReturnsToClock ==
  ASSUME KernelInv, NEW e, NEW type, Returns(e, type), sender_pid[e] = CLOCK
  PROVE  /\ \A t : Mails(t)' = Mails(t) \cup (IF t = type THEN {e} ELSE {})
         /\ held'[CLOCK] = held[CLOCK]
         /\ state'[CLOCK] = "BLOCKED_ON_RCV" => state[CLOCK] = "BLOCKED_ON_RCV"
         /\ \A f \in InService' : sender_pid'[f] = sender_pid[f] /\ f # e
<1> USE Names, Programs
<1>1. /\ Conserved(envQ, held, timing) /\ CLOCK \in EnvQueues /\ CLOCK \in UserProcs
      /\ Range(envQ[CLOCK]) \subseteq Envelopes /\ InService \subseteq Envelopes
  BY Basics DEF InService, TypeOK
<1>2. e \notin Range(envQ[CLOCK])
  BY <1>1 DEF Returns, InService, Conserved
<1>3. Range(envQ'[CLOCK]) = Range(envQ[CLOCK]) \cup {e}
  BY DEF Returns
<1>4. \A t : Mails(t)' = Mails(t) \cup (IF t = type THEN {e} ELSE {})
  BY <1>1, <1>2, <1>3 DEF Returns, Relabels, Mails
<1>5. \A f \in InService' : sender_pid'[f] = sender_pid[f] /\ f # e
  BY <1>1 DEF Returns, Relabels
<1> QED BY <1>1, <1>4, <1>5 DEF Returns, Wakes

LEMMA ClockAcknowledged ==
  ASSUME KernelInv, KernelInv', ClockInv, crt_handler
  PROVE  ClockInv'
<1> USE Names, Programs
<1> DEFINE e == Head(envQ[DISPLAYQ])
<1>1. /\ Returns(e, "DISPLAY_ACK") /\ e \in Range(envQ[DISPLAYQ])
      /\ Range(envQ'[DISPLAYQ]) = Range(envQ[DISPLAYQ]) \ {e}
      /\ envQ'[TIMER] = envQ[TIMER] /\ timing' = timing
  BY CrtReturns DEF crt_handler
<1>2. UNCHANGED <<pc, env, displayEnv, resent>> /\ Excused' = Excused
  BY DEF crt_handler, programs, Excused
<1> HIDE DEF e
<1>3. CASE sender_pid[e] # CLOCK
  BY <1>1, <1>2, <1>3, ReturnsToOthers
<1>4. CASE sender_pid[e] = CLOCK
  <2>1. /\ \A t : Mails(t)' = Mails(t) \cup (IF t = "DISPLAY_ACK" THEN {e} ELSE {})
        /\ held'[CLOCK] = held[CLOCK]
        /\ state'[CLOCK] = "BLOCKED_ON_RCV" => state[CLOCK] = "BLOCKED_ON_RCV"
        /\ \A f \in InService' : sender_pid'[f] = sender_pid[f] /\ f # e
    BY <1>1, <1>4, ReturnsToClock
  <2>2. e \in ClockShown /\ e = displayEnv
    BY <1>1, <1>4 DEF ClockShown, ClockInv
  <2>3. ClockShown' = ClockShown \ {e} /\ ClockWaits' = ClockWaits
    BY <1>1, <2>1 DEF ClockShown, ClockWaits, InService
  <2>4. /\ Mails("DISPLAY_ACK")' = Mails("DISPLAY_ACK") \cup {e}
        /\ Mails("WAKEUP10")' = Mails("WAKEUP10")
    BY <2>1
  <2>5. ClockTimers' = ClockTimers
    BY <1>2, <2>3, <2>4 DEF ClockTimers
  <2>6. Starting(CLOCK)' = Starting(CLOCK)
    BY <1>2 DEF Starting
  <2> QED BY <1>2, <2>1, <2>2, <2>3, <2>4, <2>5, <2>6 DEF ClockInv
<1> QED BY <1>3, <1>4

LEMMA ClockHearsNoLine ==
  ASSUME KernelInv, KernelInv', ClockInv, kbd_handler
  PROVE  ClockInv'
<1> USE Names, Programs
<1> DEFINE e == Head(envQ[KB])
<1>1. /\ Returns(e, "CONSOLE_INPUT")
      /\ envQ'[DISPLAYQ] = envQ[DISPLAYQ] /\ envQ'[TIMER] = envQ[TIMER] /\ timing' = timing
  BY KbdReturns DEF kbd_handler
<1>2. UNCHANGED <<pc, env, displayEnv, resent>> /\ Excused' = Excused
  BY DEF kbd_handler, programs, Quiet, console, Excused
<1> HIDE DEF e
<1>3. CASE sender_pid[e] # CLOCK
  BY <1>1, <1>2, <1>3, ReturnsToOthers
<1>4. CASE sender_pid[e] = CLOCK
  <2>1. /\ \A t : Mails(t)' = Mails(t) \cup (IF t = "CONSOLE_INPUT" THEN {e} ELSE {})
        /\ held'[CLOCK] = held[CLOCK]
        /\ state'[CLOCK] = "BLOCKED_ON_RCV" => state[CLOCK] = "BLOCKED_ON_RCV"
        /\ \A f \in InService' : sender_pid'[f] = sender_pid[f] /\ f # e
    BY <1>1, <1>4, ReturnsToClock
  <2>2. ClockShown' = ClockShown /\ ClockWaits' = ClockWaits
    BY <1>1, <2>1 DEF ClockShown, ClockWaits, InService
  <2>3. Mails("DISPLAY_ACK")' = Mails("DISPLAY_ACK") /\ Mails("WAKEUP10")' = Mails("WAKEUP10")
    BY <2>1
  <2>4. ClockTimers' = ClockTimers
    BY <1>2, <2>2, <2>3 DEF ClockTimers
  <2>5. Starting(CLOCK)' = Starting(CLOCK)
    BY <1>2 DEF Starting
  <2> QED BY <1>2, <2>1, <2>2, <2>3, <2>4, <2>5 DEF ClockInv
<1> QED BY <1>3, <1>4

(* A second ends in time: either the text of the clock is back, or the console has nothing left
   to display, so that DISPLAYQ is empty unless a text was overwritten. *)
LEMMA ClockWakes ==
  ASSUME KernelInv, KernelInv', ClockInv, ConsoleInv, NEW p \in {C, CLOCK}, timer_handler(p)
  PROVE  ClockInv'
<1> USE Names, Programs
<1>1. PICK e \in Envelopes : sender_pid[e] = p /\ timer_i_proc(e)
  BY DEF timer_handler
<1>2. /\ Returns(e, "WAKEUP10") /\ e \in Range(envQ[TIMER]) \cup timing
      /\ envQ'[DISPLAYQ] = envQ[DISPLAYQ]
      /\ (Range(envQ[TIMER]) \cup timing)' \subseteq (Range(envQ[TIMER]) \cup timing) \ {e}
  BY <1>1, TimerReturns
<1>3. /\ UNCHANGED <<pc, env, displayEnv, resent>>
      /\ Excused => Excused'
      /\ p = CLOCK /\ ~ Excused' => OnTime /\ ~ crossed /\ ~ Excused
  <2>1. UNCHANGED <<pc, env, displayEnv, resent>>
    BY DEF timer_handler, programs
  <2>2. /\ Excused => Excused'
        /\ p = CLOCK /\ ~ Excused' => OnTime /\ ~ crossed /\ ~ Excused
    BY Zenon DEF timer_handler, Excused
  <2> QED BY <2>1, <2>2
<1>4. CASE p = C
  BY <1>1, <1>2, <1>3, <1>4, ReturnsToOthers
<1>5. CASE p = CLOCK
  <2>1. /\ \A t : Mails(t)' = Mails(t) \cup (IF t = "WAKEUP10" THEN {e} ELSE {})
        /\ held'[CLOCK] = held[CLOCK]
        /\ state'[CLOCK] = "BLOCKED_ON_RCV" => state[CLOCK] = "BLOCKED_ON_RCV"
        /\ \A f \in InService' : sender_pid'[f] = sender_pid[f] /\ f # e
    BY <1>1, <1>2, <1>5, ReturnsToClock
  <2>2. ClockShown' = ClockShown /\ ClockWaits' \subseteq ClockWaits /\ e \in ClockWaits
    BY <1>1, <1>2, <1>5, <2>1 DEF ClockShown, ClockWaits, InService
  <2>3. /\ Mails("DISPLAY_ACK")' = Mails("DISPLAY_ACK")
        /\ Mails("WAKEUP10")' = Mails("WAKEUP10") \cup {e}
    BY <2>1
  <2>4. ClockTimers' \subseteq ClockTimers
    BY <1>3, <2>2, <2>3 DEF ClockTimers
  <2>5. Starting(CLOCK)' = Starting(CLOCK)
    BY <1>3 DEF Starting
  <2>6. OnTime => pc[CLOCK] = "receive" /\ envQ[CLOCK] = <<>>
    BY <1>5, Basics DEF OnTime, ClockInv, KernelInv, NoLostWakeup
  <2>7. ASSUME ~ Excused' PROVE displayEnv \in held[CLOCK] /\ pc[CLOCK] = "receive"
    <3>1. OnTime /\ ~ crossed /\ pc[CLOCK] = "receive" /\ envQ[CLOCK] = <<>>
      BY <1>3, <1>5, <2>6, <2>7
    <3>2. ASSUME ConsoleIdle PROVE displayEnv \in held[CLOCK]
      <4>1. ok_flag # "OKAY_DISPLAY" /\ One(ok_flag = "OKAY_DISPLAY") = 0 /\ One(SIGUSR2) = 0
        BY <3>2 DEF ConsoleIdle, One
      <4>2. Len(envQ[DISPLAYQ]) = 0 + 0
        <5>1. Len(envQ[DISPLAYQ]) = One(ok_flag = "OKAY_DISPLAY") + One(SIGUSR2)
          BY <3>1, Zenon DEF ConsoleInv
        <5> QED BY <4>1, <5>1, Zenon
      <4>3. envQ[DISPLAYQ] = <<>>
        BY <4>2, Basics DEF TypeOK
      <4>4. ClockShown = {} /\ Mails("DISPLAY_ACK") = {}
        BY <3>1, <4>3, EmptyQueue DEF ClockShown, Mails
      <4> QED BY <3>1, <4>4 DEF ClockInv, Starting
    <3> QED BY <3>1, <3>2, Zenon DEF OnTime
  <2> QED BY <1>3, <2>1, <2>2, <2>3, <2>4, <2>5, <2>6, <2>7 DEF ClockInv
<1> QED BY <1>4, <1>5

LEMMA ClockStep ==
  ASSUME KernelInv, KernelInv', ClockInv, ConsoleInv, AppTypes, AppNext
  PROVE  ClockInv'
<1> USE Names, Programs
<1>1. CASE procA
  <2>1. UNCHANGED <<displayEnv, resent>> /\ pc'[CLOCK] = pc[CLOCK] /\ env'[CLOCK] = env[CLOCK]
    BY <1>1 DEF procA, A_Start, A_Report, Quiet, Goto, Assign, AppTypes
  <2> QED BY <1>1, <2>1, WorkOfA, OthersLeaveClock, ClockAlone
<1>2. CASE procB
  <2>1. UNCHANGED <<displayEnv, resent>> /\ pc'[CLOCK] = pc[CLOCK] /\ env'[CLOCK] = env[CLOCK]
    BY <1>2 DEF procB, Quiet, Goto, Assign, AppTypes
  <2> QED BY <1>2, <2>1, WorkOfB, OthersLeaveClock, ClockAlone
<1>3. CASE procC
  <2>1. UNCHANGED displayEnv /\ pc'[CLOCK] = pc[CLOCK] /\ env'[CLOCK] = env[CLOCK]
    BY <1>3 DEF procC, C_Receive, C_Print, C_Discard, C_Yield, C_AwaitAck, C_Delay,
                C_AwaitWakeup, C_Release, C_Next, Goto, Assign, AppTypes
  <2>2. resent' = resent
    BY <1>3, WorkOfC DEF Shows
  <2> QED BY <1>3, <2>1, <2>2, WorkOfC, OthersLeaveClock, ClockAlone
<1>4. CASE cci_process
  <2>1. UNCHANGED displayEnv /\ pc'[CLOCK] = pc[CLOCK] /\ env'[CLOCK] = env[CLOCK]
    BY <1>4 DEF cci_process, CCI_Input, CCI_Silent, CCI_Start, CCI_Prompt, CCI_StartsA,
                CCI_Answer, cci_print, cci_printed, Goto, Assign, AppTypes
  <2>2. resent' = resent
    BY <1>4, WorkOfCCI DEF Shows
  <2> QED BY <1>4, <2>1, <2>2, WorkOfCCI, OthersLeaveClock, ClockAlone
<1>5. CASE null_process \/ Suspends
  <2>1. /\ UNCHANGED <<pc, env, displayEnv, resent>> /\ Excused' = Excused
        /\ current \in UserProcs
    BY <1>5, Basics DEF null_process, Suspends, Quiet, programs, console, Excused
  <2>2. \/ Switches("READY") \/ Switches("BLOCKED_ON_ENV_REQUEST")
        \/ Switches("BLOCKED_ON_RCV") /\ (current = CLOCK => pc[CLOCK] = "receive")
    BY <1>5, Kinds DEF null_process, Suspends, ClockInv
  <2> QED BY <2>1, <2>2, SwitchLeavesClock
<1>6. CASE CrtPrints \/ CrtSignals \/ Derailed
  <2>1. UNCHANGED <<vars, pc, env, displayEnv, resent>>
    BY <1>6 DEF CrtPrints, CrtSignals, Derailed, appVars, programs
  <2>2. Excused => Excused'
    BY <1>6, Zenon DEF CrtPrints, CrtSignals, Derailed, appVars, console, Excused
  <2> QED BY <2>1, <2>2, StayLeavesClock
<1> QED
  BY <1>1, <1>2, <1>3, <1>4, <1>5, <1>6, ClockProgram, ClockAcknowledged, ClockHearsNoLine, ClockWakes
  DEF AppNext

-----------------------------------------------------------------------------
(* The types of the local variables. *)

LEMMA TypesStep ==
  ASSUME KernelInv, AppTypes, AppNext
  PROVE  AppTypes'
<1> USE Programs
<1>1. RequestMsgEnv => FirstFree \in Envelopes
  BY Kinds DEF Takes
<1>2. ReceiveMessage => Mail(current) \in Envelopes
  BY Kinds DEF Takes
<1>3. \A p \in Clients, l \in Labels : pc' = [pc EXCEPT ![p] = l] => pc' \in [Clients -> Labels]
  BY DEF AppTypes
<1>4. \A p \in Clients, e \in Envelopes \cup {NoEnv} :
        env' = [env EXCEPT ![p] = e] => env' \in [Clients -> Envelopes \cup {NoEnv}]
  BY DEF AppTypes
<1> USE DEF Goto, Assign, At
<1>5. CASE procA
  <2>1. pc' \in [Clients -> Labels]
    BY <1>3, <1>5 DEF procA, A_Start, A_Report, Labels
  <2>2. env' \in [Clients -> Envelopes \cup {NoEnv}]
    BY <1>1, <1>2, <1>4, <1>5 DEF procA, A_Start, A_Report, AppTypes
  <2>3. num_count' \in Counts
    BY <1>5, CountsClosed DEF procA, A_Start, A_Report, AppTypes
  <2>4. data' \in [Envelopes -> Counts \cup {NoEnv}]
    BY <1>5 DEF procA, A_Start, A_Report, AppTypes
  <2> QED BY <1>5, <2>1, <2>2, <2>3, <2>4 DEF procA, AppTypes
<1>6. CASE procB
  <2>1. pc' \in [Clients -> Labels]
    BY <1>3, <1>6 DEF procB, Labels
  <2>2. env' \in [Clients -> Envelopes \cup {NoEnv}]
    BY <1>2, <1>4, <1>6 DEF procB, AppTypes
  <2> QED BY <1>6, <2>1, <2>2 DEF procB, AppTypes
<1>7. CASE procC
  <2>1. pc' \in [Clients -> Labels]
    <3>1. pc' = pc \/ \E l \in Labels : pc' = [pc EXCEPT ![C] = l]
      BY <1>7 DEF procC, C_Receive, C_Print, C_Discard, C_Yield, C_AwaitAck, C_Delay,
                  C_AwaitWakeup, C_Release, C_Next, Labels
    <3> QED BY <1>3, <3>1 DEF AppTypes
  <2>2. env' \in [Clients -> Envelopes \cup {NoEnv}]
    <3>1. env' = env \/ \E e \in Envelopes \cup {NoEnv} : env' = [env EXCEPT ![C] = e]
      BY <1>2, <1>7 DEF procC, C_Receive, C_Print, C_Discard, C_Yield, C_AwaitAck, C_Delay,
                        C_AwaitWakeup, C_Release, Receives
    <3> QED BY <1>4, <3>1 DEF AppTypes
  <2>3. data' \in [Envelopes -> Counts \cup {NoEnv}]
    BY <1>7 DEF procC, C_Receive, C_Print, C_Discard, C_Yield, C_AwaitAck, C_Delay,
                C_AwaitWakeup, C_Release, AppTypes
  <2>4. msgQueue' \in Seq(Envelopes)
    <3>1. \/ msgQueue' = msgQueue
          \/ \E e \in Envelopes : msgQueue' = Append(msgQueue, e)
          \/ msgQueue # <<>> /\ msgQueue' = Tail(msgQueue)
      BY <1>2, <1>7 DEF procC, C_Receive, C_Print, C_Discard, C_Yield, C_AwaitAck, C_Delay,
                        C_AwaitWakeup, C_Release, Receives
    <3> QED BY <3>1 DEF AppTypes
  <2> QED BY <1>7, <2>1, <2>2, <2>3, <2>4 DEF procC, AppTypes
<1>8. CASE cci_process
  <2>1. pc' \in [Clients -> Labels]
    BY <1>3, <1>8 DEF cci_process, CCI_Input, CCI_Silent, CCI_Start, CCI_Prompt, CCI_StartsA,
                      CCI_Answer, cci_print, cci_printed, Labels
  <2>2. env' \in [Clients -> Envelopes \cup {NoEnv}]
    <3>1. env' = env \/ \E e \in Envelopes \cup {NoEnv} : env' = [env EXCEPT ![CCI] = e]
      BY <1>1, <1>2, <1>8 DEF cci_process, CCI_Input, CCI_Silent, CCI_Start, CCI_Prompt, CCI_StartsA,
                              CCI_Answer, cci_print, cci_printed, Receives
    <3> QED BY <1>4, <3>1 DEF AppTypes
  <2> QED BY <1>8, <2>1, <2>2 DEF cci_process, AppTypes
<1>9. CASE clock_process
  <2>1. pc' \in [Clients -> Labels]
    <3>1. pc' = pc \/ \E l \in Labels : pc' = [pc EXCEPT ![CLOCK] = l]
      BY <1>9 DEF clock_process, CLOCK_Start, CLOCK_Acknowledged, CLOCK_Second, CLOCK_Print,
                  CLOCK_PrintsAgain, Labels
    <3> QED BY <1>3, <3>1 DEF AppTypes
  <2>2. env' \in [Clients -> Envelopes \cup {NoEnv}]
    <3>1. env' = env \/ \E e \in Envelopes \cup {NoEnv} : env' = [env EXCEPT ![CLOCK] = e]
      BY <1>1, <1>2, <1>9 DEF clock_process, CLOCK_Start, CLOCK_Acknowledged, CLOCK_Second,
                              CLOCK_Print, CLOCK_PrintsAgain, Receives
    <3> QED BY <1>4, <3>1 DEF AppTypes
  <2> QED BY <1>9, <2>1, <2>2 DEF clock_process, AppTypes
<1>10. CASE UNCHANGED programs
  BY <1>10 DEF programs, AppTypes
<1>11. null_process \/ Suspends \/ CrtPrints \/ CrtSignals \/ crt_handler \/ kbd_handler
         \/ (\E p \in {C, CLOCK} : timer_handler(p)) \/ Derailed => UNCHANGED programs
  BY DEF null_process, Suspends, CrtPrints, CrtSignals, crt_handler, kbd_handler, timer_handler,
         Derailed, appVars
<1> QED BY <1>5, <1>6, <1>7, <1>8, <1>9, <1>10, <1>11 DEF AppNext

-----------------------------------------------------------------------------
(* Counts along a queue. *)

LEMMA RunOfNone ==
  ASSUME NEW type, NEW carried, NEW x \in Counts
  PROVE  /\ Run(<<>>, type, carried, x, x)
         /\ \A y \in Counts : Run(<<>>, type, carried, x, y) => y = x
<1> DEFINE n == [i \in 0 .. 0 |-> x]
<1>1. Len(<<>>) = 0 /\ n \in [0 .. Len(<<>>) -> Counts] /\ n[0] = x
  OBVIOUS
<1> HIDE DEF n
<1>2. Run(<<>>, type, carried, x, x)
  BY <1>1 DEF Run
<1> QED BY <1>1, <1>2 DEF Run

(* The same queue, its messages unchanged. *)
LEMMA RunKept ==
  ASSUME NEW q \in Seq(Envelopes), NEW type, NEW carried, NEW type2, NEW carried2,
         NEW x, NEW y, Run(q, type, carried, x, y),
         \A e \in Range(q) : type2[e] = type[e] /\ carried2[e] = carried[e]
  PROVE  Run(q, type2, carried2, x, y)
<1>1. \A i \in 1 .. Len(q) : q[i] \in Range(q)
  BY DEF Range
<1>2. \A i \in 1 .. Len(q) : \A b, a :
        Carries(q[i], type, carried, b, a) => Carries(q[i], type2, carried2, b, a)
  BY <1>1 DEF Carries
<1> QED BY <1>2 DEF Run

LEMMA RunAppends ==
  ASSUME NEW q \in Seq(Envelopes), NEW type, NEW carried, NEW e \in Envelopes,
         NEW x, NEW y, NEW z \in Counts, Run(q, type, carried, x, y), Carries(e, type, carried, y, z)
  PROVE  Run(Append(q, e), type, carried, x, z)
<1> DEFINE r == Append(q, e)
<1>1. /\ Len(q) \in Nat /\ Len(r) = Len(q) + 1 /\ r[Len(q) + 1] = e
      /\ \A i \in 1 .. Len(q) : r[i] = q[i]
  OBVIOUS
<1>2. PICK n \in [0 .. Len(q) -> Counts] :
        /\ n[0] = x /\ n[Len(q)] = y
        /\ \A i \in 1 .. Len(q) : Carries(q[i], type, carried, n[i - 1], n[i])
  BY DEF Run
<1> DEFINE m == [i \in 0 .. Len(q) + 1 |-> IF i = Len(q) + 1 THEN z ELSE n[i]]
<1>3. /\ m \in [0 .. Len(q) + 1 -> Counts] /\ m[Len(q) + 1] = z
      /\ \A i \in 0 .. Len(q) : m[i] = n[i]
  BY <1>1, <1>2
<1> HIDE DEF m, r
<1>4. ASSUME NEW i \in 1 .. Len(q) + 1 PROVE Carries(r[i], type, carried, m[i - 1], m[i])
  <2>1. CASE i = Len(q) + 1
    <3>1. r[i] = e /\ m[i] = z /\ m[i - 1] = y
      BY <1>1, <1>2, <1>3, <2>1
    <3> QED BY <3>1
  <2>2. CASE i # Len(q) + 1
    <3>1. i \in 1 .. Len(q) /\ r[i] = q[i] /\ m[i] = n[i] /\ m[i - 1] = n[i - 1]
      BY <1>1, <1>3, <2>2
    <3> QED BY <3>1, <1>2
  <2> QED BY <2>1, <2>2
<1>5. m[0] = x /\ m[Len(r)] = z /\ m \in [0 .. Len(r) -> Counts]
  BY <1>1, <1>2, <1>3
<1>6. Run(r, type, carried, x, z)
  BY <1>1, <1>4, <1>5 DEF Run
<1> QED BY <1>6 DEF r

LEMMA RunLosesFirst ==
  ASSUME NEW q \in Seq(Envelopes), NEW type, NEW carried, q # <<>>,
         NEW x, NEW z, Run(q, type, carried, x, z)
  PROVE  \E y \in Counts : /\ Carries(Head(q), type, carried, x, y)
                           /\ Run(Tail(q), type, carried, y, z)
<1> DEFINE r == Tail(q)
<1>1. /\ Len(q) \in Nat \ {0} /\ Len(r) = Len(q) - 1 /\ Head(q) = q[1]
      /\ \A i \in 1 .. Len(q) - 1 : r[i] = q[i + 1]
  OBVIOUS
<1>2. PICK n \in [0 .. Len(q) -> Counts] :
        /\ n[0] = x /\ n[Len(q)] = z
        /\ \A i \in 1 .. Len(q) : Carries(q[i], type, carried, n[i - 1], n[i])
  BY DEF Run
<1> DEFINE m == [i \in 0 .. Len(q) - 1 |-> n[i + 1]]
<1>3. /\ m \in [0 .. Len(q) - 1 -> Counts]
      /\ \A i \in 0 .. Len(q) - 1 : m[i] = n[i + 1]
  BY <1>1, <1>2
<1>4. m[0] = n[1] /\ n[1] \in Counts /\ m[Len(q) - 1] = z
  BY <1>1, <1>2, <1>3
<1> HIDE DEF m, r
<1>5. ASSUME NEW i \in 1 .. Len(r) PROVE Carries(r[i], type, carried, m[i - 1], m[i])
  <2>1. /\ r[i] = q[i + 1] /\ m[i] = n[i + 1] /\ m[i - 1] = n[i] /\ i + 1 \in 1 .. Len(q)
        /\ (i + 1) - 1 = i
    BY <1>1, <1>3
  <2> QED BY <2>1, <1>2
<1>6. Run(r, type, carried, n[1], z)
  BY <1>1, <1>3, <1>4, <1>5 DEF Run
<1>7. Carries(Head(q), type, carried, x, n[1])
  <2>1. 1 \in 1 .. Len(q) /\ 1 - 1 = 0
    BY <1>1
  <2> QED BY <1>1, <1>2, <2>1
<1> QED BY <1>4, <1>6, <1>7 DEF r

LEMMA RunJoins ==
  ASSUME NEW q \in Seq(Envelopes), NEW r \in Seq(Envelopes), NEW type, NEW carried,
         NEW x, NEW y, NEW z, Run(q, type, carried, x, y), Run(r, type, carried, y, z)
  PROVE  Run(q \o r, type, carried, x, z)
<1> DEFINE s == q \o r
<1>1. /\ Len(q) \in Nat /\ Len(r) \in Nat /\ Len(s) = Len(q) + Len(r)
      /\ \A i \in 1 .. Len(q) : s[i] = q[i]
      /\ \A i \in Len(q) + 1 .. Len(q) + Len(r) : s[i] = r[i - Len(q)]
  OBVIOUS
<1>2. PICK n \in [0 .. Len(q) -> Counts] :
        /\ n[0] = x /\ n[Len(q)] = y
        /\ \A i \in 1 .. Len(q) : Carries(q[i], type, carried, n[i - 1], n[i])
  BY DEF Run
<1>3. PICK m \in [0 .. Len(r) -> Counts] :
        /\ m[0] = y /\ m[Len(r)] = z
        /\ \A i \in 1 .. Len(r) : Carries(r[i], type, carried, m[i - 1], m[i])
  BY DEF Run
<1> DEFINE k == [i \in 0 .. Len(s) |-> IF i <= Len(q) THEN n[i] ELSE m[i - Len(q)]]
<1>4. /\ k \in [0 .. Len(s) -> Counts]
      /\ \A i \in 0 .. Len(q) : k[i] = n[i]
      /\ \A i \in Len(q) .. Len(s) : k[i] = m[i - Len(q)]
  <2>1. Len(q) - Len(q) = 0 /\ n[Len(q)] = m[0]
    BY <1>1, <1>2, <1>3
  <2>2. \A i \in Len(q) + 1 .. Len(s) : i - Len(q) \in 0 .. Len(r) /\ ~ (i <= Len(q))
    BY <1>1
  <2>3. \A i \in 0 .. Len(s) : i <= Len(q) => i \in 0 .. Len(q)
    BY <1>1
  <2>4. \A i \in 0 .. Len(s) : i \in 0 .. Len(q) \/ i \in Len(q) + 1 .. Len(s)
    BY <1>1
  <2>5. k \in [0 .. Len(s) -> Counts]
    BY <2>2, <2>3, <2>4
  <2>6. \A i \in Len(q) .. Len(s) : i = Len(q) \/ i \in Len(q) + 1 .. Len(s)
    BY <1>1
  <2> QED BY <1>1, <2>1, <2>2, <2>5, <2>6
<1> HIDE DEF k, s
<1>5. ASSUME NEW i \in 1 .. Len(s) PROVE Carries(s[i], type, carried, k[i - 1], k[i])
  <2>1. CASE i <= Len(q)
    <3>1. i \in 1 .. Len(q) /\ s[i] = q[i] /\ k[i] = n[i] /\ k[i - 1] = n[i - 1]
      BY <1>1, <1>4, <2>1
    <3> QED BY <3>1, <1>2
  <2>2. CASE ~ (i <= Len(q))
    <3>1. /\ i - Len(q) \in 1 .. Len(r) /\ s[i] = r[i - Len(q)]
          /\ i \in Len(q) .. Len(s) /\ i - 1 \in Len(q) .. Len(s)
          /\ (i - 1) - Len(q) = (i - Len(q)) - 1
      BY <1>1, <2>2
    <3>2. k[i] = m[i - Len(q)] /\ k[i - 1] = m[(i - Len(q)) - 1]
      BY <1>4, <3>1
    <3> QED BY <3>1, <3>2, <1>3
  <2> QED BY <2>1, <2>2
<1>6. k[0] = x /\ k[Len(s)] = z
  <2>1. 0 \in 0 .. Len(q) /\ Len(s) \in Len(q) .. Len(s) /\ Len(s) - Len(q) = Len(r)
    BY <1>1
  <2> QED BY <2>1, <1>2, <1>3, <1>4
<1>7. Run(s, type, carried, x, z)
  BY <1>4, <1>5, <1>6 DEF Run
<1> QED BY <1>7 DEF s

LEMMA RunOfOne ==
  ASSUME NEW e \in Envelopes, NEW type, NEW carried, NEW x \in Counts, NEW y \in Counts,
         Carries(e, type, carried, x, y)
  PROVE  Run(<<e>>, type, carried, x, y)
<1>1. Append(<<>>, e) = <<e>> /\ <<>> \in Seq(Envelopes)
  OBVIOUS
<1>2. Run(<<>>, type, carried, x, x)
  BY RunOfNone
<1>3. Run(Append(<<>>, e), type, carried, x, y)
  BY <1>1, <1>2, RunAppends
<1> QED BY <1>1, <1>3

-----------------------------------------------------------------------------
(* The reports on their way. *)

ReportsInv == Hands /\ Chain

Transit ==
  Range(msgQueue) \cup Range(envQ[C]) \cup Range(envQ[B])
    \cup (IF pc[B] = "forward" THEN {env[B]} ELSE {})

(* What is on its way to C is nowhere else. *)
LEMMA NotInTransit ==
  ASSUME KernelInv, Hands
  PROVE  /\ \A p \in UserProcs \ {B, C} : held[p] \cap Transit = {}
         /\ \A q \in EnvQueues \ {B, C} : Range(envQ[q]) \cap Transit = {}
         /\ timing \cap Transit = {}
         /\ \A e \in held[C] \ Range(msgQueue) : e \notin Transit
         /\ \A e \in InService : e \notin Transit
         /\ env[B] \in held[B] => env[B] \notin Range(msgQueue) \cup Range(envQ[C]) \cup Range(envQ[B])
<1> USE Names, Programs
<1>1. /\ Conserved(envQ, held, timing) /\ {B, C} \subseteq UserProcs /\ {B, C} \subseteq EnvQueues
      /\ {DISPLAYQ, KB, TIMER} \subseteq EnvQueues \ {B, C}
  BY Basics
<1>2. /\ Range(msgQueue) \subseteq held[C]
      /\ (IF pc[B] = "forward" THEN {env[B]} ELSE {}) \subseteq held[B]
  BY DEF Hands
<1>3. ASSUME NEW p \in UserProcs \ {B, C} PROVE held[p] \cap Transit = {}
  <2>1. /\ held[p] \cap held[C] = {} /\ held[p] \cap held[B] = {}
        /\ held[p] \cap Range(envQ[C]) = {} /\ held[p] \cap Range(envQ[B]) = {}
    BY <1>1 DEF Conserved
  <2> QED BY <1>2, <2>1 DEF Transit
<1>4. ASSUME NEW q \in EnvQueues \ {B, C} PROVE Range(envQ[q]) \cap Transit = {}
  <2>1. /\ Range(envQ[q]) \cap held[C] = {} /\ Range(envQ[q]) \cap held[B] = {}
        /\ Range(envQ[q]) \cap Range(envQ[C]) = {} /\ Range(envQ[q]) \cap Range(envQ[B]) = {}
    BY <1>1 DEF Conserved
  <2> QED BY <1>2, <2>1 DEF Transit
<1>5. timing \cap Transit = {}
  BY <1>1, <1>2 DEF Transit, Conserved
<1>6. \A e \in held[C] \ Range(msgQueue) : e \notin Transit
  <2>1. /\ held[C] \cap held[B] = {} /\ held[C] \cap Range(envQ[C]) = {}
        /\ held[C] \cap Range(envQ[B]) = {}
    BY <1>1 DEF Conserved
  <2> QED BY <1>2, <2>1 DEF Transit
<1>7. \A e \in InService : e \notin Transit
  BY <1>1, <1>4, <1>5 DEF InService
<1>8. env[B] \in held[B] => env[B] \notin Range(msgQueue) \cup Range(envQ[C]) \cup Range(envQ[B])
  BY <1>1, <1>2 DEF Conserved
<1> QED BY <1>3, <1>4, <1>5, <1>6, <1>7, <1>8

LEMMA ChainKept ==
  ASSUME KernelInv, AppTypes, Chain, envQ'[B] = envQ[B], envQ'[C] = envQ[C],
         UNCHANGED <<msgQueue, awaited, num_count>>,
         pc'[B] = "forward" <=> pc[B] = "forward", pc[B] = "forward" => env'[B] = env[B],
         \A e \in Transit : msg_type'[e] = msg_type[e] /\ data'[e] = data[e]
  PROVE  Chain'
<1>1. envQ[B] \in Seq(Envelopes) /\ envQ[C] \in Seq(Envelopes) /\ msgQueue \in Seq(Envelopes)
  BY Basics, Names, Programs DEF TypeOK, AppTypes
<1>2. PICK x1, x2, x3 \in Counts :
        /\ Run(msgQueue, msg_type, data, awaited, x1)
        /\ Run(envQ[C], msg_type, data, x1, x2)
        /\ IF pc[B] = "forward" THEN Carries(env[B], msg_type, data, x2, x3) ELSE x3 = x2
        /\ Run(envQ[B], msg_type, data, x3, num_count)
  BY DEF Chain
<1>3. /\ Run(msgQueue', msg_type', data', awaited', x1)
      /\ Run(envQ'[C], msg_type', data', x1, x2)
      /\ Run(envQ'[B], msg_type', data', x3, num_count')
  BY <1>1, <1>2, RunKept DEF Transit
<1>4. IF pc'[B] = "forward" THEN Carries(env'[B], msg_type', data', x2, x3) ELSE x3 = x2
  <2>1. CASE pc[B] = "forward"
    <3>1. env[B] \in Transit
      BY <2>1 DEF Transit
    <3> QED BY <1>2, <2>1, <3>1 DEF Carries
  <2> QED BY <1>2, <2>1
<1> QED BY <1>3, <1>4 DEF Chain

(* A step of no concern to A, B and C. *)
LEMMA ReportsKept ==
  ASSUME KernelInv, AppTypes, ReportsInv, envQ'[B] = envQ[B], envQ'[C] = envQ[C],
         UNCHANGED <<msgQueue, awaited, num_count, data>>,
         \A p \in {A, B, C} : pc'[p] = pc[p] /\ env'[p] = env[p] /\ held[p] \subseteq held'[p],
         \A e \in Transit \cup held[A] : msg_type'[e] = msg_type[e]
  PROVE  ReportsInv'
<1>1. Chain'
  BY ChainKept DEF ReportsInv
<1>2. Hands'
  BY DEF ReportsInv, Hands, IsReport
<1> QED BY <1>1, <1>2 DEF ReportsInv

LEMMA OthersKeepReports ==
  ASSUME KernelInv, AppTypes, ReportsInv, NEW p \in Clients \ {A, B, C}, NEW to, to \cap {B, C} = {},
         Works(p, {FREE_ENV_QUEUE, p}, to) \/ Shows(p),
         UNCHANGED <<msgQueue, awaited, num_count, data>>,
         \A r \in {A, B, C} : pc'[r] = pc[r] /\ env'[r] = env[r]
  PROVE  ReportsInv'
<1> USE Names, Programs
<1>1. /\ current = p /\ p \in UserProcs \ {B, C} /\ {A, B, C} \subseteq UserProcs
      /\ {B, C} \subseteq EnvQueues /\ Conserved(envQ, held, timing) /\ TypeOK
  BY Basics DEF Works, Shows
<1>2. /\ held[p] \cap Transit = {} /\ held[p] \cap held[A] = {}
      /\ Transit \cup held[A] \subseteq Envelopes
  <2>1. held[p] \cap Transit = {}
    BY <1>1, NotInTransit DEF ReportsInv
  <2>2. Transit \subseteq Envelopes
    <3>1. /\ Range(envQ[C]) \subseteq Envelopes /\ Range(envQ[B]) \subseteq Envelopes
          /\ held[C] \subseteq Envelopes /\ held[B] \subseteq Envelopes
      BY <1>1, Basics DEF TypeOK
    <3> QED BY <3>1 DEF Transit, ReportsInv, Hands
  <2> QED BY <1>1, <2>1, <2>2 DEF Conserved, TypeOK
<1> DEFINE Left == /\ envQ'[B] = envQ[B] /\ envQ'[C] = envQ[C]
                   /\ \A r \in {A, B, C} : held[r] \subseteq held'[r]
                   /\ \A e \in Transit \cup held[A] : msg_type'[e] = msg_type[e]
<1>3. ASSUME UNCHANGED vars PROVE Left
  BY <1>3 DEF vars
<1>4. ASSUME NEW q \in {FREE_ENV_QUEUE, p}, NEW e, Takes(q, e) PROVE Left
  BY <1>1, <1>4 DEF Takes, OthersHold
<1>5. ASSUME NEW q, NEW e, q \notin {B, C}, Gives(q, e) PROVE Left
  BY <1>1, <1>2, <1>5 DEF Gives, OthersHold, Relabels
<1>6. ASSUME NEW e, Marks(e) PROVE Left
  BY <1>1, <1>2, <1>6 DEF Marks, Relabels
<1>7. ASSUME NEW ns, Switches(ns) PROVE Left
  BY <1>7 DEF Switches
<1>8. Left
  <2>1. \A q \in to : q \notin {B, C}
    OBVIOUS
  <2>2. DISPLAYQ \notin {B, C}
    BY <1>1
  <2> QED BY <1>3, <1>4, <1>5, <1>6, <1>7, <2>1, <2>2 DEF Works, Shows
<1> QED BY <1>8, ReportsKept

(* A handler returns nothing to A and B, and no report to C. *)
LEMMA ReturnKeepsReports ==
  ASSUME KernelInv, AppTypes, ReportsInv, Senders, NEW e, NEW type, Returns(e, type),
         type # "COUNT_REPORT", UNCHANGED programs
  PROVE  ReportsInv'
<1> USE Names, Programs
<1>1. /\ e \in Envelopes /\ e \in InService /\ sender_pid[e] \notin {A, B}
      /\ {A, B, C} \subseteq UserProcs /\ {B, C} \subseteq EnvQueues
      /\ envQ[C] \in Seq(Envelopes) /\ TypeOK
  BY Basics DEF Returns, Senders, TypeOK
<1>2. e \notin Transit /\ e \notin held[A]
  <2>1. e \notin Transit
    BY <1>1, NotInTransit DEF ReportsInv
  <2> QED BY <1>1, <2>1, Basics DEF InService, Conserved
<1>3. /\ envQ'[B] = envQ[B] /\ held' = held
      /\ \A f \in Envelopes \ {e} : msg_type'[f] = msg_type[f]
      /\ msg_type'[e] = type
  BY <1>1 DEF Returns, Relabels
<1>4. Transit \subseteq Envelopes /\ held[A] \subseteq Envelopes
  <2>1. /\ Range(envQ[C]) \subseteq Envelopes /\ Range(envQ[B]) \subseteq Envelopes
        /\ held[C] \subseteq Envelopes /\ held[B] \subseteq Envelopes /\ held[A] \subseteq Envelopes
    BY <1>1, Basics DEF TypeOK
  <2> QED BY <2>1 DEF Transit, ReportsInv, Hands
<1>5. \A f \in Transit \cup held[A] : msg_type'[f] = msg_type[f]
  BY <1>2, <1>3, <1>4
<1>6. CASE sender_pid[e] # C
  <2>1. envQ'[C] = envQ[C]
    BY <1>1, <1>6 DEF Returns
  <2> QED BY <1>3, <1>5, <2>1, ReportsKept DEF programs
<1>7. CASE sender_pid[e] = C
  <2>1. envQ'[C] = Append(envQ[C], e)
    BY <1>7 DEF Returns
  <2>2. Hands'
    BY <1>3, <1>5 DEF ReportsInv, Hands, IsReport, programs
  <2>3. PICK x1, x2, x3 \in Counts :
          /\ Run(msgQueue, msg_type, data, awaited, x1)
          /\ Run(envQ[C], msg_type, data, x1, x2)
          /\ IF pc[B] = "forward" THEN Carries(env[B], msg_type, data, x2, x3) ELSE x3 = x2
          /\ Run(envQ[B], msg_type, data, x3, num_count)
    BY DEF ReportsInv, Chain
  <2>4. envQ[B] \in Seq(Envelopes) /\ msgQueue \in Seq(Envelopes)
    BY <1>1 DEF TypeOK, AppTypes
  <2>5. /\ Run(msgQueue', msg_type', data', awaited', x1)
        /\ Run(envQ[C], msg_type', data', x1, x2)
        /\ Run(envQ'[B], msg_type', data', x3, num_count')
    BY <1>1, <1>3, <1>5, <2>3, <2>4, RunKept DEF Transit, programs
  <2>6. Carries(e, msg_type', data', x2, x2)
    BY <1>3 DEF Carries
  <2>7. Run(envQ'[C], msg_type', data', x1, x2)
    BY <1>1, <2>1, <2>5, <2>6, RunAppends
  <2>8. IF pc'[B] = "forward" THEN Carries(env'[B], msg_type', data', x2, x3) ELSE x3 = x2
    <3>1. CASE pc[B] = "forward"
      <4>1. env[B] \in Transit
        BY <3>1 DEF Transit
      <4> QED BY <1>5, <2>3, <3>1, <4>1 DEF Carries, programs
    <3> QED BY <2>3, <3>1 DEF programs
  <2> QED BY <2>2, <2>5, <2>7, <2>8 DEF ReportsInv, Chain
<1> QED BY <1>6, <1>7

(* Process A. *)
LEMMA AKeepsReports ==
  ASSUME KernelInv, AppTypes, ReportsInv, procA
  PROVE  ReportsInv'
<1> USE Names, Programs
<1>1. /\ current = A /\ {A, B, C} \subseteq UserProcs /\ {A, B, C} \subseteq EnvQueues
      /\ UNCHANGED <<msgQueue, awaited>> /\ TypeOK /\ Transit \cap held[A] = {}
      /\ \A r \in {B, C} : pc'[r] = pc[r] /\ env'[r] = env[r]
  BY Basics, NotInTransit DEF procA, A_Start, A_Report, At, Goto, Assign, AppTypes, ReportsInv
<1>2. ASSUME envQ'[B] = envQ[B], envQ'[C] = envQ[C], UNCHANGED num_count,
             \A r \in {B, C} : held'[r] = held[r],
             \A e \in Transit : msg_type'[e] = msg_type[e] /\ data'[e] = data[e],
             pc'[A] = "send" => env'[A] \in held'[A] /\ IsReport(env[A])' /\ data'[env'[A]] = num_count
      PROVE  ReportsInv'
  <2>1. Chain'
    BY <1>1, <1>2, ChainKept DEF ReportsInv
  <2>2. Hands'
    BY <1>1, <1>2 DEF ReportsInv, Hands
  <2> QED BY <2>1, <2>2 DEF ReportsInv
<1>3. ASSUME NEW q \in {FREE_ENV_QUEUE, A}, NEW e, Takes(q, e), UNCHANGED <<num_count, data>>,
             pc'[A] # "send"
      PROVE  ReportsInv'
  BY <1>1, <1>2, <1>3 DEF Takes, OthersHold
<1>4. CASE A_Start
  <2>1. CASE At(A, "receive_start") /\ ReceiveMessage /\ UNCHANGED <<num_count, data>>
             /\ Goto(A, "release_start")
    BY <1>1, <1>3, <2>1, Kinds DEF Goto, AppTypes
  <2>2. CASE ReleaseMsgEnv(env[A]) /\ Goto(A, "request") /\ UNCHANGED <<num_count, data>>
    <3>1. Gives(FREE_ENV_QUEUE, env[A]) /\ msg_type' = msg_type
      BY <2>2, ReleaseGives
    <3>2. pc'[A] # "send"
      BY <2>2 DEF Goto, AppTypes
    <3> QED BY <1>1, <1>2, <2>2, <3>1, <3>2 DEF Gives, OthersHold
  <2> QED BY <1>4, <2>1, <2>2 DEF A_Start
<1>5. CASE At(A, "request") /\ RequestMsgEnv /\ Goto(A, "fill") /\ UNCHANGED <<num_count, data>>
  BY <1>1, <1>3, <1>5, Kinds DEF Goto, AppTypes
<1>6. CASE /\ SetType(env[A]) /\ data' = [data EXCEPT ![env[A]] = num_count]
           /\ UNCHANGED <<env, num_count>>
  <2>1. /\ env[A] \in held[A] /\ env[A] \in Envelopes
        /\ msg_type' = [msg_type EXCEPT ![env[A]] = "COUNT_REPORT"]
        /\ UNCHANGED <<envQ, held>>
    BY <1>1, <1>6 DEF SetType, TypeOK
  <2>2. IsReport(env[A])' /\ data'[env'[A]] = num_count
    BY <1>1, <1>6, <2>1 DEF IsReport, TypeOK, AppTypes
  <2>3. \A e \in Transit : msg_type'[e] = msg_type[e] /\ data'[e] = data[e]
    BY <1>1, <1>6, <2>1 DEF TypeOK, AppTypes
  <2> QED BY <1>1, <1>2, <1>6, <2>1, <2>2, <2>3
<1>7. CASE At(A, "send") /\ SendMessage(B, env[A]) /\ num_count' = NextCount(num_count)
             /\ Goto(A, "yield") /\ UNCHANGED data
  <2>1. /\ Gives(B, env[A]) /\ msg_type' = msg_type
        /\ env[A] \in Envelopes /\ envQ'[B] = Append(envQ[B], env[A]) /\ envQ'[C] = envQ[C]
        /\ \A r \in {B, C} : held'[r] = held[r]
    BY <1>1, <1>7, SendMessageGives DEF Gives, OthersHold
  <2>2. Hands'
    BY <1>1, <1>7, <2>1 DEF ReportsInv, Hands, Goto, AppTypes
  <2>3. Carries(env[A], msg_type, data, num_count, num_count')
    BY <1>7 DEF Carries, ReportsInv, Hands, At, IsReport
  <2>4. num_count' \in Counts /\ envQ[B] \in Seq(Envelopes)
    BY <1>1, <1>7, CountsClosed DEF AppTypes, TypeOK
  <2>5. PICK x1, x2, x3 \in Counts :
          /\ Run(msgQueue, msg_type, data, awaited, x1)
          /\ Run(envQ[C], msg_type, data, x1, x2)
          /\ IF pc[B] = "forward" THEN Carries(env[B], msg_type, data, x2, x3) ELSE x3 = x2
          /\ Run(envQ[B], msg_type, data, x3, num_count)
    BY DEF ReportsInv, Chain
  <2>6. Run(envQ'[B], msg_type, data, x3, num_count')
    BY <2>1, <2>3, <2>4, <2>5, RunAppends
  <2>7. Chain'
    BY <1>1, <1>7, <2>1, <2>5, <2>6 DEF Chain
  <2> QED BY <2>2, <2>7 DEF ReportsInv
<1>8. CASE ReleaseProcessor /\ Goto(A, "request") /\ UNCHANGED <<env, num_count, data>>
  <2>1. Switches("READY")
    BY <1>8, Kinds
  <2>2. pc'[A] # "send"
    BY <1>8 DEF Goto, AppTypes
  <2> QED BY <1>2, <1>8, <2>1, <2>2 DEF Switches
<1> QED BY <1>4, <1>5, <1>6, <1>7, <1>8 DEF procA, A_Report

(* Process B. *)
LEMMA BKeepsReports ==
  ASSUME KernelInv, AppTypes, ReportsInv, procB
  PROVE  ReportsInv'
<1> USE Names, Programs
<1>1. /\ current = B /\ {A, B, C} \subseteq UserProcs /\ {A, B, C} \subseteq EnvQueues
      /\ UNCHANGED <<msgQueue, awaited, data, num_count>> /\ TypeOK
      /\ \A r \in {A, C} : pc'[r] = pc[r] /\ env'[r] = env[r]
      /\ envQ[B] \in Seq(Envelopes) /\ envQ[C] \in Seq(Envelopes)
  BY Basics DEF procB, At, Goto, Assign, AppTypes, TypeOK
<1>2. PICK x1, x2, x3 \in Counts :
        /\ Run(msgQueue, msg_type, data, awaited, x1)
        /\ Run(envQ[C], msg_type, data, x1, x2)
        /\ IF pc[B] = "forward" THEN Carries(env[B], msg_type, data, x2, x3) ELSE x3 = x2
        /\ Run(envQ[B], msg_type, data, x3, num_count)
  BY DEF ReportsInv, Chain
<1>3. ASSUME msg_type' = msg_type, held'[A] = held[A], held'[C] = held[C],
             pc'[B] = "forward" => env'[B] \in held'[B]
      PROVE  Hands'
  BY <1>1, <1>3 DEF ReportsInv, Hands, IsReport
<1>4. CASE At(B, "receive") /\ ReceiveMessage /\ Assign(B, Mail(B)) /\ Goto(B, "forward")
  <2>1. /\ Takes(B, Mail(B)) /\ msg_type' = msg_type /\ envQ[B] # <<>> /\ Mail(B) = Head(envQ[B])
        /\ envQ'[B] = Tail(envQ[B]) /\ envQ'[C] = envQ[C] /\ Mail(B) \in held'[B]
        /\ held'[A] = held[A] /\ held'[C] = held[C]
    BY <1>1, <1>4, Kinds DEF Takes, OthersHold, Mail
  <2>2. pc[B] # "forward" /\ pc'[B] = "forward" /\ env'[B] = Mail(B)
    BY <1>4 DEF At, Goto, Assign, AppTypes
  <2>3. PICK y \in Counts : /\ Carries(Head(envQ[B]), msg_type, data, x3, y)
                            /\ Run(Tail(envQ[B]), msg_type, data, y, num_count)
    BY <1>1, <1>2, <2>1, RunLosesFirst
  <2>4. Carries(env'[B], msg_type', data', x2, y)
    BY <1>1, <1>2, <2>1, <2>2, <2>3
  <2>5. Chain'
    BY <1>1, <1>2, <2>1, <2>2, <2>3, <2>4 DEF Chain
  <2> QED BY <1>3, <2>1, <2>2, <2>5 DEF ReportsInv
<1>5. CASE At(B, "forward") /\ SendMessage(C, env[B]) /\ Assign(B, NoEnv) /\ Goto(B, "yield")
  <2>1. /\ Gives(C, env[B]) /\ msg_type' = msg_type /\ env[B] \in Envelopes
        /\ envQ'[C] = Append(envQ[C], env[B]) /\ envQ'[B] = envQ[B]
        /\ held'[A] = held[A] /\ held'[C] = held[C]
    BY <1>1, <1>5, SendMessageGives DEF Gives, OthersHold
  <2>2. pc[B] = "forward" /\ pc'[B] # "forward"
    BY <1>5 DEF At, Goto, AppTypes
  <2>3. Run(envQ'[C], msg_type, data, x1, x3)
    BY <1>1, <1>2, <2>1, <2>2, RunAppends
  <2>4. Chain'
    BY <1>1, <1>2, <2>1, <2>2, <2>3 DEF Chain
  <2> QED BY <1>3, <2>1, <2>2, <2>4 DEF ReportsInv
<1>6. CASE At(B, "yield") /\ ReleaseProcessor /\ Goto(B, "receive") /\ UNCHANGED env
  <2>1. Switches("READY")
    BY <1>6, Kinds
  <2>2. pc[B] # "forward" /\ pc'[B] # "forward"
    BY <1>6 DEF At, Goto, AppTypes
  <2>3. Chain'
    BY <1>1, <2>1, <2>2, ChainKept DEF ReportsInv, Switches
  <2> QED BY <1>3, <2>1, <2>2, <2>3 DEF ReportsInv, Switches
<1> QED BY <1>4, <1>5, <1>6 DEF procB

(* Process C. *)
LEMMA CKeepsReports ==
  ASSUME KernelInv, AppTypes, ReportsInv, procC
  PROVE  ReportsInv'
<1> USE Names, Programs
<1>1. /\ current = C /\ {A, B, C} \subseteq UserProcs /\ {A, B, C} \subseteq EnvQueues
      /\ num_count' = num_count /\ TypeOK /\ Conserved(envQ, held, timing)
      /\ \A r \in {A, B} : pc'[r] = pc[r] /\ env'[r] = env[r]
      /\ envQ[B] \in Seq(Envelopes) /\ envQ[C] \in Seq(Envelopes) /\ msgQueue \in Seq(Envelopes)
  BY Basics, SMTT(30)
  DEF procC, C_Receive, C_Print, C_Discard, C_Yield, C_AwaitAck, C_Delay, C_AwaitWakeup,
      C_Release, C_Next, At, Goto, Assign, AppTypes, TypeOK
<1>2. PICK x1, x2, x3 \in Counts :
        /\ Run(msgQueue, msg_type, data, awaited, x1)
        /\ Run(envQ[C], msg_type, data, x1, x2)
        /\ IF pc[B] = "forward" THEN Carries(env[B], msg_type, data, x2, x3) ELSE x3 = x2
        /\ Run(envQ[B], msg_type, data, x3, num_count)
  BY DEF ReportsInv, Chain
<1>3. /\ IsInjective(msgQueue) /\ Range(msgQueue) \subseteq held[C]
      /\ held[A] \cap held[C] = {} /\ held[B] \cap held[C] = {}
      /\ held[A] \subseteq Envelopes /\ held[B] \subseteq Envelopes
  BY <1>1 DEF ReportsInv, Hands, Conserved, TypeOK
<1>4. ASSUME \A r \in {A, B} : held'[r] = held[r],
             \A e \in held[A] : msg_type'[e] = msg_type[e] /\ data'[e] = data[e],
             IsInjective(msgQueue'), Range(msgQueue') \subseteq held'[C],
             pc'[C] \in {"delay", "release"} => env'[C] \notin Range(msgQueue')
      PROVE  Hands'
  BY <1>1, <1>4 DEF ReportsInv, Hands, IsReport

(* C keeps what it receives. *)
<1>5. ASSUME ReceiveMessage, msgQueue' = Append(msgQueue, Mail(C)),
             UNCHANGED <<pc, env, data, awaited>>,
             pc[C] \notin {"delay", "release"}
      PROVE  ReportsInv'
  <2>1. PICK e \in Envelopes : e = Mail(C) /\ Takes(C, e)
    BY <1>1, <1>5, Kinds DEF Takes
  <2>2. /\ e = Head(envQ[C]) /\ envQ[C] # <<>> /\ envQ'[C] = Tail(envQ[C]) /\ envQ'[B] = envQ[B]
        /\ msg_type' = msg_type /\ held'[C] = held[C] \cup {e} /\ held'[A] = held[A]
        /\ held'[B] = held[B]
        /\ e \notin held[C]
    BY <1>1, <2>1 DEF Takes, OthersHold, Conserved
  <2>3. IsInjective(msgQueue') /\ Range(msgQueue') = Range(msgQueue) \cup {e}
    BY <1>1, <1>3, <1>5, <2>1, <2>2, Enqueued
  <2>4. Hands'
    BY <1>3, <1>4, <1>5, <2>2, <2>3
  <2>5. PICK y \in Counts : /\ Carries(e, msg_type, data, x1, y)
                            /\ Run(envQ'[C], msg_type, data, y, x2)
    BY <1>1, <1>2, <2>2, RunLosesFirst
  <2>6. Run(msgQueue', msg_type, data, awaited, y)
    BY <1>1, <1>2, <1>5, <2>1, <2>5, RunAppends
  <2>7. Chain'
    BY <1>1, <1>2, <1>5, <2>2, <2>5, <2>6 DEF Chain
  <2> QED BY <2>4, <2>7 DEF ReportsInv

(* C takes what it waited for. *)
<1>6. ASSUME NEW type, type # "COUNT_REPORT", Receives(C, type), Assign(C, Mail(C)),
             UNCHANGED <<data, msgQueue, awaited>>
      PROVE  ReportsInv'
  <2>1. PICK e \in Envelopes : e = Mail(C) /\ Takes(C, e) /\ msg_type[e] = type
    BY <1>1, <1>6, Kinds DEF Takes, Receives
  <2>2. /\ e = Head(envQ[C]) /\ envQ[C] # <<>> /\ envQ'[C] = Tail(envQ[C]) /\ envQ'[B] = envQ[B]
        /\ msg_type' = msg_type /\ held'[C] = held[C] \cup {e} /\ held'[A] = held[A]
        /\ held'[B] = held[B]
        /\ e \notin held[C]
    BY <1>1, <2>1 DEF Takes, OthersHold, Conserved
  <2>3. env'[C] = e
    BY <1>6, <2>1 DEF Assign, AppTypes
  <2>4. Hands'
    BY <1>3, <1>4, <1>6, <2>2, <2>3
  <2>5. PICK y \in Counts : /\ Carries(e, msg_type, data, x1, y)
                            /\ Run(envQ'[C], msg_type, data, y, x2)
    BY <1>1, <1>2, <2>2, RunLosesFirst
  <2>6. y = x1
    BY <1>6, <2>1, <2>5 DEF Carries
  <2>7. Chain'
    BY <1>1, <1>2, <1>6, <2>2, <2>5, <2>6 DEF Chain
  <2> QED BY <2>4, <2>7 DEF ReportsInv

(* C is done with the first envelope of its local queue. *)
<1>7. ASSUME NEW q, q \notin {B, C}, msgQueue # <<>>, Gives(q, Head(msgQueue)), msg_type' = msg_type,
             data' = [data EXCEPT ![Head(msgQueue)] = NoEnv], msgQueue' = Tail(msgQueue),
             awaited' = IF IsReport(Head(msgQueue)) THEN NextCount(data[Head(msgQueue)]) ELSE awaited,
             pc'[C] \notin {"delay", "release"}
      PROVE  ReportsInv'
  <2>1. PICK e \in Envelopes : e = Head(msgQueue)
    BY <1>1, <1>7
  <2>2. /\ e \in Range(msgQueue) /\ IsInjective(msgQueue')
        /\ Range(msgQueue') = Range(msgQueue) \ {e}
        /\ msgQueue' \in Seq(Envelopes)
    BY <1>1, <1>3, <1>7, <2>1, Dequeued
  <2>3. /\ envQ'[C] = envQ[C] /\ envQ'[B] = envQ[B] /\ held'[C] = held[C] \ {e}
        /\ held'[A] = held[A] /\ held'[B] = held[B]
    BY <1>1, <1>7, <2>1 DEF Gives, OthersHold
  <2>4. \A f \in Envelopes \ {e} : data'[f] = data[f]
    BY <1>7, <2>1 DEF AppTypes
  <2>5. e \notin held[A] /\ e \notin Range(envQ[C]) /\ e \notin Range(envQ[B])
        /\ (pc[B] = "forward" => env[B] # e /\ env[B] \in Envelopes)
    <3>1. held[C] \cap Range(envQ[C]) = {} /\ held[C] \cap Range(envQ[B]) = {}
      BY <1>1 DEF Conserved
    <3>2. pc[B] = "forward" => env[B] \in held[B]
      BY DEF ReportsInv, Hands
    <3> QED BY <1>3, <2>2, <3>1, <3>2
  <2>6. Hands'
    BY <1>3, <1>4, <1>7, <2>2, <2>3, <2>4, <2>5
  <2>7. Run(msgQueue', msg_type, data, awaited', x1)
    <3>1. PICK y \in Counts : /\ Carries(Head(msgQueue), msg_type, data, awaited, y)
                              /\ Run(Tail(msgQueue), msg_type, data, y, x1)
      BY <1>1, <1>2, <1>7, RunLosesFirst
    <3>2. y = awaited'
      BY <1>7, <3>1 DEF Carries, IsReport
    <3> QED BY <1>7, <3>1, <3>2
  <2>8. /\ Range(envQ[C]) \subseteq Envelopes /\ Range(envQ[B]) \subseteq Envelopes
        /\ Range(msgQueue') \subseteq Envelopes
    BY <1>1, <1>3, <2>2, Basics DEF TypeOK
  <2>9. /\ Run(msgQueue', msg_type', data', awaited', x1)
        /\ Run(envQ'[C], msg_type', data', x1, x2)
        /\ Run(envQ'[B], msg_type', data', x3, num_count')
    <3>1. Run(msgQueue', msg_type', data', awaited', x1)
      BY <1>7, <2>2, <2>4, <2>7, <2>8, RunKept
    <3>2. /\ \A f \in Range(envQ[C]) : msg_type'[f] = msg_type[f] /\ data'[f] = data[f]
          /\ \A f \in Range(envQ[B]) : msg_type'[f] = msg_type[f] /\ data'[f] = data[f]
      BY <1>7, <2>4, <2>5, <2>8
    <3>3. Run(envQ[C], msg_type', data', x1, x2)
      BY <1>1, <1>2, <3>2, RunKept
    <3>4. Run(envQ[B], msg_type', data', x3, num_count)
      BY <1>1, <1>2, <3>2, RunKept
    <3> QED BY <1>1, <2>3, <3>1, <3>3, <3>4
  <2>10. IF pc'[B] = "forward" THEN Carries(env'[B], msg_type', data', x2, x3) ELSE x3 = x2
    BY <1>1, <1>2, <1>7, <2>4, <2>5 DEF Carries
  <2>11. Chain'
    BY <2>9, <2>10 DEF Chain
  <2> QED BY <2>6, <2>11 DEF ReportsInv

(* It gives away an envelope that is not in the queue. *)
<1>8. ASSUME NEW q, q \notin {B, C}, pc[C] \in {"delay", "release"}, Gives(q, env[C]),
             UNCHANGED <<data, msgQueue, awaited>>, pc'[C] \notin {"delay", "release"}
      PROVE  ReportsInv'
  <2>1. /\ env[C] \in Envelopes /\ env[C] \in held[C] /\ env[C] \notin Range(msgQueue)
        /\ envQ'[C] = envQ[C] /\ envQ'[B] = envQ[B] /\ held'[C] = held[C] \ {env[C]}
        /\ held'[A] = held[A] /\ held'[B] = held[B]
        /\ \A f \in Envelopes \ {env[C]} : msg_type'[f] = msg_type[f]
    BY <1>1, <1>8 DEF Gives, OthersHold, Relabels, ReportsInv, Hands
  <2>2. Hands'
    BY <1>3, <1>4, <1>8, <2>1
  <2>3. env[C] \notin Transit /\ Transit \subseteq Envelopes
    <3>1. env[C] \notin Transit
      BY <2>1, NotInTransit DEF ReportsInv
    <3>2. /\ Range(envQ[C]) \subseteq Envelopes /\ Range(envQ[B]) \subseteq Envelopes
          /\ held[C] \subseteq Envelopes
      BY <1>1, Basics DEF TypeOK
    <3> QED BY <1>3, <3>1, <3>2 DEF Transit, ReportsInv, Hands
  <2>4. Chain'
    BY <1>1, <1>8, <2>1, <2>3, ChainKept DEF ReportsInv
  <2> QED BY <2>2, <2>4 DEF ReportsInv

<1>9. CASE C_Receive
  BY <1>5, <1>9 DEF C_Receive, At
<1>10. CASE C_Print
  <2>1. Gives(DISPLAYQ, Head(msgQueue)) /\ msg_type' = msg_type
    BY <1>10, DisplayGives DEF C_Print
  <2>2. pc'[C] = "await_ack"
    BY <1>10 DEF C_Print, Goto, AppTypes
  <2> QED BY <1>7, <1>10, <2>1, <2>2 DEF C_Print, Prints
<1>11. CASE C_Discard
  <2>1. Gives(FREE_ENV_QUEUE, Head(msgQueue)) /\ msg_type' = msg_type
    BY <1>11, ReleaseGives DEF C_Discard
  <2>2. pc'[C] \in {"yield", "top"}
    BY <1>11 DEF C_Discard, C_Next, Goto, AppTypes
  <2> QED BY <1>7, <1>11, <2>1, <2>2 DEF C_Discard
<1>12. CASE C_Yield
  <2>1. Switches("READY") /\ UNCHANGED <<env, data, msgQueue, awaited>>
    BY <1>12, Kinds DEF C_Yield
  <2>2. pc'[C] = "top"
    BY <1>12 DEF C_Yield, Goto, AppTypes
  <2>3. Hands'
    BY <1>3, <1>4, <2>1, <2>2 DEF Switches
  <2>4. Chain'
    BY <1>1, <2>1, ChainKept DEF ReportsInv, Switches
  <2> QED BY <2>3, <2>4 DEF ReportsInv
<1>13. CASE C_AwaitAck
  BY <1>5, <1>6, <1>13 DEF C_AwaitAck, At, Receives
<1>14. CASE C_AwaitWakeup
  BY <1>5, <1>6, <1>14 DEF C_AwaitWakeup, At, Receives
<1>15. CASE C_Delay
  <2>1. Gives(TIMER, env[C]) /\ pc[C] = "delay"
    BY <1>15, RequestDelayGives DEF C_Delay, At
  <2>2. pc'[C] = "await_wakeup"
    BY <1>15 DEF C_Delay, Goto, AppTypes
  <2> QED BY <1>1, <1>8, <1>15, <2>1, <2>2 DEF C_Delay
<1>16. CASE C_Release
  <2>1. Gives(FREE_ENV_QUEUE, env[C]) /\ pc[C] = "release"
    BY <1>16, ReleaseGives DEF C_Release, At
  <2>2. pc'[C] \in {"yield", "top"}
    BY <1>16 DEF C_Release, C_Next, Goto, AppTypes
  <2> QED BY <1>1, <1>8, <1>16, <2>1, <2>2 DEF C_Release
<1> QED
  BY <1>9, <1>10, <1>11, <1>12, <1>13, <1>14, <1>15, <1>16 DEF procC

LEMMA ReportsStep ==
  ASSUME KernelInv, KernelInv', AppTypes, Senders, ReportsInv, AppNext
  PROVE  ReportsInv'
<1> USE Names, Programs
<1>1. CASE cci_process
  <2>1. /\ UNCHANGED <<msgQueue, awaited, num_count, data>>
        /\ \A r \in {A, B, C} : pc'[r] = pc[r] /\ env'[r] = env[r]
    BY <1>1 DEF cci_process, CCI_Input, CCI_Silent, CCI_Start, CCI_Prompt, CCI_StartsA,
                CCI_Answer, cci_print, cci_printed, Goto, Assign, AppTypes
  <2>2. {KB, A} \cap {B, C} = {}
    OBVIOUS
  <2> QED BY <1>1, <2>1, <2>2, WorkOfCCI, OthersKeepReports
<1>2. CASE clock_process
  <2>1. /\ UNCHANGED <<msgQueue, awaited, num_count, data>>
        /\ \A r \in {A, B, C} : pc'[r] = pc[r] /\ env'[r] = env[r]
    BY <1>2 DEF clock_process, CLOCK_Start, CLOCK_Acknowledged, CLOCK_Second, CLOCK_Print,
                CLOCK_PrintsAgain, Goto, Assign, AppTypes
  <2>2. {TIMER} \cap {B, C} = {}
    OBVIOUS
  <2> QED BY <1>2, <2>1, <2>2, WorkOfClock, OthersKeepReports
<1>3. CASE UNCHANGED <<programs, envQ, held, msg_type>>
  BY <1>3, ReportsKept DEF programs
<1>4. CASE null_process \/ Suspends
  BY <1>3, <1>4, WorkOfOthers DEF Switches
<1>5. CASE CrtPrints \/ CrtSignals \/ Derailed
  BY <1>3, <1>5 DEF CrtPrints, CrtSignals, Derailed, appVars, vars
<1>6. CASE crt_handler
  BY <1>6, CrtReturns, ReturnKeepsReports DEF crt_handler
<1>7. CASE kbd_handler
  BY <1>7, KbdReturns, ReturnKeepsReports DEF kbd_handler
<1>8. CASE \E p \in {C, CLOCK} : timer_handler(p)
  BY <1>8, TimerReturns, ReturnKeepsReports DEF timer_handler
<1> QED
  BY <1>1, <1>2, <1>4, <1>5, <1>6, <1>7, <1>8, AKeepsReports, BKeepsReports, CKeepsReports
  DEF AppNext

(* Where nothing is added the count stays. *)
LEMMA CountStays ==
  ASSUME NEW n, NEW a \in Nat, NEW b \in Nat, a <= b,
         \A k \in a + 1 .. b : n[k] = n[k - 1]
  PROVE  n[b] = n[a]
<1> DEFINE S == {k \in a .. b : n[k] # n[a]}
<1>1. SUFFICES ASSUME S # {} PROVE FALSE
  OBVIOUS
<1>2. PICK k \in S : \A j \in S : k <= j
  <2>1. S \in SUBSET Nat
    OBVIOUS
  <2> QED BY <1>1, <2>1, LeastElement
<1>3. k \in a + 1 .. b /\ k - 1 \in a .. b /\ ~ (k <= k - 1)
  OBVIOUS
<1>4. n[k - 1] = n[a]
  BY <1>2, <1>3
<1> QED BY <1>2, <1>3, <1>4

(* The chain of places is one run from the count that C awaits to the one that is due. *)
LEMMA UnderWayRuns ==
  ASSUME TypeOK, AppTypes, ReportsInv
  PROVE  /\ UnderWay \in Seq(Envelopes)
         /\ Run(UnderWay, msg_type, data, awaited, Due)
<1> USE Names, Programs
<1>1. /\ envQ[B] \in Seq(Envelopes) /\ envQ[C] \in Seq(Envelopes) /\ msgQueue \in Seq(Envelopes)
      /\ num_count \in Counts /\ <<>> \in Seq(Envelopes)
      /\ pc[B] = "forward" => env[B] \in Envelopes
      /\ pc[A] = "send" => env[A] \in Envelopes
  <2>1. {A, B} \subseteq UserProcs
    OBVIOUS
  <2> QED BY <2>1 DEF TypeOK, AppTypes, ReportsInv, Hands
<1>2. PICK x1, x2, x3 \in Counts :
        /\ Run(msgQueue, msg_type, data, awaited, x1)
        /\ Run(envQ[C], msg_type, data, x1, x2)
        /\ IF pc[B] = "forward" THEN Carries(env[B], msg_type, data, x2, x3) ELSE x3 = x2
        /\ Run(envQ[B], msg_type, data, x3, num_count)
  BY DEF ReportsInv, Chain
<1>3. AboutTo(B, "forward") \in Seq(Envelopes) /\ Run(AboutTo(B, "forward"), msg_type, data, x2, x3)
  <2>1. CASE pc[B] = "forward"
    <3>1. AboutTo(B, "forward") = <<env[B]>> /\ <<env[B]>> \in Seq(Envelopes)
      BY <1>1, <2>1 DEF AboutTo
    <3>2. Run(<<env[B]>>, msg_type, data, x2, x3)
      BY <1>1, <1>2, <2>1, RunOfOne
    <3> QED BY <3>1, <3>2
  <2>2. CASE pc[B] # "forward"
    <3>1. AboutTo(B, "forward") = <<>> /\ x3 = x2
      BY <1>2, <2>2 DEF AboutTo
    <3>2. Run(<<>>, msg_type, data, x2, x2)
      BY RunOfNone
    <3> QED BY <1>1, <3>1, <3>2
  <2> QED BY <2>1, <2>2
<1>4. /\ AboutTo(A, "send") \in Seq(Envelopes)
      /\ Run(AboutTo(A, "send"), msg_type, data, num_count, Due)
  <2>1. CASE pc[A] = "send"
    <3>1. /\ AboutTo(A, "send") = <<env[A]>> /\ <<env[A]>> \in Seq(Envelopes)
          /\ Due = NextCount(num_count)
      BY <1>1, <2>1 DEF AboutTo, Due
    <3>2. Carries(env[A], msg_type, data, num_count, Due) /\ Due \in Counts
      BY <1>1, <2>1, <3>1, CountsClosed DEF ReportsInv, Hands, Carries, IsReport
    <3>3. Run(<<env[A]>>, msg_type, data, num_count, Due)
      BY <1>1, <2>1, <3>2, RunOfOne
    <3> QED BY <3>1, <3>3
  <2>2. CASE pc[A] # "send"
    <3>1. AboutTo(A, "send") = <<>> /\ Due = num_count
      BY <2>2 DEF AboutTo, Due
    <3>2. Run(<<>>, msg_type, data, num_count, num_count)
      BY <1>1, RunOfNone
    <3> QED BY <1>1, <3>1, <3>2
  <2> QED BY <2>1, <2>2
<1> DEFINE q1 == msgQueue \o envQ[C]
           q2 == q1 \o AboutTo(B, "forward")
           q3 == q2 \o envQ[B]
<1>5. q1 \in Seq(Envelopes) /\ Run(q1, msg_type, data, awaited, x2)
  BY <1>1, <1>2, RunJoins
<1> HIDE DEF q1
<1>6. q2 \in Seq(Envelopes) /\ Run(q2, msg_type, data, awaited, x3)
  BY <1>3, <1>5, RunJoins
<1> HIDE DEF q2
<1>7. q3 \in Seq(Envelopes) /\ Run(q3, msg_type, data, awaited, num_count)
  BY <1>1, <1>2, <1>6, RunJoins
<1> HIDE DEF q3
<1>8. /\ q3 \o AboutTo(A, "send") \in Seq(Envelopes)
      /\ Run(q3 \o AboutTo(A, "send"), msg_type, data, awaited, Due)
  BY <1>1, <1>4, <1>7, RunJoins
<1>9. UnderWay = q3 \o AboutTo(A, "send")
  BY DEF UnderWay, q1, q2, q3
<1> QED BY <1>8, <1>9

LEMMA ChainIsOrder ==
  ASSUME TypeOK, AppTypes, ReportsInv
  PROVE  ReportsInOrder
<1> DEFINE q == UnderWay
           Reports == {i \in DOMAIN q : IsReport(q[i])}
<1>1. q \in Seq(Envelopes) /\ Run(q, msg_type, data, awaited, Due)
  BY UnderWayRuns
<1> HIDE DEF q
<1>2. PICK n \in [0 .. Len(q) -> Counts] :
        /\ n[0] = awaited /\ n[Len(q)] = Due
        /\ \A i \in 1 .. Len(q) : Carries(q[i], msg_type, data, n[i - 1], n[i])
  BY <1>1 DEF Run
<1>3. /\ DOMAIN q = 1 .. Len(q) /\ Len(q) \in Nat
      /\ \A k \in 1 .. Len(q) : k \notin Reports => ~ IsReport(q[k])
  BY <1>1
<1>4. ASSUME NEW a \in 0 .. Len(q), NEW b \in 0 .. Len(q), a <= b,
             \A k \in a + 1 .. b : k \notin Reports
      PROVE  n[b] = n[a]
  <2>1. a \in Nat /\ b \in Nat /\ \A k \in a + 1 .. b : k \in 1 .. Len(q)
    BY <1>3
  <2>2. \A k \in a + 1 .. b : n[k] = n[k - 1]
    BY <1>2, <1>3, <1>4, <2>1 DEF Carries, IsReport
  <2> QED BY <1>4, <2>1, <2>2, CountStays
<1>5. \A i \in Reports : /\ i \in 1 .. Len(q) /\ i \in 0 .. Len(q) /\ i - 1 \in 0 .. Len(q)
                          /\ i <= Len(q) /\ data[q[i]] = n[i - 1] /\ NextCount(data[q[i]]) = n[i]
  <2>1. \A i \in Reports : i \in 1 .. Len(q) /\ IsReport(q[i])
    BY <1>3
  <2>2. \A i \in 1 .. Len(q) : i \in 0 .. Len(q) /\ i - 1 \in 0 .. Len(q) /\ i <= Len(q)
    BY <1>3
  <2> QED BY <1>2, <2>1, <2>2 DEF Carries, IsReport
<1>6. 0 \in 0 .. Len(q) /\ Len(q) \in 0 .. Len(q) /\ 0 <= Len(q)
  BY <1>3
<1>7. Reports = {} => awaited = Due
  BY <1>2, <1>4, <1>6
<1>8. ASSUME NEW i \in Reports, \A j \in Reports : i <= j PROVE data[q[i]] = awaited
  <2>1. \A k \in 0 + 1 .. i - 1 : ~ (i <= k)
    BY <1>5
  <2>2. 0 <= i - 1
    BY <1>5
  <2>3. n[i - 1] = n[0]
    BY <1>4, <1>5, <1>6, <1>8, <2>1, <2>2
  <2> QED BY <1>2, <1>5, <2>3
<1>9. ASSUME NEW i \in Reports, \A j \in Reports : j <= i PROVE NextCount(data[q[i]]) = Due
  <2>1. \A k \in i + 1 .. Len(q) : ~ (k <= i)
    BY <1>3, <1>5
  <2>2. n[Len(q)] = n[i]
    BY <1>4, <1>5, <1>6, <1>9, <2>1
  <2> QED BY <1>2, <1>5, <2>2
<1>10. ASSUME NEW i \in Reports, NEW j \in Reports, j > i, \A k \in Reports : k <= i \/ j <= k
       PROVE  data[q[j]] = NextCount(data[q[i]])
  <2>1. \A k \in i + 1 .. j - 1 : ~ (k <= i) /\ ~ (j <= k)
    BY <1>5
  <2>2. i <= j - 1
    BY <1>5, <1>10
  <2>3. n[j - 1] = n[i]
    BY <1>4, <1>5, <1>10, <2>1, <2>2
  <2> QED BY <1>5, <2>3
<1> QED BY <1>7, <1>8, <1>9, <1>10 DEF ReportsInOrder, q

-----------------------------------------------------------------------------
(* The delays. *)

(* A step after which no delay of C is new but those of the set, and each is a client's that may
   ask for one. *)
DelaysStand(new) ==
  /\ CTimers' \subseteq CTimers \cup new
  /\ \A e \in Delays' : sender_pid'[e] \in {C, CLOCK}
  /\ \A e \in Range(envQ'[B]) : msg_type'[e] = "COUNT_REPORT"
  /\ current # B => \A f \in held[B] : msg_type'[f] = msg_type[f]

LEMMA DelaysTaken ==
  ASSUME KernelInv, DelayInv, NEW q \in {FREE_ENV_QUEUE, current}, NEW e, Takes(q, e)
  PROVE  DelaysStand({}) /\ e \notin CTimers'
<1> USE Names, Programs
<1>1. /\ current \in UserProcs /\ Conserved(envQ, held, timing) /\ timing \subseteq Envelopes
      /\ \A r \in EnvQueues : Range(envQ[r]) \subseteq Envelopes
      /\ {B, C, TIMER, FREE_ENV_QUEUE, current} \subseteq EnvQueues
      /\ current \in Clients /\ q # TIMER
  BY Basics DEF TypeOK, Takes
<1>2. e \notin Range(envQ[TIMER]) /\ e \notin timing
  <2>1. q \in EnvQueues /\ e \in Range(envQ[q])
    BY <1>1 DEF Takes
  <2>2. Range(envQ[q]) \cap Range(envQ[TIMER]) = {} /\ Range(envQ[q]) \cap timing = {}
    BY <1>1, <2>1 DEF Conserved
  <2> QED BY <2>1, <2>2
<1>3. /\ envQ'[TIMER] = envQ[TIMER] /\ timing' = timing /\ msg_type' = msg_type
      /\ \A f \in Delays : sender_pid'[f] = sender_pid[f]
  BY <1>1, <1>2 DEF Takes, Relabels, Delays
<1>4. CWaits' = CWaits /\ e \notin CWaits
  BY <1>2, <1>3 DEF CWaits, Delays
<1>5. /\ Range(envQ'[B]) \subseteq Range(envQ[B]) /\ Range(envQ'[C]) \subseteq Range(envQ[C])
      /\ e \notin Range(envQ'[C])
  <2>1. ASSUME NEW r \in EnvQueues
        PROVE  Range(envQ'[r]) \subseteq Range(envQ[r]) /\ e \notin Range(envQ'[r])
    <3>1. CASE r = q
      BY <3>1 DEF Takes
    <3>2. CASE r # q
      <4>1. q \in EnvQueues /\ e \in Range(envQ[q]) /\ envQ'[r] = envQ[r]
        BY <1>1, <3>2 DEF Takes
      <4>2. Range(envQ[q]) \cap Range(envQ[r]) = {}
        BY <1>1, <3>2, <4>1 DEF Conserved
      <4> QED BY <4>1, <4>2
    <3> QED BY <3>1, <3>2
  <2> QED BY <1>1, <2>1
<1>6. CWakeups' \subseteq CWakeups /\ e \notin CWakeups'
  BY <1>3, <1>5 DEF CWakeups
<1>7. \A f \in Delays' : sender_pid'[f] \in {C, CLOCK}
  BY <1>3 DEF Delays, DelayInv
<1> QED BY <1>3, <1>4, <1>5, <1>6, <1>7 DEF DelaysStand, CTimers, DelayInv, IsReport

LEMMA DelaysGiven ==
  ASSUME KernelInv, DelayInv, NEW q \in EnvQueues, NEW e, Gives(q, e),
         q = TIMER => current \in {C, CLOCK},
         q \in {B, C} => msg_type'[e] = "COUNT_REPORT"
  PROVE  DelaysStand(IF q = TIMER /\ current = C THEN {e} ELSE {})
<1> USE Names, Programs
<1>1. /\ current \in UserProcs /\ Conserved(envQ, held, timing) /\ timing \subseteq Envelopes
      /\ \A r \in EnvQueues : Range(envQ[r]) \subseteq Envelopes
      /\ {B, C, TIMER} \subseteq EnvQueues /\ current \in Clients
      /\ e \in Envelopes /\ e \in held[current] /\ held[B] \subseteq Envelopes
  BY Basics DEF TypeOK, Gives
<1>2. (\A r \in EnvQueues : e \notin Range(envQ[r])) /\ e \notin timing
  BY <1>1 DEF Conserved
<1>3. /\ \A r \in EnvQueues \ {q} : envQ'[r] = envQ[r]
      /\ Range(envQ'[q]) = Range(envQ[q]) \cup {e} /\ timing' = timing
      /\ \A f \in Envelopes \ {e} : sender_pid'[f] = sender_pid[f] /\ msg_type'[f] = msg_type[f]
      /\ q = TIMER => sender_pid'[e] = current
  BY DEF Gives, Relabels
<1>4. Delays' = Delays \cup (IF q = TIMER THEN {e} ELSE {})
  BY <1>1, <1>3 DEF Delays
<1>5. \A f \in Delays : sender_pid'[f] = sender_pid[f]
  BY <1>1, <1>2, <1>3 DEF Delays
<1>6. \A f \in Delays' : sender_pid'[f] \in {C, CLOCK}
  BY <1>3, <1>4, <1>5 DEF DelayInv
<1>7. CWaits' \subseteq CWaits \cup (IF q = TIMER /\ current = C THEN {e} ELSE {})
  BY <1>3, <1>4, <1>5 DEF CWaits
<1>8. \A r \in {B, C} : \A f \in Range(envQ'[r]) :
        msg_type'[f] = "COUNT_REPORT" \/ (f \in Range(envQ[r]) /\ msg_type'[f] = msg_type[f])
  <2>1. ASSUME NEW r \in {B, C}, NEW f \in Range(envQ'[r])
        PROVE  msg_type'[f] = "COUNT_REPORT" \/ (f \in Range(envQ[r]) /\ msg_type'[f] = msg_type[f])
    <3>1. f \in Range(envQ[r]) \/ (q = r /\ f = e)
      BY <1>1, <1>3, <2>1
    <3>2. CASE f \in Range(envQ[r])
      BY <1>1, <1>2, <1>3, <3>2
    <3>3. CASE q = r /\ f = e
      BY <3>3
    <3> QED BY <3>1, <3>2, <3>3
  <2> QED BY <2>1
<1>9. CWakeups' \subseteq CWakeups
  BY <1>8 DEF CWakeups
<1>10. \A f \in Range(envQ'[B]) : msg_type'[f] = "COUNT_REPORT"
  BY <1>8 DEF DelayInv, IsReport
<1>11. current # B => \A f \in held[B] : msg_type'[f] = msg_type[f]
  <2>1. current # B => e \notin held[B]
    BY <1>1 DEF Conserved
  <2> QED BY <1>1, <1>3, <2>1
<1> QED BY <1>6, <1>7, <1>9, <1>10, <1>11 DEF DelaysStand, CTimers

LEMMA DelaysUntouched ==
  ASSUME KernelInv, DelayInv, UNCHANGED <<envQ, timing, sender_pid>>,
         msg_type' = msg_type \/ \E e : Marks(e)
  PROVE  DelaysStand({})
<1> USE Names, Programs
<1>1. /\ current \in UserProcs /\ Conserved(envQ, held, timing)
      /\ \A r \in EnvQueues : Range(envQ[r]) \subseteq Envelopes
      /\ {B, C} \subseteq EnvQueues /\ held[B] \subseteq Envelopes
  BY Basics DEF TypeOK
<1>2. /\ \A r \in {B, C} : \A f \in Range(envQ[r]) : msg_type'[f] = msg_type[f]
      /\ current # B => \A f \in held[B] : msg_type'[f] = msg_type[f]
  <2>1. ASSUME NEW e, Marks(e)
        PROVE  /\ \A r \in {B, C} : \A f \in Range(envQ[r]) : msg_type'[f] = msg_type[f]
               /\ current # B => \A f \in held[B] : msg_type'[f] = msg_type[f]
    <3>1. /\ \A r \in {B, C} : e \notin Range(envQ[r])
          /\ current # B => e \notin held[B]
      BY <1>1, <2>1 DEF Marks, Conserved
    <3> QED BY <1>1, <2>1, <3>1 DEF Marks, Relabels
  <2> QED BY <2>1
<1> QED BY <1>2 DEF DelaysStand, CTimers, CWaits, CWakeups, Delays, DelayInv, IsReport

(* A handler returns no envelope to B, and to C the one it was waiting with. *)
LEMMA DelaysReturned ==
  ASSUME KernelInv, DelayInv, Senders, NEW e, NEW type, Returns(e, type),
         type = "WAKEUP10" => e \in Delays, Delays' \subseteq Delays
  PROVE  DelaysStand({}) /\ \A f \in held[B] : msg_type'[f] = msg_type[f]
<1> USE Names, Programs
<1>1. /\ Conserved(envQ, held, timing) /\ InService \subseteq Envelopes
      /\ \A r \in EnvQueues : Range(envQ[r]) \subseteq Envelopes
      /\ {B, C, DISPLAYQ, KB, TIMER} \subseteq EnvQueues /\ held[B] \subseteq Envelopes
      /\ sender_pid[e] \in Clients /\ sender_pid[e] # B /\ e \in InService
  BY Basics DEF TypeOK, InService, Returns, Senders
<1>2. e \notin Range(envQ[B]) /\ e \notin Range(envQ[C]) /\ e \notin held[B]
  BY <1>1 DEF InService, Conserved
<1>3. \A f \in Delays' : f \in Delays /\ f # e /\ f \in Envelopes
  BY <1>1 DEF Returns, InService, Delays
<1>4. \A f \in Delays' : f \in Delays /\ sender_pid'[f] = sender_pid[f]
  BY <1>3 DEF Returns, Relabels
<1>5. CWaits' \subseteq CWaits
  BY <1>4 DEF CWaits
<1>6. envQ'[B] = envQ[B]
  BY <1>1 DEF Returns
<1>7. \A f \in Range(envQ'[B]) \cup held[B] : msg_type'[f] = msg_type[f]
  BY <1>1, <1>2, <1>6 DEF Returns, Relabels
<1>8. CWakeups' \subseteq CTimers
  <2>1. CASE sender_pid[e] = C
    <3>1. Range(envQ'[C]) = Range(envQ[C]) \cup {e} /\ msg_type'[e] = type
      BY <2>1 DEF Returns
    <3>2. \A f \in Range(envQ[C]) : msg_type'[f] = msg_type[f]
      BY <1>1, <1>2 DEF Returns, Relabels
    <3>3. type = "WAKEUP10" => e \in CWaits
      BY <2>1 DEF CWaits
    <3> QED BY <3>1, <3>2, <3>3 DEF CWakeups, CTimers
  <2>2. CASE sender_pid[e] # C
    <3>1. envQ'[C] = envQ[C]
      BY <1>1, <2>2 DEF Returns
    <3> QED BY <1>1, <1>2, <3>1 DEF Returns, Relabels, CWakeups, CTimers
  <2> QED BY <2>1, <2>2
<1>9. \A f \in Delays' : sender_pid'[f] \in {C, CLOCK}
  BY <1>4 DEF DelayInv
<1> QED BY <1>5, <1>6, <1>7, <1>8, <1>9 DEF DelaysStand, CTimers, DelayInv, IsReport

LEMMA WorkLeavesDelays ==
  ASSUME KernelInv, DelayInv, NEW p \in Clients, NEW to \in SUBSET EnvQueues,
         TIMER \in to => p = CLOCK, to \cap {B, C} = {},
         Works(p, {FREE_ENV_QUEUE, p}, to) \/ Works(p, {p}, to) \/ Shows(p)
  PROVE  DelaysStand({})
<1> USE Names, Programs
<1>1. current = p
  BY DEF Works, Shows
<1>2. ASSUME NEW q \in to, NEW e, Gives(q, e) PROVE DelaysStand({})
  <2>1. q = TIMER => current = CLOCK /\ current # C
    BY <1>1, <1>2
  <2>2. q \notin {B, C} /\ q \in EnvQueues
    BY <1>2
  <2> QED BY <1>2, <2>1, <2>2, DelaysGiven
<1>3. CASE Shows(p)
  <2>1. DISPLAYQ \in EnvQueues /\ DISPLAYQ \notin {B, C, TIMER}
    OBVIOUS
  <2> QED BY <1>3, <2>1, DelaysGiven DEF Shows
<1>4. ASSUME NEW q \in {FREE_ENV_QUEUE, p}, NEW e, Takes(q, e) PROVE DelaysStand({})
  BY <1>1, <1>4, DelaysTaken
<1>5. (UNCHANGED vars \/ Switches("READY") \/ \E e : Marks(e)) => DelaysStand({})
  BY DelaysUntouched DEF vars, Switches, Marks
<1> QED BY <1>2, <1>3, <1>4, <1>5 DEF Works

(* Steps of the others, that leave the programs of B and C where they are. *)
LEMMA DelaysKept ==
  ASSUME DelayInv, Hands, DelaysStand({}),
         current = B => \A f \in held[B] : msg_type'[f] = msg_type[f],
         pc'[C] = pc[C], pc'[B] = pc[B], env'[B] = env[B]
  PROVE  DelayInv'
<1>1. \A f \in held[B] : msg_type'[f] = msg_type[f]
  BY DEF DelaysStand
<1>2. pc'[B] = "forward" => msg_type'[env'[B]] = "COUNT_REPORT"
  BY <1>1 DEF DelayInv, Hands, IsReport
<1> QED BY <1>2 DEF DelayInv, DelaysStand, IsReport

LEMMA AKeepsDelays ==
  ASSUME KernelInv, DelayInv, Hands, AppTypes, procA
  PROVE  DelayInv'
<1> USE Names, Programs
<1>1. current = A /\ pc'[C] = pc[C] /\ pc'[B] = pc[B] /\ env'[B] = env[B]
  BY DEF procA, A_Start, A_Report, Goto, Assign, AppTypes
<1>2. CASE At(A, "send") /\ SendMessage(B, env[A])
  <2>1. Gives(B, env[A]) /\ msg_type' = msg_type /\ IsReport(env[A])
    BY <1>2, SendMessageGives DEF At, Hands
  <2>2. B # TIMER /\ B \in EnvQueues
    OBVIOUS
  <2>3. DelaysStand({})
    BY <2>1, <2>2, DelaysGiven DEF IsReport
  <2> QED BY <1>1, <2>3, DelaysKept
<1>3. CASE ~ (At(A, "send") /\ SendMessage(B, env[A]))
  <2>1. A_Start => Works(A, {FREE_ENV_QUEUE, A}, {FREE_ENV_QUEUE})
    BY <1>1, Kinds DEF procA, A_Start, Works, Quiet
  <2>2. A_Report => Works(A, {FREE_ENV_QUEUE, A}, {FREE_ENV_QUEUE})
    BY <1>1, <1>3, Kinds DEF procA, A_Report, Works, Quiet
  <2>3. {FREE_ENV_QUEUE} \in SUBSET EnvQueues /\ TIMER \notin {FREE_ENV_QUEUE}
        /\ {FREE_ENV_QUEUE} \cap {B, C} = {}
    OBVIOUS
  <2>4. DelaysStand({})
    BY <2>1, <2>2, <2>3, WorkLeavesDelays DEF procA
  <2> QED BY <1>1, <2>4, DelaysKept
<1> QED BY <1>2, <1>3

LEMMA BKeepsDelays ==
  ASSUME KernelInv, DelayInv, Hands, AppTypes, procB
  PROVE  DelayInv'
<1> USE Names, Programs
<1>1. current = B /\ pc'[C] = pc[C]
  BY DEF procB, Goto, AppTypes
<1>2. CASE At(B, "receive") /\ ReceiveMessage /\ Assign(B, Mail(B)) /\ Goto(B, "forward")
  <2>1. PICK e : e = Mail(B) /\ Takes(B, e)
    BY <1>1, <1>2, Kinds
  <2>2. DelaysStand({}) /\ msg_type' = msg_type /\ e \in Range(envQ[B])
    BY <1>1, <2>1, DelaysTaken DEF Takes
  <2>3. env'[B] = e /\ msg_type'[e] = "COUNT_REPORT"
    BY <1>2, <2>1, <2>2 DEF Assign, AppTypes, DelayInv, IsReport
  <2> QED BY <1>1, <2>2, <2>3 DEF DelaysStand, DelayInv, IsReport
<1>3. CASE At(B, "forward") /\ SendMessage(C, env[B]) /\ Assign(B, NoEnv) /\ Goto(B, "yield")
  <2>1. Gives(C, env[B]) /\ msg_type' = msg_type /\ IsReport(env[B])
    BY <1>3, SendMessageGives DEF At, DelayInv
  <2>2. DelaysStand({})
    BY <2>1, DelaysGiven DEF IsReport
  <2>3. pc'[B] # "forward"
    BY <1>3 DEF Goto, AppTypes
  <2> QED BY <1>1, <2>2, <2>3 DEF DelaysStand, DelayInv, IsReport
<1>4. CASE At(B, "yield") /\ ReleaseProcessor /\ Goto(B, "receive")
  <2>1. DelaysStand({})
    BY <1>4, Kinds, DelaysUntouched DEF Switches
  <2>2. pc'[B] # "forward"
    BY <1>4 DEF Goto, AppTypes
  <2> QED BY <1>1, <2>1, <2>2 DEF DelaysStand, DelayInv, IsReport
<1> QED BY <1>2, <1>3, <1>4 DEF procB

LEMMA CKeepsDelays ==
  ASSUME KernelInv, DelayInv, Hands, AppTypes, procC
  PROVE  DelayInv'
<1> USE Names, Programs
<1>1. current = C /\ pc'[B] = pc[B] /\ env'[B] = env[B]
  BY DEF procC, C_Receive, C_Print, C_Discard, C_Yield, C_AwaitAck, C_Delay, C_AwaitWakeup,
         C_Release, C_Next, Goto, Assign, AppTypes
<1>2. ASSUME NEW new, DelaysStand(new), pc'[C] # "await_wakeup" => CTimers' = {},
             \A e, f \in CTimers \cup new : e = f
      PROVE  DelayInv'
  <2>1. \A f \in held[B] : msg_type'[f] = msg_type[f]
    BY <1>1, <1>2 DEF DelaysStand
  <2>2. pc'[B] = "forward" => msg_type'[env'[B]] = "COUNT_REPORT"
    BY <1>1, <2>1 DEF DelayInv, Hands, IsReport
  <2>3. \A e, f \in CTimers' : e = f
    BY <1>2 DEF DelaysStand
  <2> QED BY <1>2, <2>2, <2>3 DEF DelayInv, DelaysStand, IsReport
<1>3. CASE C_Delay
  <2>1. PICK e : e = env[C] /\ Gives(TIMER, e)
    BY <1>3, Kinds DEF C_Delay
  <2>2. DelaysStand({e})
    BY <1>1, <2>1, DelaysGiven
  <2>3. pc'[C] = "await_wakeup" /\ CTimers = {}
    BY <1>3 DEF C_Delay, At, Goto, AppTypes, DelayInv
  <2> QED BY <1>2, <2>2, <2>3
<1>4. CASE At(C, "await_wakeup") /\ Receives(C, "WAKEUP10")
  <2>1. PICK e : e = Mail(C) /\ Takes(C, e) /\ msg_type[e] = "WAKEUP10"
    BY <1>1, <1>4, Kinds DEF Receives
  <2>2. DelaysStand({}) /\ e \notin CTimers' /\ e \in CTimers
    BY <1>1, <2>1, DelaysTaken DEF Takes, CTimers, CWakeups
  <2>3. CTimers' = {}
    BY <2>2 DEF DelaysStand, DelayInv
  <2> QED BY <1>2, <2>2, <2>3 DEF DelayInv
<1>5. CASE ~ C_Delay /\ ~ (At(C, "await_wakeup") /\ Receives(C, "WAKEUP10"))
  <2>1. Shows(C) \/ Works(C, {C}, {FREE_ENV_QUEUE})
    <3>1. CASE C_Print
      BY <1>1, <3>1, Kinds DEF C_Print, Display, Shows
    <3>2. CASE ~ C_Print
      <4>1. Quiet /\ (ReceiveMessage \/ ReleaseProcessor \/ \E e : ReleaseMsgEnv(e))
        BY <1>5, <3>2 DEF procC, C_Receive, C_Discard, C_Yield, C_AwaitAck, C_AwaitWakeup,
                          C_Release, Receives
      <4> QED BY <1>1, <4>1, Kinds DEF Works, Quiet
    <3> QED BY <3>1, <3>2
  <2>2. DelaysStand({})
    <3>1. {FREE_ENV_QUEUE} \in SUBSET EnvQueues /\ TIMER \notin {FREE_ENV_QUEUE}
          /\ {FREE_ENV_QUEUE} \cap {B, C} = {}
      OBVIOUS
    <3> QED BY <2>1, <3>1, WorkLeavesDelays
  <2>3. pc[C] = "await_wakeup" => pc'[C] = "await_wakeup"
    BY <1>5 DEF procC, C_Receive, C_Print, C_Discard, C_Yield, C_AwaitAck, C_AwaitWakeup,
                C_Release, At
  <2>4. pc'[C] # "await_wakeup" => CTimers' = {}
    BY <2>2, <2>3 DEF DelaysStand, DelayInv
  <2> QED BY <1>2, <2>2, <2>4 DEF DelayInv
<1> QED BY <1>3, <1>4, <1>5

LEMMA DelayStep ==
  ASSUME KernelInv, KernelInv', DelayInv, Hands, Senders, AppTypes, AppNext
  PROVE  DelayInv'
<1> USE Names, Programs
<1>1. CASE cci_process
  <2>1. pc'[C] = pc[C] /\ pc'[B] = pc[B] /\ env'[B] = env[B]
    BY <1>1 DEF cci_process, CCI_Input, CCI_Silent, CCI_Start, CCI_Prompt, CCI_StartsA,
                CCI_Answer, cci_print, cci_printed, Goto, Assign, AppTypes
  <2>2. {KB, A} \in SUBSET EnvQueues /\ TIMER \notin {KB, A} /\ {KB, A} \cap {B, C} = {}
    OBVIOUS
  <2>3. DelaysStand({}) /\ current = CCI
    BY <1>1, <2>2, WorkOfCCI, WorkLeavesDelays DEF Works, Shows
  <2> QED BY <2>1, <2>3, DelaysKept
<1>2. CASE clock_process
  <2>1. pc'[C] = pc[C] /\ pc'[B] = pc[B] /\ env'[B] = env[B]
    BY <1>2 DEF clock_process, CLOCK_Start, CLOCK_Acknowledged, CLOCK_Second, CLOCK_Print,
                CLOCK_PrintsAgain, Goto, Assign, AppTypes
  <2>2. {TIMER} \in SUBSET EnvQueues /\ {TIMER} \cap {B, C} = {}
    OBVIOUS
  <2>3. DelaysStand({}) /\ current = CLOCK
    BY <1>2, <2>2, WorkOfClock, WorkLeavesDelays DEF Works, Shows
  <2> QED BY <2>1, <2>3, DelaysKept
<1>3. CASE \/ null_process \/ Suspends \/ CrtPrints \/ CrtSignals \/ Derailed
  <2>1. UNCHANGED <<envQ, timing, sender_pid, msg_type, pc, env>>
    BY <1>3, WorkOfOthers DEF Switches, programs, CrtPrints, CrtSignals, Derailed, appVars, vars
  <2> QED BY <2>1, DelaysUntouched, DelaysKept
<1>4. CASE crt_handler
  <2>1. PICK e : /\ Returns(e, "DISPLAY_ACK") /\ envQ'[TIMER] = envQ[TIMER]
                 /\ timing' = timing
    BY <1>4, CrtReturns DEF crt_handler
  <2>2. Delays' \subseteq Delays
    BY <2>1 DEF Delays
  <2>3. UNCHANGED <<pc, env>>
    BY <1>4 DEF crt_handler, programs
  <2> QED BY <2>1, <2>2, <2>3, DelaysReturned, DelaysKept
<1>5. CASE kbd_handler
  <2>1. PICK e : /\ Returns(e, "CONSOLE_INPUT") /\ envQ'[TIMER] = envQ[TIMER]
                 /\ timing' = timing
    BY <1>5, KbdReturns DEF kbd_handler
  <2>2. Delays' \subseteq Delays
    BY <2>1 DEF Delays
  <2>3. UNCHANGED <<pc, env>>
    BY <1>5 DEF kbd_handler, programs
  <2> QED BY <2>1, <2>2, <2>3, DelaysReturned, DelaysKept
<1>6. ASSUME NEW p \in {C, CLOCK}, timer_handler(p) PROVE DelayInv'
  <2>1. PICK e : /\ Returns(e, "WAKEUP10") /\ e \in Delays /\ Delays' \subseteq Delays
    BY <1>6, TimerReturns DEF timer_handler, Delays
  <2>2. UNCHANGED <<pc, env>>
    BY <1>6 DEF timer_handler, programs
  <2> QED BY <2>1, <2>2, DelaysReturned, DelaysKept
<1> QED
  BY <1>1, <1>2, <1>3, <1>4, <1>5, <1>6, AKeepsDelays, BKeepsDelays, CKeepsDelays DEF AppNext

-----------------------------------------------------------------------------
(* The inductive invariant of the programs. *)

AppInv ==
  /\ KernelInv /\ AppTypes /\ Senders
  /\ StartSafe /\ ConsoleInv /\ ClockInv /\ ReportsInv /\ DelayInv

LEMMA InitAppInv == AppInit => AppInv
<1> SUFFICES ASSUME AppInit PROVE AppInv
  OBVIOUS
<1> USE Names, Programs
<1>1. KernelInv
  BY AppInitIsInit, InitKernelInv
<1>2. /\ envQ[FREE_ENV_QUEUE] = MSG_LIST
      /\ \A q \in EnvQueues \ {FREE_ENV_QUEUE} : envQ[q] = <<>> /\ Range(envQ[q]) = {}
      /\ timing = {} /\ current = CLOCK /\ \A p \in UserProcs : held[p] = {}
  BY EmptyQueue DEF AppInit
<1>3. 0 \in Counts
  <2>1. Cardinality(Envelopes) \in Nat
    BY FiniteTables, FS_CardinalityType
  <2> QED BY <2>1, PoolAndCount DEF Counts
<1>4. /\ pc[A] = "receive_start" /\ pc[B] = "receive" /\ pc[C] = "top"
      /\ pc[CCI] = "request_display" /\ pc[CLOCK] = "request_timeout"
  BY DEF AppInit
<1>5. AppTypes
  <2>1. pc \in [Clients -> Labels]
    BY DEF AppInit, Labels
  <2>2. /\ num_count \in Counts /\ msgQueue \in Seq(Envelopes)
        /\ env \in [Clients -> Envelopes \cup {NoEnv}]
        /\ data \in [Envelopes -> Counts \cup {NoEnv}]
    BY <1>3, EmptyQueue DEF AppInit
  <2> QED BY <2>1, <2>2 DEF AppTypes
<1>6. Senders
  BY <1>2 DEF Senders, InService
<1>7. StartSafe
  <2>1. Len(MSG_LIST) >= 5 /\ Len(MSG_LIST) \in Nat
    <3>1. Cardinality(Envelopes) \in Nat /\ MSG_LIST \in Seq(Envelopes)
      BY FiniteTables, FS_CardinalityType, PoolAndCount, Enumerated
    <3>2. DOMAIN MSG_LIST = 1 .. Cardinality(Envelopes)
      BY PoolAndCount DEF Enumerations, Bijection, Injection
    <3> QED BY <3>1, <3>2, PoolAndCount
  <2>2. Wanted(CCI) = 3 /\ Wanted(CLOCK) = 2
    BY <1>4 DEF Wanted
  <2>3. StartInv
    BY <1>2, <1>4, <2>1, <2>2 DEF StartInv
  <2>4. CommandsNeverStarve
    BY DEF AppInit, CommandsNeverStarve, Procs, IProcs
  <2> QED BY <2>3, <2>4 DEF StartSafe
<1>8. ConsoleInv
  <2>1. /\ ok_flag = "WAITING_TO_BE_WRITTEN" /\ crt = "polling" /\ ~ SIGUSR2
        /\ Len(envQ[DISPLAYQ]) = 0
    BY <1>2 DEF AppInit
  <2>2. One(ok_flag = "OKAY_DISPLAY") = 0 /\ One(SIGUSR2) = 0
    BY <2>1 DEF One
  <2> QED BY <2>1, <2>2 DEF ConsoleInv
<1>9. ClockInv
  <2>1. ClockShown = {} /\ ClockWaits = {} /\ \A type : Mails(type) = {}
    BY <1>2 DEF ClockShown, ClockWaits, Mails
  <2>2. env[CLOCK] = NoEnv /\ displayEnv = NoEnv /\ state[CLOCK] = "EXECUTING"
    BY DEF AppInit, Procs, IProcs
  <2>3. ~ resent
    BY Zenon DEF AppInit
  <2>4. ClockTimers = {}
    BY <2>1, <2>2 DEF ClockTimers
  <2> QED BY <1>4, <2>1, <2>2, <2>3, <2>4 DEF ClockInv, Starting
<1>10. ReportsInv
  <2>1. /\ msgQueue = <<>> /\ Range(msgQueue) = {} /\ IsInjective(msgQueue) /\ num_count = 0
        /\ awaited = 0
    BY EmptyQueue DEF AppInit
  <2>2. Hands
    BY <1>4, <2>1 DEF Hands
  <2>3. Run(<<>>, msg_type, data, 0, 0)
    BY <1>3, RunOfNone
  <2>4. Chain
    BY <1>2, <1>3, <1>4, <2>1, <2>3 DEF Chain
  <2> QED BY <2>2, <2>4 DEF ReportsInv
<1>11. DelayInv
  BY <1>2, <1>4 DEF DelayInv, Delays, CTimers, CWaits, CWakeups
<1> QED BY <1>1, <1>5, <1>6, <1>7, <1>8, <1>9, <1>10, <1>11 DEF AppInv

LEMMA NextAppInv == AppInv /\ [AppNext]_appVars => AppInv'
<1> SUFFICES ASSUME AppInv, [AppNext]_appVars PROVE AppInv'
  OBVIOUS
<1>1. CASE AppNext
  <2>1. KernelInv'
    BY <1>1, ProcessesUseTheKernel, NextKernelInv DEF AppInv, KernelInv
  <2>2. AppTypes' /\ Senders' /\ StartSafe'
    BY <1>1, <2>1, TypesStep, SendersStep, StartStep DEF AppInv
  <2>3. ConsoleInv' /\ ClockInv' /\ ReportsInv'
    BY <1>1, <2>1, ConsoleStep, ClockStep, ReportsStep DEF AppInv
  <2>4. DelayInv'
    BY <1>1, <2>1, DelayStep DEF AppInv, ReportsInv
  <2> QED BY <2>1, <2>2, <2>3, <2>4 DEF AppInv
<1>2. CASE UNCHANGED appVars
  <2>1. UNCHANGED <<vars, pc, env, num_count, data, msgQueue, awaited, displayEnv>>
    BY <1>2 DEF appVars, programs
  <2>2. UNCHANGED <<ok_flag, crt, SIGUSR2, crossed, late, resent>>
    BY <1>2 DEF appVars, console
  <2>3. KernelInv'
    BY <2>1, NextKernelInv DEF AppInv, vars
  <2>4. AppTypes' /\ Senders'
    BY <2>1 DEF AppInv, AppTypes, Senders, InService, vars
  <2>5. StartSafe'
    BY <2>1 DEF AppInv, StartSafe, StartInv, Starting, Wanted, CommandsNeverStarve, vars
  <2>6. ConsoleInv'
    BY <2>1, <2>2, QuietConsole DEF AppInv, vars
  <2>7. ClockInv'
    <3>1. (resent' => resent) /\ (Excused => Excused')
      BY <2>2, Zenon DEF Excused
    <3> QED BY <2>1, <3>1, StayLeavesClock DEF AppInv
  <2>8. ReportsInv'
    BY <2>1, ReportsKept DEF AppInv, vars
  <2>9. DelayInv'
    BY <2>1 DEF AppInv, DelayInv, Delays, CTimers, CWaits, CWakeups, IsReport, vars
  <2> QED BY <2>3, <2>4, <2>5, <2>6, <2>7, <2>8, <2>9 DEF AppInv
<1> QED BY <1>1, <1>2

(* The inductive invariant of the five programs, over the one of the kernel. *)
THEOREM AppsInvariance == AppSpec => []AppInv
<1> QED BY InitAppInv, NextAppInv, PTL DEF AppSpec

(* Process C gets every report of A once and in order, whatever it waits for and however large
   the pool and the period of the count (procABC.c:80, :116 and :124). *)
THEOREM ReportsStayInOrder == AppSpec => []ReportsInOrder
<1>1. AppInv => ReportsInOrder
  BY ChainIsOrder DEF AppInv, KernelInv
<1> QED BY <1>1, AppsInvariance, PTL

(* Neither the CCI nor the clock ever waits for an envelope (cci.c:20, clock_proc.c:16): a pool of
   five is enough. *)
THEOREM CommandsAreServed == AppSpec => []CommandsNeverStarve
<1>1. AppInv => CommandsNeverStarve
  BY DEF AppInv, StartSafe
<1> QED BY <1>1, AppsInvariance, PTL

(* The clock sends an envelope it does not have (clock_proc.c:56) only after a text on the shared
   page was overwritten, or after a second was over before the clock and the console were through
   with the one before: an envelope it has printed with comes back to it and goes nowhere else. *)
THEOREM ClockErrsOnlyIfUnconfirmed == AppSpec => []ResentOnlyIfUnconfirmed
<1>1. AppInv => ResentOnlyIfUnconfirmed
  BY Zenon DEF AppInv, ClockInv, Excused, ResentOnlyIfUnconfirmed
<1> QED BY <1>1, AppsInvariance, PTL

(* Whatever the flood and the commands do, the list of TIMEOUT_Q is never to hold a third delay:
   C and the clock ask for one each, and each only when its last one is over (procABC.c:109,
   clock_proc.c:18 and :47). *)
THEOREM DelaysAreTwo == AppSpec => []TwoDelaysAtMost
<1>1. AppInv => TwoDelaysAtMost
  <2> SUFFICES ASSUME AppInv PROVE TwoDelaysAtMost
    OBVIOUS
  <2>1. ClockInv /\ DelayInv
    BY DEF AppInv
  <2>2. Delays = CWaits \cup ClockWaits
    BY <2>1 DEF Delays, CWaits, ClockWaits, DelayInv
  <2>3. ASSUME NEW S, \A e, f \in S : e = f
        PROVE  IsFiniteSet(S) /\ Cardinality(S) \in Nat /\ Cardinality(S) <= 1
    <3>1. CASE S = {}
      BY <3>1, FS_EmptySet
    <3>2. CASE S # {}
      <4>1. PICK e : S = {e}
        BY <2>3, <3>2
      <4>2. IsFiniteSet({e}) /\ Cardinality({e}) = 1
        BY FS_Singleton
      <4> QED BY <4>1, <4>2
    <3> QED BY <3>1, <3>2
  <2>4. \A e, f \in CWaits : e = f
    BY <2>1 DEF DelayInv, CTimers
  <2>5. \A e, f \in ClockWaits : e = f
    BY <2>1 DEF ClockInv, ClockTimers
  <2>6. /\ IsFiniteSet(CWaits) /\ Cardinality(CWaits) \in Nat /\ Cardinality(CWaits) <= 1
        /\ IsFiniteSet(ClockWaits) /\ Cardinality(ClockWaits) \in Nat
        /\ Cardinality(ClockWaits) <= 1
    BY <2>3, <2>4, <2>5
  <2>7. IsFiniteSet(CWaits \cap ClockWaits) /\ Cardinality(CWaits \cap ClockWaits) \in Nat
    BY <2>6, FS_Intersection, FS_CardinalityType
  <2>8. Cardinality(Delays) = Cardinality(CWaits) + Cardinality(ClockWaits)
                                - Cardinality(CWaits \cap ClockWaits)
    BY <2>2, <2>6, FS_Union
  <2> QED BY <2>6, <2>7, <2>8 DEF TwoDelaysAtMost, Delays
<1> QED BY <1>1, AppsInvariance, PTL
=============================================================================
