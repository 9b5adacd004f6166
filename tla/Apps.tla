-------------------------------- MODULE Apps --------------------------------
(***************************************************************************)
(* The user processes as programs over the primitives of Kernel: processes *)
(* A, B and C of procABC.c, the wall clock and the CCI, with the local     *)
(* variables their control depends on and the child crt.c that displays    *)
(* what they print.  A step is one primitive together with the statements  *)
(* of the process up to the next one.                                      *)
(*                                                                         *)
(* The clock may print with an envelope it does not have (clock_proc.c:56) *)
(* and thereby cut a list in two.  Kernel cannot express that: the model   *)
(* records it in resent and stops.                                         *)
(*                                                                         *)
(* An envelope variable whose value is not read again holds NoEnv, and so  *)
(* does the data of an envelope that is no longer a report.  The commands  *)
(* of the CCI are those that start A, switch the clock display, print and  *)
(* do neither; n and t are in Scheduler and Lifecycle.  The branches for   *)
(* messages of any other type are left out: a process would be stuck at    *)
(* such a message, which the deadlock check rules out.                     *)
(***************************************************************************)
EXTENDS Kernel

CONSTANTS
  A, B, C, CCI, CLOCK,
  MSG_LIST,      \* the envelopes in the order of creation
  REPORT_EVERY,  \* C prints for one report in twenty (procABC.c:87)
  COUNT_LIMIT,   \* bound: num_count is kept modulo this
  NoEnv

ASSUME ProcessTable ==
  /\ Clients = {A, B, C, CCI, CLOCK} /\ IsInjective(<<A, B, C, CCI, CLOCK>>)
  /\ \A p \in {A, B, C} : Priority[p] = 1
  /\ \A p \in {CLOCK, CCI} : Priority[p] = 0
  /\ NUM_PRIORITY_LEVEL > 2

Counts == 0 .. COUNT_LIMIT - 1

(* The pool (global_defines.h:24) has the five envelopes the CCI and the clock start with,
   four of which never carry a report. *)
ASSUME PoolAndCount ==
  /\ MSG_LIST \in Enumerations(Envelopes) /\ Cardinality(Envelopes) >= 5
  /\ NoEnv \notin Envelopes \cup Counts
  /\ REPORT_EVERY \in Nat \ {0} /\ COUNT_LIMIT \in Nat
  /\ COUNT_LIMIT % REPORT_EVERY = 0 /\ COUNT_LIMIT > Cardinality(Envelopes) - 4

VARIABLES
  pc,           \* where each process is in its program
  env,          \* toB, msg_forward, msg_env, cci_env and timeoutEnv
  num_count,    \* process A's counter
  data,         \* the count a report carries
  msgQueue,     \* process C's local queue
  awaited,      \* the count after that of the report C dealt with last (history)
  CCI_DISPLAY_ENV, a_env,
  displayEnv, clockDisplayRequest,
  ok_flag,      \* of IN_MEM_P_CRT
  crt,          \* where crt.c is in its loop
  SIGUSR2,      \* pending for the RTX
  crossed,      \* a text was overwritten, or two SIGUSR2 became one (history)
  late,         \* a second was over before the clock's text was confirmed (history)
  resent        \* the clock has sent an envelope it does not have (history)

programs == <<pc, env, num_count, data, msgQueue, awaited, CCI_DISPLAY_ENV, a_env,
              displayEnv, clockDisplayRequest>>
console  == <<ok_flag, crt, SIGUSR2, crossed, late>>
appVars  == <<vars, programs, console, resent>>

AppInit ==
  /\ current = CLOCK
  /\ state = [p \in Procs |-> IF p \in IProcs THEN "NO_STATE"
                              ELSE IF p = current THEN "EXECUTING" ELSE "READY"]
  /\ procQ = [q \in ProcQueues |-> CASE q = 0 -> <<CCI>>
                                     [] q = 1 -> <<A, B, C>>
                                     [] q = Priority[NullProc] -> <<NullProc>>
                                     [] OTHER -> <<>>]
  /\ envQ = [q \in EnvQueues |-> IF q = FREE_ENV_QUEUE THEN MSG_LIST ELSE <<>>]
  /\ call = [p \in UserProcs |-> "none"] /\ held = [p \in UserProcs |-> {}] /\ timing = {}
  /\ sender_pid = [e \in Envelopes |-> NoPid] /\ msg_type = [e \in Envelopes |-> "NONE"]
  /\ pc = [p \in Clients |-> CASE p = A -> "receive_start" [] p = B -> "receive" [] p = C -> "top"
                              [] p = CCI -> "request_display" [] p = CLOCK -> "request_timeout"]
  /\ env = [p \in Clients |-> NoEnv]
  /\ num_count = 0 /\ data = [e \in Envelopes |-> NoEnv]
  /\ msgQueue = <<>> /\ awaited = 0
  /\ CCI_DISPLAY_ENV = NoEnv /\ a_env = NoEnv /\ displayEnv = NoEnv
  /\ clockDisplayRequest = FALSE
  /\ ok_flag = "WAITING_TO_BE_WRITTEN" /\ crt = "polling" /\ SIGUSR2 = FALSE
  /\ crossed = FALSE /\ late = FALSE /\ resent = FALSE

-----------------------------------------------------------------------------
(* Steps of a program, each of which needs its process to run. *)

At(p, label)   == current = p /\ pc[p] = label /\ ~ resent
Goto(p, label) == pc' = [pc EXCEPT ![p] = label]
Assign(p, e)   == env' = [env EXCEPT ![p] = e]

FirstFree == Head(envQ[FREE_ENV_QUEUE])
Mail(p)   == Head(envQ[p])
Receives(p, type) == ReceiveMessage /\ msg_type[Mail(p)] = type

(* send_console_chars with the flag of the shared page; crt.c clears it after the text. *)
Display(e) ==
  /\ SendConsoleChars(e)
  /\ ok_flag' = "OKAY_DISPLAY"
  /\ crossed' = (crossed \/ ok_flag = "OKAY_DISPLAY")
  /\ UNCHANGED <<crt, SIGUSR2, late, resent>>

Quiet == UNCHANGED <<console, resent>>

(* A process that finds no envelope, or no message, stays where it is. *)
Suspends ==
  /\ ~ resent /\ current \in Clients
  /\ \/ /\ pc[current] \in {"request", "request_display", "request_input", "request_start",
                             "request_timeout"}
        /\ RequestBlocks
     \/ /\ \/ pc[current] \in {"receive_start", "receive", "await_ack", "await_wakeup",
                                "await_prompt", "await_answer", "await_input"}
           \/ pc[current] = "top" /\ msgQueue = <<>>
        /\ ReceiveBlocks
  /\ UNCHANGED programs /\ Quiet

null_process ==
  /\ ~ resent /\ current = NullProc
  /\ ReleaseProcessor
  /\ UNCHANGED programs /\ Quiet

-----------------------------------------------------------------------------
(* Process A waits for the CCI, then sends one numbered report after the other to B. *)

A_Start ==
  \/ /\ At(A, "receive_start") /\ ReceiveMessage
     /\ Assign(A, Mail(A)) /\ Goto(A, "release_start")
     /\ UNCHANGED <<num_count, data>>
  \/ /\ At(A, "release_start") /\ ReleaseMsgEnv(env[A])
     /\ Assign(A, NoEnv) /\ Goto(A, "request")
     /\ UNCHANGED <<num_count, data>>

NextCount(n) == (n + 1) % COUNT_LIMIT

A_Report ==
  \/ /\ At(A, "request") /\ RequestMsgEnv
     /\ Assign(A, FirstFree) /\ Goto(A, "fill")
     /\ UNCHANGED <<num_count, data>>
  \/ /\ At(A, "fill") /\ SetType(env[A])
     /\ data' = [data EXCEPT ![env[A]] = num_count]
     /\ Goto(A, "send") /\ UNCHANGED <<env, num_count>>
  \/ /\ At(A, "send") /\ SendMessage(B, env[A])
     /\ num_count' = NextCount(num_count)
     /\ Assign(A, NoEnv) /\ Goto(A, "yield") /\ UNCHANGED data
  \/ /\ At(A, "yield") /\ ReleaseProcessor
     /\ Goto(A, "request") /\ UNCHANGED <<env, num_count, data>>

procA ==
  /\ current = A
  /\ A_Start \/ A_Report
  /\ Quiet /\ UNCHANGED <<msgQueue, awaited, CCI_DISPLAY_ENV, a_env, displayEnv,
                          clockDisplayRequest>>

(* Process B passes on what it gets. *)
procB ==
  /\ current = B
  /\ \/ At(B, "receive") /\ ReceiveMessage /\ Assign(B, Mail(B)) /\ Goto(B, "forward")
     \/ At(B, "forward") /\ SendMessage(C, env[B]) /\ Assign(B, NoEnv) /\ Goto(B, "yield")
     \/ At(B, "yield") /\ ReleaseProcessor /\ Goto(B, "receive") /\ UNCHANGED env
  /\ Quiet /\ UNCHANGED <<num_count, data, msgQueue, awaited, CCI_DISPLAY_ENV, a_env, displayEnv,
                          clockDisplayRequest>>

-----------------------------------------------------------------------------
(* Process C keeps the reports in a queue of its own and prints for one in twenty. *)

IsReport(e) == msg_type[e] = "COUNT_REPORT"
Prints(e)   == IsReport(e) /\ data[e] % REPORT_EVERY = 0

(* C's envelope is dealt with: the next one, or a pause. *)
C_Next(q) == Goto(C, IF q = <<>> THEN "yield" ELSE "top")

C_Receive ==
  /\ At(C, "top") /\ msgQueue = <<>>
  /\ ReceiveMessage
  /\ msgQueue' = Append(msgQueue, Mail(C))
  /\ Quiet /\ UNCHANGED <<pc, env, data, awaited>>

C_Print ==
  /\ At(C, "top") /\ msgQueue # <<>> /\ Prints(Head(msgQueue))
  /\ Display(Head(msgQueue))
  /\ data' = [data EXCEPT ![Head(msgQueue)] = NoEnv]
  /\ msgQueue' = Tail(msgQueue) /\ awaited' = NextCount(data[Head(msgQueue)])
  /\ Goto(C, "await_ack") /\ UNCHANGED env

C_Discard ==
  /\ At(C, "top") /\ msgQueue # <<>> /\ ~ Prints(Head(msgQueue))
  /\ ReleaseMsgEnv(Head(msgQueue))
  /\ data' = [data EXCEPT ![Head(msgQueue)] = NoEnv]
  /\ msgQueue' = Tail(msgQueue)
  /\ awaited' = IF IsReport(Head(msgQueue)) THEN NextCount(data[Head(msgQueue)]) ELSE awaited
  /\ C_Next(Tail(msgQueue)) /\ Quiet /\ UNCHANGED env

C_Yield ==
  /\ At(C, "yield") /\ ReleaseProcessor /\ Goto(C, "top")
  /\ Quiet /\ UNCHANGED <<env, data, msgQueue, awaited>>

(* Mutant: a report that comes in the meantime is released like any other message. *)
C_AwaitAck_NoQueue ==
  \/ /\ At(C, "await_ack") /\ Receives(C, "DISPLAY_ACK")
     /\ Assign(C, Mail(C)) /\ Goto(C, "delay")
     /\ Quiet /\ UNCHANGED <<data, msgQueue, awaited>>
  \/ /\ At(C, "await_ack") /\ Receives(C, "COUNT_REPORT")
     /\ Assign(C, Mail(C)) /\ Goto(C, "release")
     /\ Quiet /\ UNCHANGED <<data, msgQueue, awaited>>

(* Until the display is confirmed, reports go to the local queue. *)
C_AwaitAck ==
  \/ /\ At(C, "await_ack") /\ Receives(C, "DISPLAY_ACK")
     /\ Assign(C, Mail(C)) /\ Goto(C, "delay")
     /\ Quiet /\ UNCHANGED <<data, msgQueue, awaited>>
  \/ /\ At(C, "await_ack") /\ Receives(C, "COUNT_REPORT")
     /\ msgQueue' = Append(msgQueue, Mail(C))
     /\ Quiet /\ UNCHANGED <<pc, env, data, awaited>>

C_Delay ==
  /\ At(C, "delay") /\ RequestDelay(env[C])
  /\ Assign(C, NoEnv) /\ Goto(C, "await_wakeup")
  /\ Quiet /\ UNCHANGED <<data, msgQueue, awaited>>

(* Mutant: whatever comes is taken for the end of the delay. *)
C_AwaitWakeup_Any ==
  /\ At(C, "await_wakeup") /\ ReceiveMessage
  /\ Assign(C, Mail(C)) /\ Goto(C, "release")
  /\ Quiet /\ UNCHANGED <<data, msgQueue, awaited>>

(* Reports still go to the local queue. *)
C_AwaitWakeup ==
  \/ /\ At(C, "await_wakeup") /\ Receives(C, "WAKEUP10")
     /\ Assign(C, Mail(C)) /\ Goto(C, "release")
     /\ Quiet /\ UNCHANGED <<data, msgQueue, awaited>>
  \/ /\ At(C, "await_wakeup") /\ Receives(C, "COUNT_REPORT")
     /\ msgQueue' = Append(msgQueue, Mail(C))
     /\ Quiet /\ UNCHANGED <<pc, env, data, awaited>>

(* Mutant: the envelope of the delay is not released. *)
C_Release_Not ==
  /\ At(C, "release") /\ UNCHANGED vars
  /\ Assign(C, NoEnv) /\ C_Next(msgQueue)
  /\ Quiet /\ UNCHANGED <<data, msgQueue, awaited>>

C_Release ==
  /\ At(C, "release") /\ ReleaseMsgEnv(env[C])
  /\ Assign(C, NoEnv) /\ C_Next(msgQueue)
  /\ Quiet /\ UNCHANGED <<data, msgQueue, awaited>>

procC ==
  /\ current = C
  /\ \/ C_Receive \/ C_Print \/ C_Discard \/ C_Yield
     \/ C_AwaitAck \/ C_Delay \/ C_AwaitWakeup \/ C_Release
  /\ UNCHANGED <<num_count, CCI_DISPLAY_ENV, a_env, displayEnv, clockDisplayRequest>>

-----------------------------------------------------------------------------
(* The CCI prompts, asks for a line, and carries out the command. *)

CCI_Start ==
  \/ /\ At(CCI, "request_display") /\ RequestMsgEnv
     /\ CCI_DISPLAY_ENV' = FirstFree
     /\ Goto(CCI, "request_input") /\ UNCHANGED <<env, a_env>>
  \/ /\ At(CCI, "request_input") /\ RequestMsgEnv
     /\ Assign(CCI, FirstFree)
     /\ Goto(CCI, "request_start") /\ UNCHANGED <<CCI_DISPLAY_ENV, a_env>>
  \/ /\ At(CCI, "request_start") /\ RequestMsgEnv
     /\ a_env' = FirstFree
     /\ Goto(CCI, "prompt") /\ UNCHANGED <<env, CCI_DISPLAY_ENV>>

(* cci_print: the envelope is sent, and whatever comes next is taken for it. *)
cci_print(label) ==
  /\ Display(CCI_DISPLAY_ENV)
  /\ CCI_DISPLAY_ENV' = NoEnv /\ Goto(CCI, label) /\ UNCHANGED <<env, a_env>>

cci_printed(label) ==
  /\ ReceiveMessage /\ CCI_DISPLAY_ENV' = Mail(CCI)
  /\ Goto(CCI, label) /\ Quiet /\ UNCHANGED <<env, a_env>>

(* Mutant: the line of cci.c:30 that requests an envelope for each command is put back
   without the release that went with it. *)
CCI_Prompt_Requests ==
  \/ At(CCI, "prompt") /\ cci_print("await_prompt")
  \/ At(CCI, "await_prompt") /\ cci_printed("request_again")
  \/ /\ At(CCI, "request_again")
     /\ \/ RequestMsgEnv /\ Assign(CCI, FirstFree) /\ Goto(CCI, "ask")
        \/ RequestBlocks /\ UNCHANGED <<env, pc>>
     /\ Quiet /\ UNCHANGED <<CCI_DISPLAY_ENV, a_env>>
  \/ /\ At(CCI, "ask") /\ GetConsoleChars(env[CCI])
     /\ Assign(CCI, NoEnv) /\ Goto(CCI, "await_input")
     /\ Quiet /\ UNCHANGED <<CCI_DISPLAY_ENV, a_env>>

CCI_Prompt ==
  \/ At(CCI, "prompt") /\ cci_print("await_prompt")
  \/ At(CCI, "await_prompt") /\ cci_printed("ask")
  \/ /\ At(CCI, "ask") /\ GetConsoleChars(env[CCI])
     /\ Assign(CCI, NoEnv) /\ Goto(CCI, "await_input")
     /\ Quiet /\ UNCHANGED <<CCI_DISPLAY_ENV, a_env>>

CCI_Input ==
  /\ At(CCI, "await_input") /\ Receives(CCI, "CONSOLE_INPUT")
  /\ Assign(CCI, Mail(CCI)) /\ Goto(CCI, "command")
  /\ Quiet /\ UNCHANGED <<CCI_DISPLAY_ENV, a_env, clockDisplayRequest>>

(* s, once; a second s is answered by a text. *)
CCI_StartsA ==
  /\ At(CCI, "command") /\ a_env # NoEnv
  /\ SendMessage(A, a_env)
  /\ a_env' = NoEnv /\ Goto(CCI, "prompt")
  /\ Quiet /\ UNCHANGED <<env, CCI_DISPLAY_ENV>>

(* A command that prints its answer. *)
CCI_Answer ==
  \/ At(CCI, "command") /\ cci_print("await_answer")
  \/ At(CCI, "await_answer") /\ cci_printed("prompt")

(* cd and ct; a command that does nothing. *)
CCI_Silent ==
  /\ At(CCI, "command") /\ clockDisplayRequest' \in BOOLEAN
  /\ Goto(CCI, "prompt")
  /\ Quiet /\ UNCHANGED <<vars, env, CCI_DISPLAY_ENV, a_env>>

cci_process ==
  /\ current = CCI
  /\ \/ CCI_Input \/ CCI_Silent
     \/ /\ (CCI_Start /\ Quiet) \/ CCI_Prompt \/ CCI_StartsA \/ CCI_Answer
        /\ UNCHANGED clockDisplayRequest
  /\ UNCHANGED <<num_count, data, msgQueue, awaited, displayEnv>>

-----------------------------------------------------------------------------
(* The wall clock: one envelope times the seconds, another shows them. *)

CLOCK_Start ==
  \/ /\ At(CLOCK, "request_timeout") /\ RequestMsgEnv
     /\ Assign(CLOCK, FirstFree)
     /\ Goto(CLOCK, "request_display") /\ UNCHANGED displayEnv
  \/ /\ At(CLOCK, "request_display") /\ RequestMsgEnv
     /\ displayEnv' = FirstFree
     /\ Goto(CLOCK, "delay") /\ UNCHANGED env
  \/ /\ At(CLOCK, "delay") /\ RequestDelay(env[CLOCK])
     /\ Assign(CLOCK, NoEnv)
     /\ Goto(CLOCK, "receive") /\ UNCHANGED displayEnv

(* Mutant: an acknowledgement is taken for a random message, as process C would. *)
CLOCK_Acknowledged_Released ==
  \/ /\ At(CLOCK, "receive") /\ Receives(CLOCK, "DISPLAY_ACK")
     /\ Assign(CLOCK, Mail(CLOCK)) /\ Goto(CLOCK, "discard") /\ UNCHANGED displayEnv
  \/ /\ At(CLOCK, "discard") /\ ReleaseMsgEnv(env[CLOCK])
     /\ Assign(CLOCK, NoEnv) /\ Goto(CLOCK, "receive") /\ UNCHANGED displayEnv

CLOCK_Acknowledged ==
  /\ At(CLOCK, "receive") /\ Receives(CLOCK, "DISPLAY_ACK")
  /\ displayEnv' = Mail(CLOCK) /\ UNCHANGED <<env, pc>>

CLOCK_Second ==
  \/ /\ At(CLOCK, "receive") /\ Receives(CLOCK, "WAKEUP10")
     /\ Assign(CLOCK, Mail(CLOCK)) /\ Goto(CLOCK, "again") /\ UNCHANGED displayEnv
  \/ /\ At(CLOCK, "again") /\ RequestDelay(env[CLOCK])
     /\ Assign(CLOCK, NoEnv)
     /\ Goto(CLOCK, IF clockDisplayRequest THEN "print" ELSE "receive")
     /\ UNCHANGED displayEnv

(* The display is sent whether or not the last one has been acknowledged.  displayEnv is
   not cleared: it still points to the envelope. *)
CLOCK_Print ==
  /\ At(CLOCK, "print") /\ displayEnv \in held[CLOCK]
  /\ Display(displayEnv) /\ Goto(CLOCK, "receive") /\ UNCHANGED <<env, displayEnv>>

CLOCK_PrintsAgain ==
  /\ At(CLOCK, "print") /\ displayEnv \notin held[CLOCK]
  /\ resent' = TRUE
  /\ UNCHANGED <<vars, pc, env, displayEnv, console>>

clock_process ==
  /\ current = CLOCK
  /\ \/ (CLOCK_Start \/ CLOCK_Acknowledged \/ CLOCK_Second) /\ Quiet
     \/ CLOCK_Print \/ CLOCK_PrintsAgain
  /\ UNCHANGED <<num_count, data, msgQueue, awaited, CCI_DISPLAY_ENV, a_env,
                 clockDisplayRequest>>

-----------------------------------------------------------------------------
(* crt.c, and the handlers. *)

CrtPrints ==
  /\ ~ resent /\ crt = "polling" /\ ok_flag = "OKAY_DISPLAY"
  /\ crt' = "printing"
  /\ UNCHANGED <<vars, programs, ok_flag, SIGUSR2, crossed, late, resent>>

(* A flag set during the printing is cleared with the first. *)
CrtSignals ==
  /\ ~ resent /\ crt = "printing"
  /\ crt' = "polling" /\ ok_flag' = "WAITING_TO_BE_WRITTEN"
  /\ SIGUSR2' = TRUE /\ crossed' = (crossed \/ SIGUSR2)
  /\ UNCHANGED <<vars, programs, late, resent>>

crt_handler ==
  /\ ~ resent /\ SIGUSR2 /\ crt_i_proc
  /\ SIGUSR2' = FALSE
  /\ UNCHANGED <<programs, ok_flag, crt, crossed, late, resent>>

kbd_handler ==
  /\ ~ resent
  /\ kbd_i_proc
  /\ UNCHANGED programs /\ Quiet

(* The console is through with all it was told to display. *)
ConsoleIdle == ok_flag = "WAITING_TO_BE_WRITTEN" /\ crt = "polling" /\ ~ SIGUSR2

(* Not a guard: whether the clock, when its second is over, has dealt with the one before
   and, if it showed that one, the console with the text. *)
OnTime == state[CLOCK] = "BLOCKED_ON_RCV" /\ (ConsoleIdle \/ displayEnv \in held[CLOCK])

(* A delay ends whatever the console and the processes are doing then. *)
timer_handler(p) ==
  /\ ~ resent
  /\ \E e \in Envelopes : sender_pid[e] = p /\ timer_i_proc(e)
  /\ late' = (late \/ (p = CLOCK /\ ~ OnTime))
  /\ UNCHANGED <<programs, ok_flag, crt, SIGUSR2, crossed, resent>>

(* After the clock's mistake the lists are no longer lists. *)
Derailed == resent /\ UNCHANGED appVars

-----------------------------------------------------------------------------
Processes == procA \/ procB \/ procC \/ cci_process \/ clock_process \/ null_process \/ Suspends
CrtChild  == CrtPrints \/ CrtSignals

AppNext ==
  \/ procA \/ procB \/ procC \/ cci_process \/ clock_process \/ null_process \/ Suspends
  \/ CrtPrints \/ CrtSignals
  \/ crt_handler \/ kbd_handler
  \/ \E p \in {C, CLOCK} : timer_handler(p)
  \/ Derailed

(* The RTX runs, the child runs, a pending signal is delivered and C's three seconds end.
   Nobody need type, and no second of the clock need pass. *)
AppSpec ==
  /\ AppInit /\ [][AppNext]_appVars
  /\ WF_appVars(Processes) /\ WF_appVars(CrtChild)
  /\ WF_appVars(crt_handler) /\ WF_appVars(timer_handler(C))
-----------------------------------------------------------------------------
(* Properties. *)

(* What is under way to C, oldest first: its local queue, its mailbox, what B is about to
   forward, B's mailbox, and what A is about to send. *)
AboutTo(p, label) == IF pc[p] = label THEN <<env[p]>> ELSE <<>>
UnderWay == msgQueue \o envQ[C] \o AboutTo(B, "forward") \o envQ[B] \o AboutTo(A, "send")

(* The count of the report A makes next. *)
Due == IF pc[A] = "send" THEN NextCount(num_count) ELSE num_count

(* Process C gets every report once and in the order A counted them, whatever it was
   waiting for when it came: of the reports under way the first carries the count after that
   of the one C dealt with last, each further one the count after that of the one before it,
   and the last the count before the one that is due (procABC.c:80, :116 and :124). *)
ReportsInOrder ==
  LET line     == UnderWay
      Reports  == {i \in DOMAIN line : IsReport(line[i])}
      Count(i) == data[line[i]]
  IN  /\ Reports = {} => awaited = Due
      /\ \A i \in Reports :
           /\ (\A j \in Reports : i <= j) => Count(i) = awaited
           /\ (\A j \in Reports : j <= i) => NextCount(Count(i)) = Due
           /\ \A j \in Reports : j > i /\ (\A k \in Reports : k <= i \/ j <= k)
                                 => Count(j) = NextCount(Count(i))

(* The flood of reports stops at the pool, and never takes the envelopes of the CCI and
   the clock: neither waits for an envelope (cci.c:20, clock_proc.c:16). *)
CommandsNeverStarve ==
  \A p \in {CCI, CLOCK} : state[p] # "BLOCKED_ON_ENV_REQUEST"

(* The two processes of the best priority wait, and the processor goes to the others. *)
Settled == \A p \in {CCI, CLOCK} : state[p] = "BLOCKED_ON_RCV"

(* A goes on when the pool has run dry (kernal.c:19): C drains it after its three seconds,
   unless a text was overwritten, and with it an acknowledgement lost, or lines and seconds
   follow each other so fast that the CCI and the clock never rest again. *)
FloodDrains ==
  []<>Settled =>
    (state[A] = "BLOCKED_ON_ENV_REQUEST"
       ~> (state[A] # "BLOCKED_ON_ENV_REQUEST" \/ crossed \/ resent))

(* The clock sends an envelope that is not its own (clock_proc.c:56) only if a text was
   overwritten, and with it an acknowledgement lost, or if a second was over before the
   console and the clock were through with the last one: the envelope goes nowhere else. *)
ResentOnlyIfUnconfirmed == resent => crossed \/ late

(* Two delays at most are under way at a time, one of C and one of the clock: a third is
   what takes the insertion in TIMEOUT_Q off the end of the list (timerQ.c:63). *)
TwoDelaysAtMost == Cardinality(Range(envQ[TIMER]) \cup timing) <= 2
=============================================================================
