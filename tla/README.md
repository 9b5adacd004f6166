# A TLA+ model of the RTX

The program is a small real-time executive, the RTX: nine processes that run on one Unix
process, switch by `setjmp`/`longjmp`, and exchange message envelopes. Three of the nine are
*i-processes*, which are Unix signal handlers. Two child processes (`crt`, `keyboard`) do
the terminal I/O over shared memory. This directory holds TLA+ modules of its parts, TLC
configurations that check them, and TLAPS proofs about the kernel, the process queues, the
timer, the console, the envelope queues, the handlers' entry and exit, the trace, the five user
processes and the end of the program. Source references are to `src/`.

## The system

| part | state | operations | what makes it correct |
|---|---|---|---|
| primitives (`kernal.c`, wrappers in `userAPI.c`) | mailboxes `rcv_msg_queue`, `FREE_ENV_QUEUE`, `pcb.state`, `CURRENT_PROCESS` | request, release, send, receive, release_processor, console calls, delay | no envelope lost or shared; states, queues and the running process agree; no lost wakeup |
| process queues (`processQ.c`, `procPQ.c`) | linked lists, head and tail | enqueue, dequeue, remove; `k_change_priority` | FIFO within a priority, best priority first; the asserts hold |
| envelope queues (`MsgEnvQueue.c`) | linked lists, head and tail | enqueue, dequeue, size | FIFO; no envelope on two queues |
| timing (`timerQ.c`, `timer_i_proc`) | `TIMEOUT_Q`, `NUM_OF_TICKS` (a float) | insert, check, tick | sorted; no delay early; each delay ends |
| console (`crt_i_proc`, `kbd_i_proc`, `crt.c`, `keyboard.c`) | two shared pages with an `ok_flag` and a text, `DISPLAYQ`, pending signals | print, acknowledge, ask for a line, deliver it | an ack means displayed; a line is delivered once and whole |
| handler entry and exit (`k_i_proc_interrupt`, `k_i_proc_return`) | `CURRENT_PROCESS`, `PREV_PROCESS` | save, take over, restore | the interrupted process is current again |
| initialization (`rtx_init.c`, `main`) | all tables, two files, two children | `init_all_lists`, `init_signals`, `init_mmaps` | the first process finds everything in place; a child that cannot be executed ends the program |
| processes A, B, C, clock, CCI, null | local variables | loops over the primitives | each report reaches C once and in order; the flood of reports starves nobody; they use only what they hold |
| trace buffers (`kernal.c:278-333`) | two rings of 16 | log, print | the last 16 events in order |
| termination (`cleanup.c`) | the files, the children, their pids | `die`, `cleanup` | no file and no child is left, whatever was interrupted |
| process status report, debug printing | none | print | |

Processes meet only through the primitives. Signals cut across everything: SIGALRM each
0.1 s runs `timer_i_proc`, SIGUSR1 from `keyboard` runs `kbd_i_proc`, SIGUSR2 from `crt`
runs `crt_i_proc`. A handler works on the same lists as the process it interrupts;
`k_send_console_chars` also calls `crt_i_proc(0)` itself. `atomic()` is meant to mask the
signals during a primitive, and returns at its first line (`kernal.c:130`). Nothing is
masked. What is hard is hence: signals inside primitives and inside each other, two
printing processes over one buffer, the handshake of three Unix processes, list surgery on
live queues, envelopes that pass through six kinds of places, nine programs over one pool
of envelopes, and an end that may come at any system call of the beginning.

The `hazards` of `PROJECT.json` name the lines where each of these bites, and the properties that
watch over it, or say why none does.

## The modules

The parts are modelled separately, each at the grain at which it can go wrong, and each
says in its header what it takes from the others.

**Kernel** is the core: every primitive that moves an envelope or a process, and the
handlers, one step each. `envQ` is the contents of every `MsgEnvQ` as sequences (the
mailboxes, the i-processes' queues, `FREE_ENV_QUEUE`, `DISPLAYQ`), `procQ` the ready queues
and `BLOCKED_QUEUE`, `state` and `current` the pcb field and `CURRENT_PROCESS`. The local
variables of a process are abstracted to `held`, the envelopes it may use, and `call`, the
primitive in whose `while` loop it is suspended. A process may do anything with what it
holds, so processes A, B, C and the CCI are covered without their code. A primitive that
blocks is two actions, as in the code: `ReceiveBlocks` ends in `k_process_switch`, and
`ReceiveMessage` is taken up when the process runs again and finds a message. Handlers land
between two primitives here; this is where the program spends its time (the null process
and A sleep outside primitives), and other places have modules of their own.

**EnvelopeOwnership** is what a process can rely on, with neither queues nor scheduling: an
envelope is free, held, in a mailbox, or in service for one process, and only six
transfers happen. Kernel implements it.

**Scheduler** has the process queues as the code keeps them: head, tail and `next`
pointers, with `proc_q_remove` and the assert of `proc_q_enqueue`. **FifoScheduler** is
its abstract specification: sequences, first in first out, best priority first.
`SpecKeepingTails` leaves out one case of `change_priority`, the one that breaks it (below).

**TimerQueue** has `timer_i_proc` in its parts (tick, each insertion, the check), `TIMEOUT_Q`
as `timeout_q_insert` treats it, including its reading past the end, and a clock that
stops counting at `FloatLimit`.

**Console** has the three Unix processes with one step for each access to shared memory,
from the moment the children are forked: the children may still be starting when
the parent goes on, since the first SIGALRM ends its `sleep(1)`. A signal already pending
is not queued again.

**Preemption** runs `k_get_console_chars` and `k_receive_message` statement by statement on
the linked lists of `MsgEnvQueue.c`, with `kbd_i_proc` landing between any two statements.
Both end in `k_log_event`, three statements on the ring of **TraceBuffer**, which the
handler logs into as well. TraceBuffer has no state: it says what one call does to a ring and
which rows the do-while of `k_get_trace_buffer` prints.

**Interrupts** runs `k_i_proc_interrupt` and `k_i_proc_return` statement by statement on a
stack of handlers.

**Apps** extends Kernel: the code of A, B, C, the clock and the CCI decides which of Kernel's
primitives is next, with the local variables that decision depends on, and `crt.c` is two
steps that return what is printed. `pc` is where a process is in its loop, `env` the envelope
variable it works with, `msgQueue` C's own queue, `data` the count in a report. A history,
`awaited`, is the count that C must see next. The handlers run at any time between two primitives: a line
may come, and a delay end, whatever the console and the processes are doing, as no code waits
for anything before it lets a second pass. Three more histories say what went wrong:
`crossed`, a text was overwritten or two SIGUSR2 became one; `late`, a second of the clock
was over while the clock was not waiting, or while its last text was not confirmed and the
console still busy (the negation of `OnTime`, which is no guard); and
`resent`, the clock has sent an envelope it does not have, from which moment
a list is cut and the model goes no further (`Derailed`).

**Lifecycle** has the program from `main` to `exit`, one or two system calls a step, run
after run: the two files in the directory, which outlive a run and make the next one refuse to
start; the pids, which are 0 until `fork` has returned in the parent, so that
`kill` reaches the whole process group; a child that is a copy of the RTX, handlers and
all, until it is executed; failing `open`, `ftruncate`, `fork`, `execl` and `mmap`;
control-C, the command `t`, a SIGSEGV, a SIGKILL, a line that comes while the pages
are gone.

**KernelProofs**, **SchedulerProofs**, **TimerProofs**, **PreemptionProofs** (with
TraceBuffer's), **InterruptsProofs**, **ChildProofs** (the console and the end of the program, where
the child processes are) and **AppsProofs** hold the proofs. The first four rest on the facts about
queues in **QueueLemmas**, and AppsProofs on KernelProofs. Modules named `MC...` give the constants values.

## The runs

| run | what it shows | bounds |
|---|---|---|
| `kernel` | the invariants of Kernel, dispatching by priority, EnvelopeOwnership implemented | 3 clients, two of one priority; 2 envelopes; symmetry on both |
| `scheduler` | lists well formed, asserts, FifoScheduler implemented, a ready process runs | 3 clients and the null process, 3 commands |
| `priority_change` | the assert of `processQ.c:67` fails | the CCI and A, B, C; one command |
| `timer` | order, no delay early or much too late, every delay ends before the clock stops | 3 envelopes, delays of 0 and 1 s, clock stops at 16 |
| `console` | acknowledgements, whole lines, delivery | two printing processes, one reading |
| `shared_console` | an ack for a text never displayed | the same |
| `primitives` | queues FIFO and complete, no lost wakeup, the trace shows the last events in order, with signals between primitives | 3 envelopes, rings of 3 |
| `signals_in_primitives` | a lost wakeup, with signals anywhere | 3 envelopes, rings of 3 |
| `interrupts` | the interrupted process is current again and the assert holds, unless a signal landed while `PREV_PROCESS` was in use | 4 nested activations, all that can be |
| `nested_interrupts` | the assert of `procPQ.c:97` fails | 2 nested activations |
| `apps` | reports in order, neither CCI nor clock starved, the flood drains, never three delays, the clock prints what it does not have only after an overwritten text or a second over too soon | the five programs and the null process, 6 envelopes, one report in 3 printed, counts modulo 3 |
| `lifecycle` | cleanup complete, files as a lock, a failed `execl` ends everything | none: one run after the other, without end |

Why the bounds are enough. Two envelopes and three clients let two processes wait for an
envelope while the third holds, returns or receives one, and let an i-process hold one of a
process that is itself blocked. In `scheduler`, queues reach three processes, so one moves
from the head, the middle or the end. Three envelopes in `timer` are one more than
the program times at once (C and the clock, one each), and the third is what the null pointer
needs (that the programs never get there is `TwoDelaysAtMost` of `apps`). `FloatLimit` stands for 2^24; it is large enough for a whole delay to end before
it and for others to be asked for too late. Interrupts has at most one activation per signal and
the call, which is four. A ring of three is
filled, turned and read with its head at each place. In `apps` three envelopes are the CCI's and two the
clock's; the sixth and the one that starts A are two reports, enough to have one in C's
hands or its own queue and one in a mailbox or with A, and to run the pool dry while C waits.
C prints for one report in 3 rather than in 20, and counts are kept modulo 3 (`COUNT_LIMIT`,
more than there are reports). A seventh envelope makes 2.3 million states, too many for
`FloodDrains` in the time a run has. So C's own queue never holds two reports in the run; that the order
holds for any pool and any period is the theorem `ReportsStayInOrder`, and `TwoDelaysAtMost` and
`ResentOnlyIfUnconfirmed` have theorems of the same generality.

Deadlock is checked in `kernel`, `scheduler`, `apps` and `lifecycle`; in `apps` this also
shows that no process ever meets a message its code has no use for. It is not checked in `timer`
and `interrupts`, where the program ends at its crash or failed assert, nor in `console`
and `primitives`, where all processes of the model may wait for ever while the null process,
which has no step there, goes on.

### What the violations show

* `priority_change` (`processQ.c:99`): `proc_q_remove` unlinks the last process of a longer
  queue and leaves `tail` on it. The next process enqueued is linked behind the one
  that left; the command `n` of the CCI is enough.
* `shared_console` (`iProcs.c:56`): the text of a second print overwrites the first before
  `crt.c` has read it. The one SIGUSR2 acknowledges the first sender, whose text never
  appeared, and the second waits for ever. C takes the ack for an "output confirmation".
* `signals_in_primitives` (`kernal.c:130`): a handler that sends between the test of
  `k_receive_message` and the state assignment of the switch wakes nobody.
* `nested_interrupts` (`kernal.c:171`): one global cannot save two interrupted
  processes; an i-process stays current and `release_processor` asserts.

The passing runs say under which conditions the parts do what they should. Four name the causes
above: `turns` (`AckMeansDisplayedInTurn`, `OutputConfirmed`), `SpecKeepingTails`,
`SpecUninterrupted` and `disturbed`. The others are:

* `unseen` (`rtx_init.c:179`): a `crt.c` that starts after the first print resets its flag, and
  that output is never confirmed (`OutputConfirmed`);
* `asked` (`iProcs.c:81`): a line that comes before the CCI has asked for one leaves
  `keyboard.c` spinning for ever (`AskedLineDelivered` is of the others);
* `ClockReaches` (`globals.c:23`): a delay that ends after the float clock has stopped never
  ends (`DelaysEnd`);
* `crossed`: that a report is printed while the CCI or the clock prints is all it takes for C to lose
  its acknowledgement and for A, with the pool dry, to wait for ever (`FloodDrains`), and for the
  clock to send an envelope that is not its own (`ResentOnlyIfUnconfirmed`);
* `late` (`clock_proc.c:56`): with a `crt.c` that is slow or blocked the clock sends its envelope
  again although no text was overwritten before (`ResentOnlyIfUnconfirmed`). The senders of Console
  do not include the clock, which does not wait for its acknowledgement;
* `[]<>Settled`: if lines and seconds follow each other so fast that the CCI and the clock never come to
  rest, C, of lower priority, need not run again (`FloodDrains`).

## Fairness

Safety needs none. `ReadyEventuallyRuns` assumes that the running process gives up the
processor again and again: each loop of the six processes blocks or calls
`release_processor`. `DelaysEnd` assumes that the alarm keeps coming and its
handler goes on: the handler arms the next alarm (`iProcs.c:143`). Console assumes that the
operating system runs all three Unix processes (weak fairness for the children and for a
call in progress) and delivers each pending signal even if the process is inside another
handler or call again and again (strong fairness for the handlers). Nobody is assumed to type,
to print or to ask.

`FloodDrains` assumes of Apps that the RTX and `crt.c` run, that a pending SIGUSR2 is delivered
and that C's three seconds end; not that anybody types, nor that a second of the clock
passes. Lines and seconds may come at any rate, and each gives the processor to the CCI or the
clock, which outrank the others; so the property is of executions in which these two are both
waiting again and again (`[]<>Settled`), as they are when their work takes milliseconds of a second. `FailedExecEndsAll` assumes that the RTX and each child make their next system call and
get their signals; not that anybody starts, stops or kills the program.

## The proofs

`KernelProofs` proves, for any finite sets of clients and envelopes and any number of
priority levels:

* `TypeCorrect`, `NoEnvelopeLost`, `SchedulerCorrect`, `ServiceCorrect`, `WakeupsNotLost`,
  `SwitchSucceeds`: the invariants `TypeOK`, `EnvelopesConserved`, `SchedulerConsistent`,
  `ServiceRequestsValid`, `NoLostWakeup`, `SwitchFindsProcess`;
* `EnvelopesNotStranded`: the invariant `NoStrandedEnvelope`;
* `DispatchCorrect`: the action property `DispatchByPriority`;
* `OwnershipImplemented`: the refinement of EnvelopeOwnership, `ImplementsOwnership`.

The assumptions are those of `Kernel`: the pids and queues are distinct
(`PidsDistinct`), the priorities are levels and the null process has the lowest
(`PrioritiesValid`, `globals.c:46`), the tables are finite (`FiniteTables`).

The argument is one inductive invariant, `KernelInv`: the five invariants above and
`ProcessRoles`, which says that i-processes have no state a sender would act upon and that the
null process is never blocked. None is inductive alone.
That a switch finds a process needs the null process on a ready queue, hence
`SchedulerConsistent` and `ProcessRoles`. That `SchedulerConsistent` survives a send needs that
an i-process is never taken for a blocked receiver. That a handler's send keeps
`EnvelopesConserved` needs `ServiceRequestsValid`, or the envelope would go to a pid that
`pid_to_pcb` refuses and be lost. That a receiver who blocks has no message is
`NoLostWakeup`, which survives because a send wakes a blocked receiver in the same step: in
this module's grain, what `atomic()` was for. `QueueLemmas` has the facts about injective
sequences the proof rests on.

`NoStrandedEnvelope` needs one more part, `RequestersWait`: only a process inside
`k_request_msg_env` is blocked on an envelope. Each release wakes one such process, so those
woken (`Woken`) are as many as the free envelopes allow, and a woken process takes an envelope or
is still inside the call. For the refinement, `OwnersKnown` says that an envelope's owner
can be told from any place it is found in, which is `EnvelopesConserved` and
`ServiceRequestsValid` read the other way; then each action changes the owner of at most one
envelope, by one of the six transfers, and the console's and the timer's handlers by those that end
a service.

`SchedulerProofs` proves, for any finite set of clients and any number of priority levels
(`SchedulerConstants`), of `SpecKeepingTails`: `SchedulerTypes`, `NoAssertFails` and `ListsSound`,
of `TypeOK`, `AssertsHold` and `ListsWellFormed`, and `FifoImplemented`, the refinement of
FifoScheduler. The code has pointers only, so the invariant says that there are sequences `g`
behind them (`Sound`): each list is a chain from `head` to `tail` through its sequence, no
process is on two (`Whole`), and each is on the queue that its state and its priority
say (`Filed`). With it come: the running process is the one that is `EXECUTING`, and the null process
is always ready or running, so that a switch finds somebody. What `enqueue`, `dequeue` and `remove`
do to a chain are lemmas about pointers; each action then is a step on `g`, and a walk
along a list reads what FifoScheduler has for it (`Readable`). That a process is in one sequence only is what
makes an assignment to its `next` harmless to all other lists. The excluded case, the removal of the
last of several, is where `tail` would no longer be the end of the chain.

`TimerProofs` proves, for any finite set of envelopes, any delays and any limit of the clock
(`TimerConstants`): `TimerTypeCorrect`, `QueueSorted`, `NoDelayEndsEarly` and
`NoDelayEndsLate`, of `TypeOK`, `Sorted`, `NotEarly` and `NeverLate`. The inductive invariant `TimerInv`
adds `DeadlinesKept`: a request still carries the delay asked for and was made no later than
now, and a queued deadline is no earlier than what was asked for. That is what `NotEarly`
needs of the head, the one envelope `check_timeout_q` looks at; `Sorted` needs only that a
deadline in use never changes, because an envelope is never in both queues. `PlaceIsRight`
says where `timeout_q_insert` stops, by the least-number principle (`LeastElement`).

`NeverLate` has an argument of its own, since one envelope at most is served a tick.
`PunctualInv` says that a request waits for one tick at most and is queued with a deadline no later than that
(`DeadlinesClose`), and that, of the envelopes that are due, the one in place `i` has been due for so
short a time that `i` further ticks are within the bound (`Punctual`): each tick takes the
head and moves the others up one place. An envelope that falls due does so with all before it
due already, because the queue is sorted, and its place is at most the number of envelopes, because none is
queued twice (`InjectiveFits`).

`ChildProofs` proves, for any set of printing processes with one reader (`ConsoleUsers`):
`ConsoleTypes`, `SignalsHaveEnvelopes`, `LinesWhole`, `AcksInTurn` and `LinesLostOnlyAtBoot`, of
`TypeOK`, `SignalHasEnvelope`, `LineWhole`, `AckMeansDisplayedInTurn` and `LineLostOnlyAtBoot`. The
invariant `ConsoleInv` follows both handshakes across the three Unix processes. For the signals
it counts what is on its way (`SignalsToCome`): the signal pending, the one `crt.c` will send
for the text it is about, the one for a flag it has yet to see, and the one for a flag yet to be set.
They are at most as many as the envelopes on `DISPLAYQ`, and merging signals or flags only
makes them fewer. For the lines, `LinePublished` says that a text is whole from its last character to
the reset of the flag, and that only the reset by `init_mmaps` or the delivery resets it. As long as
printing processes take turns there is one text at most, which is copied before its envelope is queued
(`InTurn`); that is what makes an acknowledgement mean that its text was displayed.

`InterruptsProofs` proves, for any clients and any depth of nesting (`ProcessTable`):
`InterruptsTypeCorrect` and `CurrentIsRestored`, of `TypeOK` and `CurrentRestored`. The inductive invariant says that, as long as no
signal has landed while `PREV_PROCESS` was in use, every handler below the top was
interrupted before it saved or after it restored. So all handlers save the same process, the
running one, and the one global is enough.

`PreemptionProofs` proves, for any finite set of envelopes (`EnvelopeTable`) and of
`SpecUninterrupted`: `ListsAreFifo`, of `QueuesAreFifo`, and `WakeupsKept`, of `NoLostWakeup`. Between
primitives each list is linked through exactly what was put in and not yet taken out. Inside one
the invariant `MailInv` says at each statement of `enqueue` and `dequeue` how the half-changed
list relates to that history: linked but the tail not moved, the head moved but the envelope
not yet unlinked (`KbLinked`, `ProcLinked`); and each envelope is in one place (`OnePlace`).
A process that has passed the test of `k_receive_message` still has an empty mailbox when it blocks
(`BlockedEmpty`), which is what a signal between the two statements destroys.

The same module proves, for any size of the ring and any set of envelopes: `LogAppends`, that
`k_log_event` appends an event and drops the oldest one of a full ring, and
`TraceShowsLastEvents`, of `TraceIsRecent`. Both rest on what the ring shows, `Content`:
`count` places from `head` on, and all of it is what the do-while prints unless the
ring is empty (`RowsAreContent`). Arithmetic modulo a constant is beyond the prover; a sum
of two places goes round at most once, so `Wrap` replaces it by a subtraction. The
inductive invariant `TraceInv` says what is true between the statements of `k_log_event`:
with the entry written and not yet counted in, the ring no longer holds the oldest event.
It does not hold when a handler logs between them, and the theorem is of `SpecUninterrupted`.

`ChildProofs` also proves, of Lifecycle, `CleanupIsComplete` and `FilesAreTheLock`, of `NothingLeftBehind` and
`FilesGuardTheRun`. Lifecycle has no constants; what the proof adds to the run is the argument:
from the moment `cleanup` has sent its signals, every child is dead, interrupted or itself in
`cleanup` (`CleanedUp`), and no new one can appear, because `die` never returns into
`init_mmaps`; a file is there from its `open` on, and a copy that is about to remove one has
interrupted the RTX before (`Protected`).

`AppsProofs` proves, for any pool of five envelopes or more, any period of the printing and of
the count that the pool does not wrap around (`PoolAndCount`) and the priorities of the five
processes (`ProcessTable`): `ReportsStayInOrder`, `CommandsAreServed`,
`ClockErrsOnlyIfUnconfirmed` and `DelaysAreTwo`, of `ReportsInOrder`, `CommandsNeverStarve`,
`ResentOnlyIfUnconfirmed` and `TwoDelaysAtMost`.
First comes `AppsAreClients`: a step of a program, of `crt.c` or of a handler is a step of
Kernel, so that `KernelInv` and all of Kernel's theorems hold of the programs too. Each primitive
is then summed up by what it takes, gives or switches (`Takes`, `Gives`, `Switches`, `Returns`), and
each program by the queues it takes from and gives to (`Works`, `Shows`). The inductive
invariant `AppInv` adds to `KernelInv` what only the programs ensure:

* `StartInv`, for `CommandsNeverStarve`. The clock and the CCI request envelopes only when they
  start. Until the clock has its two nobody else runs, until the CCI has its three nobody sends to A, and
  so the free queue is still as long as both need (`Wanted`); hence the five.
* `ConsoleInv` and `ClockInv`, for `ResentOnlyIfUnconfirmed`. As long as no text was
  overwritten, `DISPLAYQ` holds the text on the shared page and the one whose signal is pending, no
  more. The clock has two envelopes: the one that times the seconds is in one place
  (`ClockTimers`), and the other is with the clock, on display, or in its mailbox. When a second
  ends with the console idle, `DISPLAYQ` is empty; and the clock, which was waiting (`OnTime`), has read
  the acknowledgement that came before its wakeup. A second that ends otherwise sets `late`.
* `DelayInv`, for `TwoDelaysAtMost`. C's delay is with the timer or a wakeup in C's mailbox, in one
  place and only while C waits for it (`CTimers`): nobody but the timer sends C a wakeup, for what B
  passes on are reports. With `ClockTimers` that leaves one delay for each of the two.
* `Hands` and `Chain`, for `ReportsInOrder`. From place to place on the way to C (`msgQueue`, C's
  mailbox, B's hands, B's mailbox) the count goes on where the place before left it (`Run`); it
  begins with the count C awaits and ends with the one A has come to. A step moves an envelope
  from the front of one place to the end of the next, which keeps the chain, and what goes
  elsewhere is no report (`NotInTransit`, `Senders`: neither A nor B ever asks an i-process for
  anything, so that none returns them one). `ChainIsOrder` reads the order off the chain: between two reports
  the count stays (`CountStays`).

Only model-checked: all liveness properties (`ReadyEventuallyRuns`, `DelaysEnd`,
`OutputConfirmed`, `AskedLineDelivered`, `FloodDrains`, `FailedExecEndsAll`), since liveness and
`ENABLED` are out of the prover's reach; and the absence of deadlock, which is an `ENABLED` as well.
The four violations are, by nature, TLC's.

## Not modelled

* Text: what a command line parses to, the hour that `ct` shows, the tables that the process
  status and the trace are printed as, and how long they get (two full traces come close to
  the 1000 bytes of an envelope). The commands are in the model by what they do: `s`, `cd`,
  `ct` and those that print in Apps, `n` in Scheduler, `t` in Lifecycle.
* The setting of the clock to a value (`setClock`), which changes a text and nothing else, and the process
  status report, which changes nothing.
* Messages that no process sends: C and the clock have code for them, and Apps shows that they
  never get any.
* The clock after it has sent an envelope that it does not have: the queue it cuts is no
  queue any more.
* The freeing of queues and tables in `cleanup`, and a timer tick that meets freed memory there.
  Files and children have been dealt with by then.
* Two instances of the program at once: while the first runs, the second ends at `open`. Other
  processes of the user, which `kill(-1, SIGINT)` reaches after a failed `fork`.
* That `exit(0)` in `init_mmaps` leaves files is in Lifecycle, but nothing in the
  repository says it should not, so no property forbids it.
* Debug printing, which is compiled to nothing.

## Plan

1. Done: Kernel, EnvelopeOwnership, Scheduler, FifoScheduler, TimerQueue, Console,
   Preemption, Interrupts; the proofs of Kernel, TimerQueue and Interrupts.
2. Done: TraceBuffer, within Preemption; Apps; Lifecycle; the proofs of the trace and of
   Lifecycle; the refinement of EnvelopeOwnership with three clients.
3. Done: the proofs of Scheduler, of Console and of the envelope queues of Preemption; of
   `NeverLate`, of `NoStrandedEnvelope` and of the refinements of EnvelopeOwnership and of FifoScheduler.
4. Done: the proofs of Apps, from the invariant of Kernel, whose steps its steps are.
