------------------------------- MODULE Console -------------------------------
(***************************************************************************)
(* The console: the RTX process and its two children, crt.c and            *)
(* keyboard.c, which run concurrently with it.  Each child shares a page   *)
(* with the RTX (an ok_flag and a text) and tells it of an event with a    *)
(* signal; a signal that is already pending is not queued a second time.   *)
(*                                                                         *)
(* The RTX is one thread: it runs a process, or k_send_console_chars with  *)
(* crt_i_proc(0) called from it, or a handler.  Handlers interrupt it      *)
(* between two primitives (see Interrupts for the rest).  A text is named  *)
(* after its sender, whose one envelope carries it; a copy of a text is    *)
(* one step.                                                               *)
(*                                                                         *)
(* The clock process prints too, and does not wait for its envelope        *)
(* (clock_proc.c:56): it is left out here.                                 *)
(***************************************************************************)
EXTENDS Naturals, Sequences

CONSTANTS
  Senders,   \* the processes that print and wait: the CCI and process C
  Cci,       \* the sender that also reads lines
  NoSender

ASSUME ConsoleUsers == Cci \in Senders /\ NoSender \notin Senders

VARIABLES
  rtx,        \* what the RTX process is doing
  sender,     \* who is inside send_console_chars
  DISPLAYQ,   \* the envelopes handed to the CRT, by sender
  crt_mem,    \* IN_MEM_P_CRT
  crt,        \* where crt.c is in its loop
  SIGUSR2,    \* pending for the RTX
  waiting,    \* the senders whose envelope has not come back
  displayed,  \* the senders whose last text has been printed (history)
  turns,      \* so far nobody printed before the last output was confirmed (history)
  unseen,     \* crt.c has reset a flag set before it had started (history)
  kb_mem,     \* IN_MEM_P_KEY
  keyboard,   \* where keyboard.c is in its loop
  SIGUSR1,    \* pending for the RTX
  asked,      \* the CCI's envelope is in the keyboard i-process's queue
  received,   \* what the CCI last got
  line        \* what became of the line typed last (history)

rtxVars == <<rtx, sender>>
crtVars == <<DISPLAYQ, crt_mem, crt, SIGUSR2, waiting, displayed, turns, unseen>>
kbVars  == <<kb_mem, keyboard, SIGUSR1, asked, received, line>>
vars    == <<rtxVars, crtVars, kbVars>>

TypeOK ==
  /\ rtx \in {"booting", "running", "copying", "queueing", "flagging", "kbd_i_proc"}
  /\ sender \in Senders \cup {NoSender}
  /\ DISPLAYQ \in Seq(Senders)
  /\ crt_mem \in [ok_flag : {"WAITING_TO_BE_WRITTEN", "OKAY_DISPLAY"},
                  outdata : Senders \cup {NoSender}]
  /\ crt \in {"starting", "polling", "printing", "clearing", "signalling"}
  /\ waiting \subseteq Senders /\ displayed \subseteq Senders
  /\ kb_mem \in [ok_flag : {"OKAY_TO_WRITE", "DONE_WRITING"}, indata : {"partial", "whole"}]
  /\ keyboard \in {"starting", "typing", "publishing", "signalling", "spinning"}
  /\ received \in {"nothing", "partial", "whole"}
  /\ line \in {"none", "early", "typed", "delivered"}
  /\ SIGUSR1 \in BOOLEAN /\ SIGUSR2 \in BOOLEAN /\ asked \in BOOLEAN
  /\ turns \in BOOLEAN /\ unseen \in BOOLEAN

-----------------------------------------------------------------------------
(* The children have been forked.  The sleep that is to give them time to start ends with
   the first SIGALRM, so they may still be starting when the parent goes on. *)
Init ==
  /\ rtx = "booting" /\ sender = NoSender
  /\ DISPLAYQ = <<>>
  /\ crt_mem = [ok_flag |-> "WAITING_TO_BE_WRITTEN", outdata |-> NoSender]
  /\ crt = "starting" /\ SIGUSR2 = FALSE
  /\ waiting = {} /\ displayed = {}
  /\ turns = TRUE /\ unseen = FALSE
  /\ kb_mem = [ok_flag |-> "OKAY_TO_WRITE", indata |-> "partial"]
  /\ keyboard = "starting" /\ SIGUSR1 = FALSE
  /\ asked = FALSE /\ received = "nothing" /\ line = "none"

(* The end of init_mmaps: the parent sets both flags to 0. *)
init_mmaps ==
  /\ rtx = "booting" /\ rtx' = "running"
  /\ kb_mem' = [kb_mem EXCEPT !.ok_flag = "OKAY_TO_WRITE"]
  /\ crt_mem' = [crt_mem EXCEPT !.ok_flag = "WAITING_TO_BE_WRITTEN"]
  /\ UNCHANGED <<sender, DISPLAYQ, crt, SIGUSR2, waiting, displayed, turns, unseen,
                 keyboard, SIGUSR1, asked, received, line>>

-----------------------------------------------------------------------------
(* Output. *)

(* A process that holds its envelope again, and does not wait for a line, calls
   send_console_chars. *)
SendConsoleChars(s) ==
  /\ rtx = "running" /\ s \notin waiting /\ (s = Cci => ~ asked)
  /\ rtx' = "copying" /\ sender' = s
  /\ waiting' = waiting \cup {s}
  /\ displayed' = displayed \ {s}
  /\ turns' = (turns /\ waiting = {})
  /\ UNCHANGED <<DISPLAYQ, crt_mem, crt, SIGUSR2, unseen, kbVars>>

(* crt_i_proc(0), in three steps that crt.c may interleave with: the text, ... *)
CopyText ==
  /\ rtx = "copying" /\ rtx' = "queueing"
  /\ crt_mem' = [crt_mem EXCEPT !.outdata = sender]
  /\ UNCHANGED <<sender, DISPLAYQ, crt, SIGUSR2, waiting, displayed, turns, unseen, kbVars>>

(* Mutant: the envelope does not say who sent it. *)
QueueEnvelope_Anonymous ==
  /\ rtx = "queueing" /\ rtx' = "flagging"
  /\ DISPLAYQ' = Append(DISPLAYQ, NoSender)
  /\ UNCHANGED <<sender, crt_mem, crt, SIGUSR2, waiting, displayed, turns, unseen, kbVars>>

(* ... the envelope, ... *)
QueueEnvelope ==
  /\ rtx = "queueing" /\ rtx' = "flagging"
  /\ DISPLAYQ' = Append(DISPLAYQ, sender)
  /\ UNCHANGED <<sender, crt_mem, crt, SIGUSR2, waiting, displayed, turns, unseen, kbVars>>

(* ... and the flag. *)
SetDisplayFlag ==
  /\ rtx = "flagging" /\ rtx' = "running"
  /\ sender' = NoSender
  /\ crt_mem' = [crt_mem EXCEPT !.ok_flag = "OKAY_DISPLAY"]
  /\ UNCHANGED <<DISPLAYQ, crt, SIGUSR2, waiting, displayed, turns, unseen, kbVars>>

(* crt.c has mapped its page: it resets the flag, ... *)
CrtStarts ==
  /\ crt = "starting" /\ crt' = "polling"
  /\ crt_mem' = [crt_mem EXCEPT !.ok_flag = "WAITING_TO_BE_WRITTEN"]
  /\ unseen' = (crt_mem.ok_flag = "OKAY_DISPLAY")
  /\ UNCHANGED <<rtxVars, DISPLAYQ, SIGUSR2, waiting, displayed, turns, kbVars>>

(* ... and goes on to its loop. *)
CrtPolls ==
  /\ crt = "polling" /\ crt_mem.ok_flag = "OKAY_DISPLAY"
  /\ crt' = "printing"
  /\ UNCHANGED <<rtxVars, DISPLAYQ, crt_mem, SIGUSR2, waiting, displayed, turns, unseen, kbVars>>

(* Mutant: the parent is signalled already when the text is about to be printed. *)
CrtPrints_SignalFirst ==
  /\ crt = "printing"
  /\ crt' = "clearing"
  /\ SIGUSR2' = TRUE
  /\ UNCHANGED <<rtxVars, DISPLAYQ, crt_mem, waiting, displayed, turns, unseen, kbVars>>

CrtPrints ==
  /\ crt = "printing"
  /\ crt' = "clearing"
  /\ displayed' = displayed \cup ({crt_mem.outdata} \ {NoSender})
  /\ UNCHANGED <<rtxVars, DISPLAYQ, crt_mem, SIGUSR2, waiting, turns, unseen, kbVars>>

(* Mutant: the loop restarts before the flag is cleared and the signal sent. *)
CrtClears_Restarts ==
  /\ crt = "clearing"
  /\ crt' = "polling"
  /\ UNCHANGED <<rtxVars, DISPLAYQ, crt_mem, SIGUSR2, waiting, displayed, turns, unseen, kbVars>>

CrtClears ==
  /\ crt = "clearing"
  /\ crt' = "signalling"
  /\ crt_mem' = [crt_mem EXCEPT !.ok_flag = "WAITING_TO_BE_WRITTEN"]
  /\ UNCHANGED <<rtxVars, DISPLAYQ, SIGUSR2, waiting, displayed, turns, unseen, kbVars>>

CrtSignals ==
  /\ crt = "signalling"
  /\ crt' = "polling"
  /\ SIGUSR2' = TRUE
  /\ UNCHANGED <<rtxVars, DISPLAYQ, crt_mem, waiting, displayed, turns, unseen, kbVars>>

(* The handlers interrupt a process, or the busy loop of kbd_i_proc. *)
Interruptible == rtx \in {"booting", "running", "kbd_i_proc"}

(* SIGUSR2: crt_i_proc returns the first envelope of DISPLAYQ to its sender. *)
crt_i_proc ==
  /\ Interruptible /\ SIGUSR2
  /\ SIGUSR2' = FALSE
  /\ IF DISPLAYQ = <<>> THEN UNCHANGED <<DISPLAYQ, waiting>>
     ELSE /\ DISPLAYQ' = Tail(DISPLAYQ)
          /\ waiting' = waiting \ {Head(DISPLAYQ)}
  /\ UNCHANGED <<rtxVars, crt_mem, crt, displayed, turns, unseen, kbVars>>

-----------------------------------------------------------------------------
(* Input. *)

(* The CCI, its last output confirmed, asks for a line: get_console_chars. *)
GetConsoleChars ==
  /\ rtx = "running" /\ ~ asked /\ Cci \notin waiting
  /\ asked' = TRUE /\ received' = "nothing"
  /\ UNCHANGED <<rtxVars, crtVars, kb_mem, keyboard, SIGUSR1, line>>

(* keyboard.c has mapped its page. *)
KeyboardStarts ==
  /\ keyboard = "starting" /\ keyboard' = "typing"
  /\ kb_mem' = [kb_mem EXCEPT !.ok_flag = "OKAY_TO_WRITE"]
  /\ UNCHANGED <<rtxVars, crtVars, SIGUSR1, asked, received, line>>

(* keyboard.c at the end of a line: the text is terminated, ... *)
LineTyped ==
  /\ keyboard = "typing" /\ keyboard' = "publishing"
  /\ kb_mem' = [kb_mem EXCEPT !.indata = "whole"]
  /\ line' = IF rtx = "booting" THEN "early" ELSE "typed"
  /\ UNCHANGED <<rtxVars, crtVars, SIGUSR1, asked, received>>

(* ... the flag is set, ... *)
SetDoneFlag ==
  /\ keyboard = "publishing" /\ keyboard' = "signalling"
  /\ kb_mem' = [kb_mem EXCEPT !.ok_flag = "DONE_WRITING"]
  /\ UNCHANGED <<rtxVars, crtVars, SIGUSR1, asked, received, line>>

(* Mutant: the wrong signal. *)
KeyboardSignals_USR2 ==
  /\ keyboard = "signalling" /\ keyboard' = "spinning"
  /\ SIGUSR2' = TRUE
  /\ UNCHANGED <<rtxVars, DISPLAYQ, crt_mem, crt, waiting, displayed, turns, unseen,
                 kb_mem, SIGUSR1, asked, received, line>>

(* ... and the parent is signalled. *)
KeyboardSignals ==
  /\ keyboard = "signalling" /\ keyboard' = "spinning"
  /\ SIGUSR1' = TRUE
  /\ UNCHANGED <<rtxVars, crtVars, kb_mem, asked, received, line>>

(* Mutant: the next line is read whether or not this one was taken. *)
KeyboardGoesOn_Unasked ==
  /\ keyboard = "spinning" /\ keyboard' = "typing"
  /\ kb_mem' = [kb_mem EXCEPT !.indata = "partial"]
  /\ UNCHANGED <<rtxVars, crtVars, SIGUSR1, asked, received, line>>

(* It reads on when the flag has changed; the next characters overwrite the line. *)
KeyboardGoesOn ==
  /\ keyboard = "spinning" /\ kb_mem.ok_flag # "DONE_WRITING"
  /\ keyboard' = "typing"
  /\ kb_mem' = [kb_mem EXCEPT !.indata = "partial"]
  /\ UNCHANGED <<rtxVars, crtVars, SIGUSR1, asked, received, line>>

(* Mutant: the flag is given back without a request as well. *)
kbd_i_proc_Unasked_GivesBack ==
  /\ rtx \in {"booting", "running"} /\ SIGUSR1 /\ ~ asked
  /\ SIGUSR1' = FALSE
  /\ kb_mem' = [kb_mem EXCEPT !.ok_flag = "OKAY_TO_WRITE"]
  /\ UNCHANGED <<rtxVars, crtVars, keyboard, asked, received, line>>

(* SIGUSR1 with no request queued: kbd_i_proc returns and leaves the flag as it is. *)
kbd_i_proc_Unasked ==
  /\ rtx \in {"booting", "running"} /\ SIGUSR1 /\ ~ asked
  /\ SIGUSR1' = FALSE
  /\ UNCHANGED <<rtxVars, crtVars, kb_mem, keyboard, asked, received, line>>

(* SIGUSR1 with a request: the handler loops until the flag says the line is there. *)
kbd_i_proc ==
  /\ rtx = "running" /\ SIGUSR1 /\ asked
  /\ SIGUSR1' = FALSE
  /\ rtx' = "kbd_i_proc"
  /\ UNCHANGED <<sender, crtVars, kb_mem, keyboard, asked, received, line>>

TakeLine ==
  /\ rtx = "kbd_i_proc" /\ kb_mem.ok_flag # "OKAY_TO_WRITE"
  /\ rtx' = "running"
  /\ received' = kb_mem.indata
  /\ kb_mem' = [kb_mem EXCEPT !.ok_flag = "OKAY_TO_WRITE"]
  /\ asked' = FALSE
  /\ line' = "delivered"
  /\ UNCHANGED <<sender, crtVars, keyboard, SIGUSR1>>

-----------------------------------------------------------------------------
Sending  == CopyText \/ QueueEnvelope \/ SetDisplayFlag
CrtChild == CrtStarts \/ CrtPolls \/ CrtPrints \/ CrtClears \/ CrtSignals
KbChild  == KeyboardStarts \/ SetDoneFlag \/ KeyboardSignals \/ KeyboardGoesOn
Input    == kbd_i_proc \/ kbd_i_proc_Unasked \/ TakeLine

Next ==
  \/ init_mmaps
  \/ \E s \in Senders : SendConsoleChars(s)
  \/ CopyText \/ QueueEnvelope \/ SetDisplayFlag
  \/ CrtStarts \/ CrtPolls \/ CrtPrints \/ CrtClears \/ CrtSignals
  \/ crt_i_proc
  \/ GetConsoleChars
  \/ KeyboardStarts \/ LineTyped \/ SetDoneFlag \/ KeyboardSignals \/ KeyboardGoesOn
  \/ kbd_i_proc_Unasked \/ kbd_i_proc \/ TakeLine

(* The operating system runs all three processes and delivers every pending signal, again
   and again whatever else the RTX does; nobody need type, print or ask. *)
Spec ==
  /\ Init /\ [][Next]_vars
  /\ WF_vars(Sending) /\ WF_vars(CrtChild) /\ WF_vars(KbChild)
  /\ SF_vars(crt_i_proc) /\ SF_vars(Input)
-----------------------------------------------------------------------------
(* Properties. *)

(* A SIGUSR2 finds an envelope on DISPLAYQ.  Otherwise crt_i_proc would warn and return
   without k_i_proc_return (iProcs.c:36), which leaves an i-process current. *)
SignalHasEnvelope == SIGUSR2 => DISPLAYQ # <<>>

(* A DISPLAY_ACK confirms output (procABC.c:96): when the envelope is back, the text it
   carried has been printed. *)
AckMeansDisplayed ==
  [][\A s \in waiting \ waiting' : s \in displayed]_vars

(* It does while the processes take turns: the CCI alone prints until process A is started
   and C gets a report. *)
AckMeansDisplayedInTurn ==
  [][turns => \A s \in waiting \ waiting' : s \in displayed]_vars

(* Whoever prints gets the envelope back, or cci_print (cci.c:14) and process C
   (procABC.c:97) would wait for ever: while they take turns, and if crt.c had started
   before the first of them printed. *)
OutputConfirmed == \A s \in Senders : s \in waiting ~> (s \notin waiting \/ ~ turns \/ unseen)

(* The CCI never gets a line the keyboard process is still writing. *)
LineWhole == received # "partial"

(* The keyboard process drops a line undelivered only if it was typed before init_mmaps of
   the parent reset the flag (rtx_init.c:199). *)
LineLostOnlyAtBoot ==
  [][keyboard = "spinning" /\ keyboard' = "typing" => line \in {"delivered", "early"}]_vars

(* A line is delivered if the CCI had asked for one when it was signalled.  If it had not,
   kbd_i_proc ignores the signal and nothing ever changes the flag that keyboard.c:80
   spins on. *)
AskedLineDelivered ==
  (keyboard = "signalling" /\ kb_mem.ok_flag = "DONE_WRITING" /\ rtx # "booting" /\ asked)
    ~> (line = "delivered" /\ ~ asked)
=============================================================================
