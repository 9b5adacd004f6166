----------------------------- MODULE ChildProofs -----------------------------
(***************************************************************************)
(* Proofs about the RTX and its two children: what they exchange over the  *)
(* shared pages (Console), for any set of printing processes, and what is  *)
(* left of them at the end (Lifecycle).                                    *)
(***************************************************************************)
EXTENDS Console, Lifecycle, SequenceTheorems, TLAPS

(* send_console_chars runs for a process that waits, outside it for none. *)
SenderWaits ==
  /\ rtx \in {"copying", "queueing", "flagging"} => sender \in waiting
  /\ rtx \notin {"copying", "queueing", "flagging"} => sender = NoSender

(* A line is whole from its last character to the reset of the flag, and only the reset by
   init_mmaps and the delivery change the flag. *)
LinePublished ==
  /\ keyboard \in {"publishing", "signalling", "spinning"} => kb_mem.indata = "whole"
  /\ kb_mem.ok_flag = "DONE_WRITING" => keyboard \in {"signalling", "spinning"}
  /\ keyboard \in {"signalling", "spinning"} /\ kb_mem.ok_flag = "OKAY_TO_WRITE"
       => line \in {"delivered", "early"}
  /\ rtx = "booting" /\ keyboard \in {"publishing", "signalling", "spinning"} => line = "early"

(* The signals on their way to the RTX: one that is pending, one that crt.c will send for
   the text it is about, one that it will send for a flag it has yet to see, and one for a
   flag yet to be set.  Flags and signals that come together merge. *)
One(b) == IF b THEN 1 ELSE 0

SignalsToCome ==
  One(SIGUSR2)
  + One(crt \in {"printing", "clearing", "signalling"})
  + One(crt_mem.ok_flag = "OKAY_DISPLAY" /\ crt \in {"starting", "polling", "signalling"})
  + One(rtx = "flagging")

(* Each has an envelope on DISPLAYQ. *)
SignalsBacked == SignalsToCome <= Len(DISPLAYQ)

(* While the processes take turns there is one text at most: copied before its envelope is
   queued, and printed before a signal is sent for it. *)
InTurn ==
  /\ DISPLAYQ = <<>> \/ \E s \in Senders : DISPLAYQ = <<s>> /\ waiting = {s}
  /\ rtx \in {"copying", "queueing"} => DISPLAYQ = <<>> /\ waiting = {sender}
  /\ rtx \notin {"copying", "queueing"} /\ DISPLAYQ = <<>> => waiting = {}
  /\ rtx = "queueing" => crt_mem.outdata = sender
  /\ DISPLAYQ # <<>> => crt_mem.outdata = Head(DISPLAYQ)
  /\ SIGUSR2 \/ crt \in {"clearing", "signalling"} => Head(DISPLAYQ) \in displayed

(* The inductive invariant. *)
ConsoleInv ==
  /\ TypeOK
  /\ SenderWaits
  /\ LinePublished
  /\ LineWhole
  /\ SignalsBacked
  /\ turns => InTurn

-----------------------------------------------------------------------------
(* Types, and who is inside send_console_chars. *)

LEMMA NextTypes ==
  ASSUME TypeOK, SenderWaits, [Next]_vars
  PROVE  TypeOK' /\ SenderWaits'
<1> USE ConsoleUsers DEF TypeOK, SenderWaits
<1>1. CASE init_mmaps
  BY <1>1 DEF init_mmaps
<1>2. ASSUME NEW s \in Senders, SendConsoleChars(s)
      PROVE  TypeOK' /\ SenderWaits'
  BY <1>2 DEF SendConsoleChars, kbVars
<1>3. CASE CopyText
  BY <1>3 DEF CopyText, kbVars
<1>4. CASE QueueEnvelope
  <2>1. DISPLAYQ' = Append(DISPLAYQ, sender) /\ sender \in Senders
    BY <1>4 DEF QueueEnvelope
  <2>2. DISPLAYQ' \in Seq(Senders)
    BY <2>1, AppendProperties
  <2> QED BY <1>4, <2>2 DEF QueueEnvelope, kbVars
<1>5. CASE SetDisplayFlag
  BY <1>5 DEF SetDisplayFlag, kbVars
<1>6. CASE CrtStarts
  BY <1>6 DEF CrtStarts, rtxVars, kbVars
<1>7. CASE CrtPolls
  BY <1>7 DEF CrtPolls, rtxVars, kbVars
<1>8. CASE CrtPrints
  BY <1>8 DEF CrtPrints, rtxVars, kbVars
<1>9. CASE CrtClears
  BY <1>9 DEF CrtClears, rtxVars, kbVars
<1>10. CASE CrtSignals
  BY <1>10 DEF CrtSignals, rtxVars, kbVars
<1>11. CASE crt_i_proc
  <2>1. DISPLAYQ' \in Seq(Senders) /\ waiting' \subseteq Senders
    <3>1. CASE DISPLAYQ = <<>>
      BY <1>11, <3>1 DEF crt_i_proc
    <3>2. CASE DISPLAYQ # <<>>
      <4>1. Tail(DISPLAYQ) \in Seq(Senders)
        BY <3>2, HeadTailProperties
      <4> QED BY <1>11, <3>2, <4>1 DEF crt_i_proc
    <3> QED BY <3>1, <3>2
  <2>2. /\ SIGUSR2' \in BOOLEAN
        /\ UNCHANGED <<rtx, sender, crt_mem, crt, displayed, turns, unseen,
                      kb_mem, keyboard, SIGUSR1, asked, received, line>>
    BY <1>11 DEF crt_i_proc, rtxVars, kbVars
  <2>3. rtx \notin {"copying", "queueing", "flagging"}
    BY <1>11 DEF crt_i_proc, Interruptible
  <2> QED BY <2>1, <2>2, <2>3
<1>12. CASE GetConsoleChars
  BY <1>12 DEF GetConsoleChars, rtxVars, crtVars
<1>13. CASE KeyboardStarts
  BY <1>13 DEF KeyboardStarts, rtxVars, crtVars
<1>14. CASE LineTyped
  BY <1>14 DEF LineTyped, rtxVars, crtVars
<1>15. CASE SetDoneFlag
  BY <1>15 DEF SetDoneFlag, rtxVars, crtVars
<1>16. CASE KeyboardSignals
  BY <1>16 DEF KeyboardSignals, rtxVars, crtVars
<1>17. CASE KeyboardGoesOn
  BY <1>17 DEF KeyboardGoesOn, rtxVars, crtVars
<1>18. CASE kbd_i_proc_Unasked
  <2>1. /\ SIGUSR1' \in BOOLEAN
        /\ UNCHANGED <<rtx, sender, DISPLAYQ, crt_mem, crt, SIGUSR2, waiting, displayed, turns,
                      unseen, kb_mem, keyboard, asked, received, line>>
    BY <1>18 DEF kbd_i_proc_Unasked, rtxVars, crtVars
  <2> QED BY <2>1
<1>19. CASE kbd_i_proc
  <2>1. /\ rtx = "running" /\ rtx' = "kbd_i_proc" /\ SIGUSR1' \in BOOLEAN
        /\ UNCHANGED <<sender, DISPLAYQ, crt_mem, crt, SIGUSR2, waiting, displayed, turns,
                      unseen, kb_mem, keyboard, asked, received, line>>
    BY <1>19 DEF kbd_i_proc, crtVars
  <2> QED BY <2>1
<1>20. CASE TakeLine
  <2>1. /\ rtx = "kbd_i_proc" /\ rtx' = "running" /\ asked' \in BOOLEAN
        /\ received' = kb_mem.indata /\ line' = "delivered"
        /\ kb_mem' = [kb_mem EXCEPT !.ok_flag = "OKAY_TO_WRITE"]
        /\ UNCHANGED <<sender, DISPLAYQ, crt_mem, crt, SIGUSR2, waiting, displayed, turns,
                      unseen, keyboard, SIGUSR1>>
    BY <1>20 DEF TakeLine, crtVars
  <2> QED BY <2>1
<1>21. CASE UNCHANGED vars
  BY <1>21 DEF vars, rtxVars, crtVars, kbVars
<1> QED
  BY <1>1, <1>2, <1>3, <1>4, <1>5, <1>6, <1>7, <1>8, <1>9, <1>10, <1>11, <1>12, <1>13,
     <1>14, <1>15, <1>16, <1>17, <1>18, <1>19, <1>20, <1>21 DEF Next

-----------------------------------------------------------------------------
(* Input. *)

LineInv == LinePublished /\ LineWhole

LEMMA NextLineInv ==
  ASSUME TypeOK, LineInv, [Next]_vars
  PROVE  LineInv'
<1> USE DEF TypeOK, LineInv, LinePublished, LineWhole
<1>1. CASE UNCHANGED <<kb_mem, keyboard, line, received>> /\ (rtx' = "booting" => rtx = "booting")
  BY <1>1
<1>2. CASE init_mmaps
  BY <1>2 DEF init_mmaps
<1>3. ASSUME NEW s \in Senders, SendConsoleChars(s) PROVE LineInv'
  BY <1>1, <1>3 DEF SendConsoleChars, kbVars
<1>4. CASE CopyText \/ QueueEnvelope \/ SetDisplayFlag
  BY <1>1, <1>4 DEF CopyText, QueueEnvelope, SetDisplayFlag, kbVars
<1>5. CASE CrtStarts \/ CrtPolls \/ CrtPrints \/ CrtClears \/ CrtSignals
  BY <1>1, <1>5 DEF CrtStarts, CrtPolls, CrtPrints, CrtClears, CrtSignals, rtxVars, kbVars
<1>6. CASE crt_i_proc \/ kbd_i_proc_Unasked \/ kbd_i_proc
  BY <1>1, <1>6 DEF crt_i_proc, kbd_i_proc_Unasked, kbd_i_proc, rtxVars, kbVars
<1>7. CASE GetConsoleChars
  BY <1>7 DEF GetConsoleChars, rtxVars
<1>8. CASE KeyboardStarts
  BY <1>8 DEF KeyboardStarts, rtxVars
<1>9. CASE LineTyped
  BY <1>9 DEF LineTyped, rtxVars
<1>10. CASE SetDoneFlag
  BY <1>10 DEF SetDoneFlag, rtxVars
<1>11. CASE KeyboardSignals
  BY <1>11 DEF KeyboardSignals, rtxVars
<1>12. CASE KeyboardGoesOn
  BY <1>12 DEF KeyboardGoesOn, rtxVars
<1>13. CASE TakeLine
  BY <1>13 DEF TakeLine
<1>14. CASE UNCHANGED vars
  BY <1>1, <1>14 DEF vars, rtxVars, kbVars
<1> QED
  BY <1>2, <1>3, <1>4, <1>5, <1>6, <1>7, <1>8, <1>9, <1>10, <1>11, <1>12, <1>13, <1>14 DEF Next

-----------------------------------------------------------------------------
(* Output. *)

LEMMA NextSignalsBacked ==
  ASSUME TypeOK, SignalsBacked, [Next]_vars
  PROVE  SignalsBacked'
<1> USE DEF SignalsBacked, SignalsToCome, One
<1>1. /\ DISPLAYQ \in Seq(Senders) /\ Len(DISPLAYQ) \in Nat /\ SIGUSR2 \in BOOLEAN
      /\ crt_mem \in [ok_flag : {"WAITING_TO_BE_WRITTEN", "OKAY_DISPLAY"},
                      outdata : Senders \cup {NoSender}]
  BY LenProperties DEF TypeOK
<1>2. CASE UNCHANGED <<DISPLAYQ, crt, SIGUSR2>> /\ crt_mem'.ok_flag = crt_mem.ok_flag
             /\ (rtx' = "flagging" => rtx = "flagging")
  BY <1>1, <1>2
<1>3. CASE init_mmaps
  BY <1>1, <1>3 DEF init_mmaps
<1>4. ASSUME NEW s \in Senders, SendConsoleChars(s) PROVE SignalsBacked'
  BY <1>2, <1>4 DEF SendConsoleChars
<1>5. CASE CopyText
  BY <1>1, <1>2, <1>5 DEF CopyText
<1>6. CASE QueueEnvelope
  BY <1>1, <1>6 DEF QueueEnvelope
<1>7. CASE SetDisplayFlag
  BY <1>1, <1>7 DEF SetDisplayFlag
<1>8. CASE CrtStarts
  BY <1>1, <1>8 DEF CrtStarts, rtxVars
<1>9. CASE CrtPolls
  BY <1>1, <1>9 DEF CrtPolls, rtxVars
<1>10. CASE CrtPrints
  BY <1>1, <1>10 DEF CrtPrints, rtxVars
<1>11. CASE CrtClears
  BY <1>1, <1>11 DEF CrtClears, rtxVars
<1>12. CASE CrtSignals
  BY <1>1, <1>12 DEF CrtSignals, rtxVars
<1>13. CASE crt_i_proc
  BY <1>1, <1>13 DEF crt_i_proc, rtxVars
<1>14. CASE \/ GetConsoleChars \/ kbd_i_proc_Unasked \/ kbd_i_proc \/ TakeLine
            \/ KeyboardStarts \/ LineTyped \/ SetDoneFlag \/ KeyboardSignals \/ KeyboardGoesOn
  BY <1>2, <1>14 DEF GetConsoleChars, kbd_i_proc_Unasked, kbd_i_proc, TakeLine, KeyboardStarts,
     LineTyped, SetDoneFlag, KeyboardSignals, KeyboardGoesOn, rtxVars, crtVars
<1>15. CASE UNCHANGED vars
  BY <1>2, <1>15 DEF vars, rtxVars, crtVars
<1> QED
  BY <1>3, <1>4, <1>5, <1>6, <1>7, <1>8, <1>9, <1>10, <1>11, <1>12, <1>13, <1>14, <1>15 DEF Next

(* A signal, or one to come, has an envelope; two have two. *)
LEMMA SignalFacts ==
  ASSUME TypeOK, SignalsBacked
  PROVE  /\ SIGUSR2 => DISPLAYQ # <<>>
         /\ crt \in {"printing", "clearing", "signalling"} => DISPLAYQ # <<>>
         /\ SIGUSR2 /\ crt \in {"printing", "clearing", "signalling"} => Tail(DISPLAYQ) # <<>>
         /\ crt \in {"polling"} /\ crt_mem.ok_flag = "OKAY_DISPLAY" => DISPLAYQ # <<>>
<1>1. DISPLAYQ \in Seq(Senders) /\ Len(DISPLAYQ) \in Nat
  BY LenProperties DEF TypeOK
<1>2. DISPLAYQ = <<>> => Len(DISPLAYQ) = 0
  BY EmptySeq
<1>3. Len(DISPLAYQ) > 1 => Tail(DISPLAYQ) # <<>>
  <2>1. Len(DISPLAYQ) > 1 => Len(Tail(DISPLAYQ)) = Len(DISPLAYQ) - 1
    BY <1>1, <1>2, HeadTailProperties
  <2>2. Tail(DISPLAYQ) = <<>> => Len(Tail(DISPLAYQ)) = 0
    BY EmptySeq
  <2> QED BY <2>1, <2>2, <1>1, SMTT(30)
<1> QED BY <1>1, <1>2, <1>3 DEF SignalsBacked, SignalsToCome, One

LEMMA NextInTurn ==
  ASSUME ConsoleInv, [Next]_vars, turns'
  PROVE  InTurn'
<1> USE ConsoleUsers DEF InTurn
<1>1. /\ TypeOK /\ SenderWaits /\ SignalsBacked /\ (turns => InTurn)
      /\ DISPLAYQ \in Seq(Senders) /\ waiting \subseteq Senders
      /\ crt_mem \in [ok_flag : {"WAITING_TO_BE_WRITTEN", "OKAY_DISPLAY"},
                      outdata : Senders \cup {NoSender}]
  BY DEF ConsoleInv, TypeOK
<1>2. CASE /\ UNCHANGED <<DISPLAYQ, waiting, displayed, turns, SIGUSR2, crt>>
           /\ crt_mem'.outdata = crt_mem.outdata
           /\ rtx' = rtx /\ sender' = sender
  BY <1>1, <1>2
<1>3. CASE /\ UNCHANGED <<DISPLAYQ, waiting, displayed, turns, SIGUSR2, crt>>
           /\ crt_mem'.outdata = crt_mem.outdata
           /\ rtx \notin {"copying", "queueing"} /\ rtx' \notin {"copying", "queueing"}
  BY <1>1, <1>3
<1>4. ASSUME NEW s \in Senders, SendConsoleChars(s) PROVE InTurn'
  <2>1. /\ turns /\ waiting = {} /\ waiting' = {s} /\ sender' = s
        /\ rtx' = "copying" /\ UNCHANGED <<DISPLAYQ, crt_mem, crt, SIGUSR2>>
    BY <1>4 DEF SendConsoleChars
  <2>2. DISPLAYQ = <<>>
    BY <1>1, <2>1
  <2>3. ~ SIGUSR2 /\ crt \notin {"clearing", "signalling"}
    BY <1>1, <2>2, SignalFacts
  <2> QED BY <2>1, <2>2, <2>3
<1>5. CASE CopyText
  <2>1. /\ turns /\ rtx = "copying" /\ rtx' = "queueing" /\ sender' = sender
        /\ crt_mem'.outdata = sender
        /\ UNCHANGED <<DISPLAYQ, waiting, crt, SIGUSR2, displayed>>
    BY <1>1, <1>5 DEF CopyText
  <2> QED BY <1>1, <2>1
<1>6. CASE QueueEnvelope
  <2>1. /\ turns /\ rtx = "queueing" /\ rtx' = "flagging" /\ sender' = sender
        /\ DISPLAYQ' = Append(DISPLAYQ, sender)
        /\ UNCHANGED <<crt_mem, waiting, crt, SIGUSR2, displayed>>
    BY <1>6 DEF QueueEnvelope
  <2>2. DISPLAYQ = <<>> /\ waiting = {sender} /\ sender \in Senders
    BY <1>1, <2>1
  <2>3. DISPLAYQ' = <<sender>>
    BY <2>1, <2>2
  <2>4. ~ SIGUSR2 /\ crt \notin {"clearing", "signalling"}
    BY <1>1, <2>2, SignalFacts
  <2>5. DISPLAYQ' # <<>> /\ Head(DISPLAYQ') = sender /\ crt_mem'.outdata = sender
    BY <1>1, <2>1, <2>3
  <2> QED BY <2>1, <2>2, <2>3, <2>4, <2>5
<1>7. CASE CrtPrints
  <2>1. /\ turns /\ crt = "printing"
        /\ displayed' = displayed \cup ({crt_mem.outdata} \ {NoSender})
        /\ UNCHANGED <<rtx, sender, DISPLAYQ, crt_mem, waiting>>
    BY <1>7 DEF CrtPrints, rtxVars
  <2>2. DISPLAYQ # <<>> /\ crt_mem.outdata = Head(DISPLAYQ)
    BY <1>1, <2>1, SignalFacts
  <2>3. Head(DISPLAYQ) \in Senders
    BY <1>1, <2>2, HeadTailProperties
  <2> QED BY <1>1, <2>1, <2>2, <2>3
<1>8. CASE CrtStarts \/ CrtPolls
  <2>1. /\ turns /\ crt' \notin {"clearing", "signalling"}
        /\ crt_mem'.outdata = crt_mem.outdata
        /\ UNCHANGED <<rtx, sender, DISPLAYQ, waiting, SIGUSR2, displayed>>
    BY <1>1, <1>8 DEF CrtStarts, CrtPolls, rtxVars
  <2> QED BY <1>1, <2>1
<1>9. CASE CrtClears
  <2>1. /\ turns /\ crt = "clearing" /\ crt_mem'.outdata = crt_mem.outdata
        /\ UNCHANGED <<rtx, sender, DISPLAYQ, waiting, SIGUSR2, displayed>>
    BY <1>1, <1>9 DEF CrtClears, rtxVars
  <2> QED BY <1>1, <2>1
<1>10. CASE CrtSignals
  <2>1. /\ turns /\ crt = "signalling"
        /\ UNCHANGED <<rtx, sender, DISPLAYQ, crt_mem, waiting, displayed>>
    BY <1>1, <1>10 DEF CrtSignals, rtxVars
  <2> QED BY <1>1, <2>1
<1>11. CASE crt_i_proc
  <2>1. /\ turns /\ rtx \notin {"copying", "queueing"} /\ SIGUSR2 /\ ~ SIGUSR2'
        /\ UNCHANGED <<rtx, sender, crt_mem, crt, displayed>>
    BY <1>11 DEF crt_i_proc, Interruptible, rtxVars
  <2>2. DISPLAYQ # <<>>
    BY <1>1, <2>1, SignalFacts
  <2>3. PICK s \in Senders : DISPLAYQ = <<s>> /\ waiting = {s}
    BY <1>1, <2>1, <2>2
  <2>4. DISPLAYQ' = Tail(DISPLAYQ) /\ waiting' = waiting \ {Head(DISPLAYQ)}
    BY <1>11, <2>2 DEF crt_i_proc
  <2>5. Tail(DISPLAYQ) = <<>> /\ waiting' = {}
    BY <2>3, <2>4
  <2>6. crt \notin {"clearing", "signalling"}
    BY <1>1, <2>1, <2>5, SignalFacts
  <2> QED BY <2>1, <2>4, <2>5, <2>6
<1>12. CASE init_mmaps \/ SetDisplayFlag
  BY <1>1, <1>3, <1>12 DEF init_mmaps, SetDisplayFlag
<1>13. CASE kbd_i_proc \/ TakeLine
  BY <1>1, <1>3, <1>13 DEF kbd_i_proc, TakeLine, crtVars
<1>14. CASE \/ GetConsoleChars \/ kbd_i_proc_Unasked
            \/ KeyboardStarts \/ LineTyped \/ SetDoneFlag \/ KeyboardSignals \/ KeyboardGoesOn
  BY <1>2, <1>14 DEF GetConsoleChars, kbd_i_proc_Unasked, KeyboardStarts,
     LineTyped, SetDoneFlag, KeyboardSignals, KeyboardGoesOn, rtxVars, crtVars
<1>15. CASE UNCHANGED vars
  BY <1>2, <1>15 DEF vars, rtxVars, crtVars
<1> QED
  BY <1>4, <1>5, <1>6, <1>7, <1>8, <1>9, <1>10, <1>11, <1>12, <1>13, <1>14, <1>15 DEF Next

-----------------------------------------------------------------------------
(* The theorems. *)

LEMMA InitConsoleInv == Init => ConsoleInv
<1> SUFFICES ASSUME Init PROVE ConsoleInv
  OBVIOUS
<1>1. TypeOK
  <2>1. /\ SIGUSR1 \in BOOLEAN /\ SIGUSR2 \in BOOLEAN /\ asked \in BOOLEAN
        /\ turns \in BOOLEAN /\ unseen \in BOOLEAN
    BY DEF Init
  <2>2. /\ rtx = "booting" /\ sender = NoSender /\ DISPLAYQ \in Seq(Senders)
        /\ crt_mem = [ok_flag |-> "WAITING_TO_BE_WRITTEN", outdata |-> NoSender]
        /\ crt = "starting" /\ waiting = {} /\ displayed = {}
        /\ kb_mem = [ok_flag |-> "OKAY_TO_WRITE", indata |-> "partial"]
        /\ keyboard = "starting" /\ received = "nothing" /\ line = "none"
    BY EmptySeq DEF Init
  <2> QED BY <2>1, <2>2 DEF TypeOK
<1>2. SenderWaits /\ LinePublished /\ LineWhole
  BY DEF Init, SenderWaits, LinePublished, LineWhole
<1>3. SignalsBacked
  <2>1. Len(DISPLAYQ) = 0
    BY DEF Init
  <2>2. SignalsToCome = 0
    BY DEF Init, SignalsToCome, One
  <2> QED BY <2>1, <2>2 DEF SignalsBacked
<1>4. InTurn
  BY DEF Init, InTurn
<1> QED BY <1>1, <1>2, <1>3, <1>4 DEF ConsoleInv

LEMMA NextConsoleInv == ConsoleInv /\ [Next]_vars => ConsoleInv'
<1> SUFFICES ASSUME ConsoleInv, [Next]_vars PROVE ConsoleInv'
  OBVIOUS
<1>1. TypeOK' /\ SenderWaits'
  BY NextTypes DEF ConsoleInv
<1>2. LinePublished' /\ LineWhole'
  BY NextLineInv DEF ConsoleInv, LineInv
<1>3. SignalsBacked'
  BY NextSignalsBacked DEF ConsoleInv
<1>4. turns' => InTurn'
  BY NextInTurn
<1> QED BY <1>1, <1>2, <1>3, <1>4 DEF ConsoleInv

(* The invariant holds of every reachable state of the console. *)
THEOREM ConsoleInvariance == Spec => []ConsoleInv
<1>1. Init => ConsoleInv
  BY InitConsoleInv
<1>2. ConsoleInv /\ [Next]_vars => ConsoleInv'
  BY NextConsoleInv
<1> QED BY <1>1, <1>2, PTL DEF Spec

(* Every variable keeps its type: only a process is ever on DISPLAYQ. *)
THEOREM ConsoleTypes == Spec => []TypeOK
<1>1. ConsoleInv => TypeOK
  BY DEF ConsoleInv
<1> QED BY <1>1, ConsoleInvariance, PTL

(* However flags and signals merge, a SIGUSR2 of crt.c never finds DISPLAYQ empty (iProcs.c:34). *)
THEOREM SignalsHaveEnvelopes == Spec => []SignalHasEnvelope
<1>1. ConsoleInv => SignalHasEnvelope
  BY SignalFacts DEF ConsoleInv, SignalHasEnvelope
<1> QED BY <1>1, ConsoleInvariance, PTL

(* kbd_i_proc never copies a line that keyboard.c is still writing. *)
THEOREM LinesWhole == Spec => []LineWhole
<1>1. ConsoleInv => LineWhole
  BY DEF ConsoleInv
<1> QED BY <1>1, ConsoleInvariance, PTL

(* While the processes take turns, an envelope comes back after its text was printed. *)
THEOREM AcksInTurn == Spec => AckMeansDisplayedInTurn
<1> DEFINE A == turns => \A s \in waiting \ waiting' : s \in displayed
<1>1. ConsoleInv /\ [Next]_vars => [A]_vars
  <2>1. SUFFICES ASSUME ConsoleInv, Next, turns, NEW s \in waiting \ waiting'
                 PROVE  s \in displayed
    BY DEF vars
  <2>2. crt_i_proc
    BY <2>1 DEF Next, init_mmaps, SendConsoleChars, CopyText, QueueEnvelope, SetDisplayFlag,
       CrtStarts, CrtPolls, CrtPrints, CrtClears, CrtSignals, GetConsoleChars, KeyboardStarts,
       LineTyped, SetDoneFlag, KeyboardSignals, KeyboardGoesOn, kbd_i_proc_Unasked, kbd_i_proc,
       TakeLine, crtVars
  <2>3. s = Head(DISPLAYQ)
    BY <2>1, <2>2 DEF crt_i_proc
  <2>4. Head(DISPLAYQ) \in displayed
    BY <2>1, <2>2 DEF crt_i_proc, ConsoleInv, InTurn
  <2> QED BY <2>3, <2>4
<1>2. [][A]_vars => AckMeansDisplayedInTurn
  BY PTL DEF AckMeansDisplayedInTurn
<1> QED BY <1>1, <1>2, ConsoleInvariance, PTL DEF Spec

(* keyboard.c goes on after a line that was delivered, or that was typed before init_mmaps
   of the parent reset its flag. *)
THEOREM LinesLostOnlyAtBoot == Spec => LineLostOnlyAtBoot
<1> DEFINE A == keyboard = "spinning" /\ keyboard' = "typing" => line \in {"delivered", "early"}
<1>1. ConsoleInv /\ [Next]_vars => [A]_vars
  <2>1. SUFFICES ASSUME ConsoleInv, Next, keyboard = "spinning", keyboard' = "typing"
                 PROVE  line \in {"delivered", "early"}
    BY DEF vars
  <2>2. KeyboardGoesOn
    BY <2>1 DEF Next, init_mmaps, SendConsoleChars, CopyText, QueueEnvelope, SetDisplayFlag,
       CrtStarts, CrtPolls, CrtPrints, CrtClears, CrtSignals, GetConsoleChars, KeyboardStarts,
       LineTyped, SetDoneFlag, KeyboardSignals, kbd_i_proc_Unasked, kbd_i_proc, TakeLine,
       crt_i_proc, kbVars
  <2>3. kb_mem.ok_flag = "OKAY_TO_WRITE"
    BY <2>1, <2>2 DEF KeyboardGoesOn, ConsoleInv, TypeOK
  <2> QED BY <2>1, <2>3 DEF ConsoleInv, LinePublished
<1>2. [][A]_vars => LineLostOnlyAtBoot
  BY PTL DEF LineLostOnlyAtBoot
<1> QED BY <1>1, <1>2, ConsoleInvariance, PTL DEF Spec
-----------------------------------------------------------------------------
(* Lifecycle. *)

Opening == {"open_keyboard", "open_crt"}

(* Where the files must exist as long as nobody has interrupted the RTX. *)
Guarded == (Booting \ Opening) \cup {"running"}

LifeTypes ==
  /\ pc \in Booting \cup {"off", "running", "kill", "unlink_keyboard", "unlink_crt"}
  /\ children \in [Children -> {"none", "copy", "running", "dead"} \cup CopyDies]
  /\ IN_PID \subseteq Children /\ SIGINT \subseteq Children \cup {"rtx"}
  /\ faulted \in BOOLEAN
  /\ files \subseteq Files
  /\ life \in {"none", "booting", "running", "exit", "cleanup", "killed"}

(* Every child is dead or about to die. *)
Doomed == \A c \in Alive : c \in SIGINT \/ children[c] \in CopyDies

(* What cleanup has done so far. *)
CleanedUp ==
  /\ life = "cleanup" => pc = "off" /\ files = {}
  /\ pc = "unlink_crt" => "keyboardBuffer" \notin files
  /\ pc \in {"unlink_keyboard", "unlink_crt"} \/ life = "cleanup" => Doomed

(* A file is there from the moment it is opened, and a child removes one only when it has
   interrupted the RTX. *)
Protected ==
  /\ pc \in Opening => \A c \in Children : children[c] = "none"
  /\ pc = "open_crt" => "keyboardBuffer" \in files
  /\ pc \in Guarded /\ "rtx" \notin SIGINT =>
       /\ files = Files
       /\ \A c \in Children : children[c] \notin {"unlink_keyboard", "unlink_crt"}

LifeInv == LifeTypes /\ CleanedUp /\ Protected

USE DEF Opening, Guarded, Booting, Children, Files, CopyDies, Alive, At, Goto, Ends, Continues,
        Child, HandlersInstalled, LifeTypes

LEMMA InitLifeInv == LifeInit => LifeInv
  BY DEF LifeInit, LifeInv, CleanedUp, Doomed, Protected

LEMMA StepLifeInv == LifeInv /\ [LifeNext]_lifeVars => LifeInv'
<1> SUFFICES ASSUME LifeInv, [LifeNext]_lifeVars PROVE LifeInv'
  OBVIOUS
<1> USE DEF LifeInv
<1>1. CASE main
  BY <1>1 DEF main, CleanedUp, Doomed, Protected
<1>2. CASE OpenFile("open_keyboard", "keyboardBuffer", "open_crt")
  BY <1>2 DEF OpenFile, CleanedUp, Doomed, Protected
<1>3. CASE OpenFile("open_crt", "crtBuffer", "fork_keyboard")
  BY <1>3, ZenonT(60) DEF OpenFile, CleanedUp, Doomed, Protected
<1>4. CASE ftruncate_fails
  BY <1>4 DEF ftruncate_fails, CleanedUp, Doomed, Protected
<1>5. ASSUME NEW c \in Children, Fork(c) PROVE LifeInv'
  BY <1>5 DEF Fork, CleanedUp, Doomed, Protected
<1>6. ASSUME NEW c \in Children, fork_fails(c) \/ StorePid(c) PROVE LifeInv'
  BY <1>6 DEF fork_fails, StorePid, CleanedUp, Doomed, Protected
<1>7. CASE mmap
  BY <1>7 DEF mmap, CleanedUp, Doomed, Protected
<1>8. ASSUME NEW c \in Children, execl(c) \/ execl_fails(c) PROVE LifeInv'
  <2> USE DEF execl, execl_fails
  <2>1. LifeTypes'
    BY <1>8, ZenonT(60)
  <2>2. Doomed => Doomed'
    BY <1>8 DEF Doomed
  <2>3. CleanedUp'
    BY <1>8, <2>2 DEF CleanedUp
  <2>4. Protected'
    BY <1>8 DEF Protected
  <2> QED
    BY <2>1, <2>3, <2>4
<1>9. ASSUME NEW c \in Children, CopyCleanup(c) PROVE LifeInv'
  <2> USE DEF CopyCleanup, CopyKills
  <2>1. LifeTypes'
    <3>1. children' \in [Children -> {"none", "copy", "running", "dead"} \cup CopyDies]
      BY <1>9
    <3>2. SIGINT' \subseteq Children \cup {"rtx"} /\ files' \subseteq Files
      BY <1>9
    <3> QED
      BY <1>9, <3>1, <3>2
  <2>2. Doomed => Doomed'
    BY <1>9 DEF Doomed
  <2>3. CleanedUp'
    BY <1>9, <2>2 DEF CleanedUp
  <2>4. Protected'
    BY <1>9 DEF Protected
  <2> QED
    BY <2>1, <2>3, <2>4
<1>10. ASSUME NEW c \in Children, ChildInterrupted(c) PROVE LifeInv'
  BY <1>10 DEF ChildInterrupted, CleanedUp, Doomed, Protected
<1>11. CASE die \/ ControlC \/ terminate \/ change_priority_faults
  BY <1>11 DEF die, ControlC, terminate, change_priority_faults, CleanedUp, Doomed, Protected
<1>12. CASE cleanup_kill
  BY <1>12 DEF cleanup_kill, CleanedUp, Doomed, Protected
<1>13. CASE cleanup_unlink
  BY <1>13 DEF cleanup_unlink, CleanedUp, Doomed, Protected
<1>14. CASE kbd_i_proc_faults \/ Killed
  BY <1>14 DEF kbd_i_proc_faults, Killed, CleanedUp, Doomed, Protected
<1>15. ASSUME NEW c \in Children, OrphanKilled(c) PROVE LifeInv'
  BY <1>15 DEF OrphanKilled, CleanedUp, Doomed, Protected
<1>16. CASE UNCHANGED lifeVars
  BY <1>16 DEF lifeVars, CleanedUp, Doomed, Protected
<1> QED
  BY <1>1, <1>2, <1>3, <1>4, <1>5, <1>6, <1>7, <1>8, <1>9, <1>10, <1>11, <1>12, <1>13, <1>14,
     <1>15, <1>16 DEF LifeNext

THEOREM LifecycleInvariance == LifeSpec => []LifeInv
  BY InitLifeInv, StepLifeInv, PTL DEF LifeSpec

(* Whatever brings cleanup about, and wherever: at its end the files are gone and no child
   stays (cleanup.c:5). *)
THEOREM CleanupIsComplete == LifeSpec => []NothingLeftBehind
<1>1. LifeInv => NothingLeftBehind
  BY DEF LifeInv, CleanedUp, Doomed, NothingLeftBehind
<1> QED
  BY <1>1, LifecycleInvariance, PTL

(* The files that O_EXCL refuses exist as long as the RTX runs undisturbed
   (rtx_init.c:109). *)
THEOREM FilesAreTheLock == LifeSpec => []FilesGuardTheRun
<1>1. LifeInv => FilesGuardTheRun
  BY DEF LifeInv, Protected, FilesGuardTheRun
<1> QED
  BY <1>1, LifecycleInvariance, PTL
==============================================================================
