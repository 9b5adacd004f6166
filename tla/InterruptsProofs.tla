--------------------------- MODULE InterruptsProofs ---------------------------
(***************************************************************************)
(* Proofs that the handlers of Interrupts leave CURRENT_PROCESS as they    *)
(* found it, however deep they nest, if no signal lands while PREV_PROCESS *)
(* is in use.                                                              *)
(***************************************************************************)
EXTENDS Interrupts, SequenceTheorems, TLAPS

(* What CURRENT_PROCESS and PREV_PROCESS are at each statement of the handler on top.  A
   handler below it was interrupted before it had saved, or after it had restored, so what
   it saves or has restored is the running process in every case. *)
Undisturbed ==
  /\ \A i \in 1 .. Len(stack) - 1 : stack[i].at \in {"save", "swap"}
  /\ stack = <<>> \/ Last(stack).at \in {"save", "take", "swap"} => CURRENT_PROCESS = running
  /\ stack # <<>> /\ Last(stack).at \in {"body", "keep", "restore"} =>
       CURRENT_PROCESS = Self(Last(stack))
  /\ stack # <<>> /\ Last(stack).at \in InUse => PREV_PROCESS = running

InterruptsInv == TypeOK /\ (~ disturbed => Undisturbed /\ ~ aborted)

-----------------------------------------------------------------------------
(* The activation on top of a stack is a frame, and has the index Len(stack). *)
LEMMA TopFrame ==
  ASSUME stack \in Seq(Frame), stack # <<>>
  PROVE  /\ Len(stack) \in 1 .. Len(stack)
         /\ Last(stack) = stack[Len(stack)]
         /\ Last(stack) \in Frame
BY DEF Last

(* Every handler acts for an i-process. *)
LEMMA SelfIsIProc == ASSUME NEW f \in Frame PROVE Self(f) \in IProcs
<1>1. f.by \in Signals \cup {Call} BY DEF Frame
<1>2. CASE f.by = Call BY <1>2 DEF Self, IProcs
<1>3. CASE f.by \in {"SIGUSR1", "SIGUSR2", "SIGALRM"} /\ f.by # Call
  BY <1>3 DEF Self, IProcs, HandlerOf
<1> QED BY <1>1, <1>2, <1>3 DEF Signals, HandlerOf

(* What becomes of the stack when the activation on top goes on to its next statement. *)
LEMMA AdvanceTop ==
  ASSUME TypeOK, stack # <<>>, NEW place \in Places, Advance(place)
  PROVE  /\ stack' \in Seq(Frame) /\ stack' # <<>> /\ Len(stack') = Len(stack)
         /\ \A i \in 1 .. Len(stack) - 1 : stack'[i] = stack[i]
         /\ Last(stack').at = place /\ Last(stack').by = Last(stack).by
<1> DEFINE n == Len(stack)
           f == [stack[n] EXCEPT !.at = place]
<1>1. n \in 1 .. Len(stack) /\ stack[n] \in Frame /\ n \in Nat
  BY DEF TypeOK
<1>2. f \in Frame /\ f.at = place /\ f.by = stack[n].by
  BY <1>1 DEF Frame
<1>3. stack' = [stack EXCEPT ![n] = f]
  BY DEF Advance
<1> HIDE DEF f
<1>4. stack' \in Seq(Frame) /\ Len(stack') = n /\ stack'[n] = f
  BY <1>1, <1>2, <1>3 DEF TypeOK
<1>5. \A i \in 1 .. n - 1 : stack'[i] = stack[i]
  BY <1>1, <1>3 DEF TypeOK
<1>6. stack' # <<>>
  BY <1>1, <1>4
<1> QED BY <1>1, <1>2, <1>4, <1>5, <1>6 DEF Last

-----------------------------------------------------------------------------
LEMMA InitInterrupts == Init => InterruptsInv
<1> SUFFICES ASSUME Init PROVE InterruptsInv OBVIOUS
<1>1. TypeOK
  <2>1. <<>> \in Seq(Frame) /\ Len(<<>>) <= MaxNesting BY ProcessTable
  <2> QED BY <2>1 DEF Init, TypeOK
<1>2. Undisturbed BY DEF Init, Undisturbed
<1> QED BY <1>1, <1>2 DEF InterruptsInv, Init

(* A new activation: the one below it had not saved yet or had restored, unless the step
   is a disturbance. *)
LEMMA PushStep ==
  ASSUME InterruptsInv, NEW by \in Signals \cup {Call}, Push(by)
  PROVE  InterruptsInv'
<1> DEFINE f == [by |-> by, at |-> "save", temp |-> CRT]
           n == Len(stack)
<1>1. TypeOK BY DEF InterruptsInv
<1>2. f \in Frame /\ f.at = "save" BY DEF Frame, Places, IProcs
<1>3. stack' = Append(stack, f) BY DEF Push
<1> HIDE DEF f
<1>4. /\ stack' \in Seq(Frame) /\ Len(stack') = n + 1 /\ stack'[n + 1] = f
      /\ \A i \in 1 .. n : stack'[i] = stack[i]
      /\ stack' # <<>> /\ n \in Nat
  BY <1>1, <1>2, <1>3 DEF TypeOK
<1>5. Last(stack') = f BY <1>4 DEF Last
<1>6. TypeOK'
  <2>1. Len(stack') <= MaxNesting BY <1>1, <1>4, ProcessTable DEF Push, TypeOK
  <2>2. disturbed' \in BOOLEAN BY DEF Push
  <2> QED BY <1>1, <1>4, <2>1, <2>2 DEF TypeOK, Push
<1>7. ASSUME ~ disturbed' PROVE Undisturbed' /\ ~ aborted'
  <2>1. ~ disturbed /\ (stack = <<>> \/ Last(stack).at \notin InUse)
    BY <1>7, <1>1 DEF Push, TypeOK
  <2>2. Undisturbed BY <2>1 DEF InterruptsInv
  <2>3. stack = <<>> \/ (n \in 1 .. n /\ stack[n] \in Frame /\ Last(stack) = stack[n])
    BY <1>1, TopFrame DEF TypeOK
  <2>4. stack = <<>> \/ stack[n].at \in {"save", "swap"}
    BY <2>1, <2>3 DEF Frame, Places, InUse
  <2>5. CURRENT_PROCESS' = running'
    BY <2>2, <2>3, <2>4 DEF Undisturbed, Push
  <2>6. \A i \in 1 .. Len(stack') - 1 : stack'[i].at \in {"save", "swap"}
    <3> SUFFICES ASSUME NEW i \in 1 .. n PROVE stack[i].at \in {"save", "swap"}
      BY <1>4
    <3>1. CASE i = n BY <3>1, <2>4, <1>4
    <3>2. CASE i \in 1 .. n - 1 BY <3>2, <2>2 DEF Undisturbed
    <3> QED BY <3>1, <3>2, <1>4
  <2>9. ~ aborted' BY <1>7 DEF InterruptsInv, Push
  <2> QED BY <1>2, <1>4, <1>5, <2>5, <2>6, <2>9 DEF Undisturbed, InUse
<1> QED BY <1>6, <1>7 DEF InterruptsInv

(* The statements that move the activation on top keep what lies below it. *)
LEMMA BelowTop ==
  ASSUME TypeOK, Undisturbed, stack' \in Seq(Frame), Len(stack') = Len(stack),
         \A i \in 1 .. Len(stack) - 1 : stack'[i] = stack[i]
  PROVE  \A i \in 1 .. Len(stack') - 1 : stack'[i].at \in {"save", "swap"}
BY DEF Undisturbed

LEMMA SavePreviousStep ==
  ASSUME InterruptsInv, SavePrevious PROVE InterruptsInv'
<1>1. TypeOK /\ stack # <<>> /\ Last(stack).at = "save" /\ "take" \in Places
  BY DEF InterruptsInv, SavePrevious, Top, Places
<1>2. /\ stack' \in Seq(Frame) /\ stack' # <<>> /\ Len(stack') = Len(stack)
      /\ \A i \in 1 .. Len(stack) - 1 : stack'[i] = stack[i]
      /\ Last(stack').at = "take"
  BY <1>1, AdvanceTop DEF SavePrevious
<1>3. TypeOK' BY <1>1, <1>2 DEF TypeOK, SavePrevious
<1>4. ASSUME ~ disturbed' PROVE Undisturbed' /\ ~ aborted'
  <2>1. Undisturbed BY <1>4 DEF InterruptsInv, SavePrevious
  <2>2. CURRENT_PROCESS = running BY <1>1, <2>1 DEF Undisturbed
  <2>3. \A i \in 1 .. Len(stack') - 1 : stack'[i].at \in {"save", "swap"}
    BY <1>1, <1>2, <2>1, BelowTop
  <2>9. ~ aborted' BY <1>4 DEF InterruptsInv, SavePrevious
  <2> QED BY <1>2, <2>2, <2>3, <2>9 DEF Undisturbed, SavePrevious, InUse
<1> QED BY <1>3, <1>4 DEF InterruptsInv

LEMMA TakeOverStep ==
  ASSUME InterruptsInv, TakeOver PROVE InterruptsInv'
<1>1. TypeOK /\ stack # <<>> /\ Last(stack).at = "take" /\ "body" \in Places
  BY DEF InterruptsInv, TakeOver, Top, Places
<1>2. /\ stack' \in Seq(Frame) /\ stack' # <<>> /\ Len(stack') = Len(stack)
      /\ \A i \in 1 .. Len(stack) - 1 : stack'[i] = stack[i]
      /\ Last(stack').at = "body" /\ Last(stack').by = Last(stack).by
  BY <1>1, AdvanceTop DEF TakeOver
<1>3. Self(Last(stack)) \in IProcs
  BY <1>1, TopFrame, SelfIsIProc DEF TypeOK
<1>4. Self(Last(stack')) = Self(Last(stack)) BY <1>2 DEF Self
<1>5. TypeOK' BY <1>1, <1>2, <1>3 DEF TypeOK, TakeOver
<1>6. ASSUME ~ disturbed' PROVE Undisturbed' /\ ~ aborted'
  <2>1. Undisturbed BY <1>6 DEF InterruptsInv, TakeOver
  <2>2. PREV_PROCESS = running BY <1>1, <2>1 DEF Undisturbed, InUse
  <2>3. \A i \in 1 .. Len(stack') - 1 : stack'[i].at \in {"save", "swap"}
    BY <1>1, <1>2, <2>1, BelowTop
  <2>9. ~ aborted' BY <1>6 DEF InterruptsInv, TakeOver
  <2> QED BY <1>2, <1>4, <2>2, <2>3, <2>9 DEF Undisturbed, TakeOver, InUse
<1> QED BY <1>5, <1>6 DEF InterruptsInv

LEMMA BodyStep ==
  ASSUME InterruptsInv, Body PROVE InterruptsInv'
<1>1. TypeOK /\ stack # <<>> /\ Last(stack).at = "body" /\ "keep" \in Places
  BY DEF InterruptsInv, Body, Top, Places
<1>2. /\ stack' \in Seq(Frame) /\ stack' # <<>> /\ Len(stack') = Len(stack)
      /\ \A i \in 1 .. Len(stack) - 1 : stack'[i] = stack[i]
      /\ Last(stack').at = "keep" /\ Last(stack').by = Last(stack).by
  BY <1>1, AdvanceTop DEF Body
<1>3. Self(Last(stack')) = Self(Last(stack)) BY <1>2 DEF Self
<1>4. TypeOK' BY <1>1, <1>2 DEF TypeOK, Body
<1>5. ASSUME ~ disturbed' PROVE Undisturbed' /\ ~ aborted'
  <2>1. Undisturbed BY <1>5 DEF InterruptsInv, Body
  <2>2. PREV_PROCESS = running /\ CURRENT_PROCESS = Self(Last(stack))
    BY <1>1, <2>1 DEF Undisturbed, InUse
  <2>3. \A i \in 1 .. Len(stack') - 1 : stack'[i].at \in {"save", "swap"}
    BY <1>1, <1>2, <2>1, BelowTop
  <2>9. ~ aborted' BY <1>5 DEF InterruptsInv, Body
  <2> QED BY <1>2, <1>3, <2>2, <2>3, <2>9 DEF Undisturbed, Body, InUse
<1> QED BY <1>4, <1>5 DEF InterruptsInv

LEMMA KeepCurrentStep ==
  ASSUME InterruptsInv, KeepCurrent PROVE InterruptsInv'
<1> DEFINE n == Len(stack)
           f == [stack[n] EXCEPT !.at = "restore", !.temp = CURRENT_PROCESS]
<1>1. TypeOK /\ stack # <<>> /\ Last(stack).at = "keep"
  BY DEF InterruptsInv, KeepCurrent, Top
<1>2. n \in 1 .. Len(stack) /\ n \in Nat /\ stack[n] \in Frame /\ Last(stack) = stack[n]
  BY <1>1, TopFrame DEF TypeOK
<1>3. f \in Frame /\ f.at = "restore" /\ f.by = stack[n].by
  BY <1>1, <1>2 DEF Frame, TypeOK, Places
<1>4. stack' = [stack EXCEPT ![n] = f]
  BY <1>1, <1>2 DEF KeepCurrent, TypeOK
<1> HIDE DEF f
<1>5. /\ stack' \in Seq(Frame) /\ Len(stack') = n /\ stack'[n] = f
      /\ \A i \in 1 .. Len(stack) - 1 : stack'[i] = stack[i]
  BY <1>1, <1>2, <1>3, <1>4 DEF TypeOK
<1>6. stack' # <<>> /\ Last(stack') = f BY <1>2, <1>5 DEF Last
<1>7. Self(Last(stack')) = Self(Last(stack)) BY <1>2, <1>3, <1>6 DEF Self
<1>8. TypeOK' BY <1>1, <1>5 DEF TypeOK, KeepCurrent
<1>9. ASSUME ~ disturbed' PROVE Undisturbed' /\ ~ aborted'
  <2>1. Undisturbed BY <1>9 DEF InterruptsInv, KeepCurrent
  <2>2. PREV_PROCESS = running /\ CURRENT_PROCESS = Self(Last(stack))
    BY <1>1, <2>1 DEF Undisturbed, InUse
  <2>3. \A i \in 1 .. Len(stack') - 1 : stack'[i].at \in {"save", "swap"}
    BY <1>1, <1>5, <2>1, BelowTop
  <2>9. ~ aborted' BY <1>9 DEF InterruptsInv, KeepCurrent
  <2> QED BY <1>3, <1>6, <1>7, <2>2, <2>3, <2>9 DEF Undisturbed, KeepCurrent, InUse
<1> QED BY <1>8, <1>9 DEF InterruptsInv

LEMMA RestorePreviousStep ==
  ASSUME InterruptsInv, RestorePrevious PROVE InterruptsInv'
<1>1. TypeOK /\ stack # <<>> /\ Last(stack).at = "restore" /\ "swap" \in Places
  BY DEF InterruptsInv, RestorePrevious, Top, Places
<1>2. /\ stack' \in Seq(Frame) /\ stack' # <<>> /\ Len(stack') = Len(stack)
      /\ \A i \in 1 .. Len(stack) - 1 : stack'[i] = stack[i]
      /\ Last(stack').at = "swap"
  BY <1>1, AdvanceTop DEF RestorePrevious
<1>3. TypeOK' BY <1>1, <1>2 DEF TypeOK, RestorePrevious
<1>4. ASSUME ~ disturbed' PROVE Undisturbed' /\ ~ aborted'
  <2>1. Undisturbed BY <1>4 DEF InterruptsInv, RestorePrevious
  <2>2. PREV_PROCESS = running BY <1>1, <2>1 DEF Undisturbed, InUse
  <2>3. \A i \in 1 .. Len(stack') - 1 : stack'[i].at \in {"save", "swap"}
    BY <1>1, <1>2, <2>1, BelowTop
  <2>9. ~ aborted' BY <1>4 DEF InterruptsInv, RestorePrevious
  <2> QED BY <1>2, <2>2, <2>3, <2>9 DEF Undisturbed, RestorePrevious, InUse
<1> QED BY <1>3, <1>4 DEF InterruptsInv

(* The activation on top ends: the one below it is at a place where CURRENT_PROCESS is the
   running process. *)
LEMMA LeaveStep ==
  ASSUME InterruptsInv, Leave PROVE InterruptsInv'
<1> DEFINE n == Len(stack)
<1>1. TypeOK /\ stack # <<>> /\ Last(stack).at = "swap"
  BY DEF InterruptsInv, Leave, Top
<1>2. n \in 1 .. Len(stack) /\ n \in Nat /\ Last(stack) \in Frame
  BY <1>1, TopFrame DEF TypeOK
<1>3. /\ stack' \in Seq(Frame) /\ Len(stack') = n - 1
      /\ \A i \in 1 .. n - 1 : stack'[i] = stack[i]
  <2>1. stack' = SubSeq(stack, 1, n - 1) BY DEF Leave, Front
  <2>2. \A i \in 1 .. n - 1 : stack[i] \in Frame BY <1>1, <1>2 DEF TypeOK
  <2>3. 1 \in Int /\ n - 1 \in Int BY <1>2
  <2> HIDE DEF n
  <2>4. /\ SubSeq(stack, 1, n - 1) \in Seq(Frame)
        /\ Len(SubSeq(stack, 1, n - 1)) = IF 1 <= n - 1 THEN (n - 1) - 1 + 1 ELSE 0
        /\ \A i \in 1 .. (n - 1) - 1 + 1 : SubSeq(stack, 1, n - 1)[i] = stack[1 + i - 1]
    BY <2>2, <2>3, SubSeqProperties
  <2> QED BY <1>2, <2>1, <2>4
<1>4. PREV_PROCESS' \in UserProcs \cup IProcs
  BY <1>2 DEF Leave, Frame
<1>5. TypeOK'
  <2>1. Len(stack') <= MaxNesting BY <1>1, <1>2, <1>3, ProcessTable DEF TypeOK
  <2> QED BY <1>1, <1>3, <1>4, <2>1 DEF TypeOK, Leave
<1>6. ASSUME ~ disturbed' PROVE Undisturbed' /\ ~ aborted'
  <2>1. Undisturbed BY <1>6 DEF InterruptsInv, Leave
  <2>2. CURRENT_PROCESS' = running' BY <1>1, <2>1 DEF Undisturbed, Leave
  <2>3. \A i \in 1 .. n - 1 : stack'[i].at \in {"save", "swap"}
    BY <1>3, <2>1 DEF Undisturbed
  <2>4. stack' # <<>> => Last(stack').at \in {"save", "swap"}
    <3> SUFFICES ASSUME stack' # <<>> PROVE Last(stack').at \in {"save", "swap"} OBVIOUS
    <3>1. n - 1 \in 1 .. n - 1 BY <1>2, <1>3
    <3> QED BY <3>1, <2>3, <1>3 DEF Last
  <2>5. \A i \in 1 .. Len(stack') - 1 : stack'[i].at \in {"save", "swap"}
    BY <1>2, <1>3, <2>3
  <2>9. ~ aborted' BY <1>6 DEF InterruptsInv, Leave
  <2> QED BY <2>2, <2>4, <2>5, <2>9 DEF Undisturbed, InUse
<1> QED BY <1>5, <1>6 DEF InterruptsInv

LEMMA ReleaseProcessorStep ==
  ASSUME InterruptsInv, ReleaseProcessor PROVE InterruptsInv'
<1>1. TypeOK /\ stack = <<>> /\ stack' = <<>>
  BY DEF InterruptsInv, ReleaseProcessor
<1>2. TypeOK' BY <1>1 DEF TypeOK, ReleaseProcessor
<1>3. ASSUME ~ disturbed' PROVE Undisturbed' /\ ~ aborted'
  <2>1. CURRENT_PROCESS = running
    BY <1>1, <1>3 DEF InterruptsInv, Undisturbed, ReleaseProcessor
  <2>2. CURRENT_PROCESS' = running' BY <2>1 DEF ReleaseProcessor
  <2>9. ~ aborted'
    BY <1>1, <1>3, ProcessTable DEF InterruptsInv, Undisturbed, TypeOK, ReleaseProcessor
  <2> QED BY <1>1, <2>2, <2>9 DEF Undisturbed
<1> QED BY <1>2, <1>3 DEF InterruptsInv

(* InterruptsInv holds in every reachable state. *)
THEOREM InterruptsInvariance == Spec => []InterruptsInv
<1>1. ASSUME InterruptsInv, [Next]_vars PROVE InterruptsInv'
  <2>1. ASSUME NEW s \in Signals, Signal(s) PROVE InterruptsInv'
    BY <1>1, <2>1, PushStep DEF Signal
  <2>2. CASE SendConsoleChars BY <1>1, <2>2, PushStep DEF SendConsoleChars
  <2>3. CASE UNCHANGED vars
    BY <1>1, <2>3 DEF vars, InterruptsInv, TypeOK, Undisturbed
  <2> QED BY <1>1, <2>1, <2>2, <2>3, SavePreviousStep, TakeOverStep, BodyStep,
            KeepCurrentStep, RestorePreviousStep, LeaveStep, ReleaseProcessorStep DEF Next
<1> QED BY InitInterrupts, <1>1, PTL DEF Spec

(* The types of Interrupts, for any nesting of the handlers (kernal.c:166-181). *)
THEOREM InterruptsTypeCorrect == Spec => []TypeOK
<1>1. InterruptsInv => TypeOK BY DEF InterruptsInv
<1> QED BY <1>1, InterruptsInvariance, PTL

(* k_i_proc_return gives the processor's owner back: once every handler has returned, the
   process that runs is CURRENT_PROCESS. *)
THEOREM CurrentIsRestored == Spec => []CurrentRestored
<1>1. InterruptsInv => CurrentRestored BY DEF InterruptsInv, Undisturbed, CurrentRestored
<1> QED BY <1>1, InterruptsInvariance, PTL
=============================================================================
