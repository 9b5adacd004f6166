---------------------------- MODULE FifoScheduler ----------------------------
(***************************************************************************)
(* What the scheduler of the RTX promises: a process that becomes ready    *)
(* waits behind the ready processes of its own priority, and the processor *)
(* goes to the longest waiting process of the best priority.  A process    *)
(* that waits for an envelope waits in line as well.                       *)
(***************************************************************************)
EXTENDS Integers, Sequences, SequencesExt

CONSTANTS Clients, NullProc, NUM_PRIORITY_LEVEL, InitPriority

Priorities == 0 .. NUM_PRIORITY_LEVEL - 1
UserProcs  == Clients \cup {NullProc}

VARIABLES
  ready,    \* for each priority, its ready processes, longest waiting first
  waiting,  \* the processes waiting for an envelope
  running, prio,
  receiving \* the processes waiting for a message

vars == <<ready, waiting, running, prio, receiving>>

Init ==
  /\ prio = InitPriority
  /\ running \in {p \in UserProcs : \A q \in UserProcs : prio[p] <= prio[q]}
  /\ ready \in [Priorities -> UNION {SetToSeqs(S) : S \in SUBSET (UserProcs \ {running})}]
  /\ \A pri \in Priorities :
       ToSet(ready[pri]) = {p \in UserProcs \ {running} : prio[p] = pri}
  /\ waiting = <<>> /\ receiving = {}

Best(rdy) == {pri \in Priorities : rdy[pri] # <<>> /\ \A j \in 0 .. pri - 1 : rdy[j] = <<>>}

RunFirst(rdy) ==
  \E pri \in Best(rdy) :
    /\ running' = Head(rdy[pri])
    /\ ready' = [rdy EXCEPT ![pri] = Tail(@)]

Join(p, pri) == [ready EXCEPT ![pri] = Append(@, p)]

Release == RunFirst(Join(running, prio[running])) /\ UNCHANGED <<waiting, prio, receiving>>

Receive ==
  /\ RunFirst(ready)
  /\ receiving' = receiving \cup {running}
  /\ UNCHANGED <<waiting, prio>>

Request ==
  /\ RunFirst(ready)
  /\ waiting' = Append(waiting, running)
  /\ UNCHANGED <<prio, receiving>>

Arrival(p) ==
  /\ p \in receiving
  /\ receiving' = receiving \ {p}
  /\ ready' = Join(p, prio[p])
  /\ UNCHANGED <<waiting, running, prio>>

Freed ==
  /\ waiting # <<>>
  /\ waiting' = Tail(waiting)
  /\ ready' = Join(Head(waiting), prio[Head(waiting)])
  /\ UNCHANGED <<running, prio, receiving>>

Move(p, pri) ==
  /\ prio' = [prio EXCEPT ![p] = pri]
  /\ ready' = IF \E j \in Priorities : Contains(ready[j], p)
              THEN [j \in Priorities |->
                      RemoveFirst(ready[j], p) \o IF j = pri THEN <<p>> ELSE <<>>]
              ELSE ready
  /\ UNCHANGED <<waiting, running, receiving>>

Next ==
  \/ Release \/ Receive \/ Request \/ Freed
  \/ \E p \in Clients : Arrival(p)
  \/ \E p \in Clients, pri \in Priorities : Move(p, pri)

Spec == Init /\ [][Next]_vars
=============================================================================
