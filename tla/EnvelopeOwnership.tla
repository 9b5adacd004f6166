-------------------------- MODULE EnvelopeOwnership --------------------------
(***************************************************************************)
(* What the RTX kernel promises about message envelopes, with no queues and *)
(* no scheduler: each envelope has one owner, and only these transfers      *)
(* happen.  An envelope handed to an i-process (the CRT, the keyboard, the  *)
(* timer) comes back to the mailbox of the process that handed it in.       *)
(***************************************************************************)
CONSTANTS Envelopes, Clients, NoPid

VARIABLE owner   \* where each envelope is, and the process concerned

Free       == [at |-> "free", pid |-> NoPid]
Held(p)    == [at |-> "held", pid |-> p]
Mail(p)    == [at |-> "mail", pid |-> p]
Service(p) == [at |-> "service", pid |-> p]

Init == owner = [e \in Envelopes |-> Free]

Transfer(e, from, to) == owner[e] = from /\ owner' = [owner EXCEPT ![e] = to]

Request(e, p)  == Transfer(e, Free, Held(p))
Release(e, p)  == Transfer(e, Held(p), Free)
Send(e, p, d)  == Transfer(e, Held(p), Mail(d))
Receive(e, p)  == Transfer(e, Mail(p), Held(p))
Submit(e, p)   == Transfer(e, Held(p), Service(p))
Return(e, p)   == Transfer(e, Service(p), Mail(p))

Next ==
  /\ owner' # owner
  /\ \E e \in Envelopes, p \in Clients :
    \/ Request(e, p) \/ Release(e, p) \/ Receive(e, p) \/ Submit(e, p) \/ Return(e, p)
    \/ \E d \in Clients : Send(e, p, d)

Spec == Init /\ [][Next]_owner
=============================================================================
