--------------------------- MODULE DatagramQueues ---------------------------
(***************************************************************************)
(* What the receive path of a hybrid session promises its application: a   *)
(* bounded FIFO queue per subsession.  While it is open nothing that was   *)
(* accepted is lost, repeated or overtaken by a later datagram of the same *)
(* subsession; once it is closed the newest datagram of a queue, the one   *)
(* its loop still holds, may be given up.                                  *)
(***************************************************************************)
EXTENDS Integers, Sequences, SequencesExt

CONSTANTS Sources,   \* the subsessions
          Messages,  \* the datagrams
          Capacity   \* how many a queue holds

VARIABLES pending,   \* accepted and not yet taken, per source
          taken,     \* taken by the application, per source, in order
          open

vars == <<pending, taken, open>>

Init ==
    /\ pending = [s \in Sources |-> <<>>]
    /\ taken = [s \in Sources |-> <<>>]
    /\ open = TRUE

\* What is accepted is then the last of its queue.
Accept(s) ==
    /\ Len(pending[s]) < Capacity
    /\ pending'[s] # <<>> /\ Last(pending'[s]) \in Messages
    /\ pending' = [pending EXCEPT ![s] = Append(@, Last(pending'[s]))]
    /\ UNCHANGED <<taken, open>>

Take(s) ==
    /\ pending[s] # <<>>
    /\ taken' = [taken EXCEPT ![s] = Append(@, Head(pending[s]))]
    /\ pending' = [pending EXCEPT ![s] = Tail(@)]
    /\ UNCHANGED open

Close ==
    /\ open
    /\ open' = FALSE
    /\ UNCHANGED <<pending, taken>>

GiveUp(s) ==
    /\ ~open
    /\ pending[s] # <<>>
    /\ pending' = [pending EXCEPT ![s] = Front(@)]
    /\ UNCHANGED <<taken, open>>

Next ==
    \/ \E s \in Sources : Accept(s) \/ Take(s) \/ GiveUp(s)
    \/ Close

Spec == Init /\ [][Next]_vars
=============================================================================
