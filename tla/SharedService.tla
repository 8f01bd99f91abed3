--------------------------- MODULE SharedService ----------------------------
(***************************************************************************)
(* What the package promises about the one Tor process that all Onion      *)
(* instances share: it runs as long as somebody holds it, and it is shut   *)
(* down when the last holder lets go.                                      *)
(***************************************************************************)
CONSTANT Users

VARIABLES holders,  \* the instances that hold the service
          running   \* the service is there, in working order or not

vars == <<holders, running>>

Init == holders = {} /\ running = FALSE

\* An instance that holds it may ask for it again.
Acquire(u) ==
    /\ holders' = holders \cup {u}
    /\ running' = TRUE

\* The service stays for the other holders.  Shutting it down may fail, and
\* then it stays without any.
Release(u) ==
    /\ u \in holders
    /\ holders' = holders \ {u}
    /\ holders \ {u} # {} => running' = TRUE
    /\ running' => running

\* A start that fails may leave a service without any holder.
FailToStart ==
    /\ holders = {}
    /\ running' \in BOOLEAN
    /\ UNCHANGED holders

Next ==
    \/ \E u \in Users : Acquire(u) \/ Release(u)
    \/ FailToStart

Spec == Init /\ [][Next]_vars
=============================================================================
