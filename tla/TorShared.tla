----------------------------- MODULE TorShared -----------------------------
(***************************************************************************)
(* The reference count on the shared Tor process (onion.go): the package   *)
(* variables torp and torpRefs under torpMu, the hasRef flag of each Onion *)
(* under its own hasRefMu, and the goroutines that dial, listen and close. *)
(* getTor and Close each take the two mutexes one after the other, so each *)
(* is two steps.                                                           *)
(***************************************************************************)
EXTENDS Integers, FiniteSets

CONSTANTS
    Threads,       \* goroutines
    Onions,        \* Onion instances
    StartMayFail,  \* may tor.Start return an error?
    CloseMayFail,  \* may torp.Close return an error?
    MaxRefs        \* bound on torpRefs

ASSUME OnionsAssumption == IsFiniteSet(Onions)

ASSUME FaultAssumption ==
    /\ StartMayFail \in BOOLEAN
    /\ CloseMayFail \in BOOLEAN
    /\ MaxRefs \in Nat

VARIABLES
    torp,      \* "nil", "up", or "defunct": starting or closing it failed
    torpRefs,
    hasRef,    \* Onion.hasRef
    pc,        \* where each goroutine is
    on,        \* the Onion its call is on
    saw        \* alreadyHasRef, the copy of hasRef that getTor took

vars == <<torp, torpRefs, hasRef, pc, on, saw>>

TypeOK ==
    /\ torp \in {"nil", "up", "defunct"}
    /\ torpRefs \in Nat
    /\ hasRef \in [Onions -> BOOLEAN]
    /\ pc \in [Threads -> {"idle", "getTor", "using", "close"}]
    /\ on \in [Threads -> Onions]
    /\ saw \in [Threads -> BOOLEAN]

Init ==
    /\ torp = "nil"
    /\ torpRefs = 0
    /\ hasRef = [o \in Onions |-> FALSE]
    /\ pc = [t \in Threads |-> "idle"]
    /\ on \in [Threads -> Onions]
    /\ saw = [t \in Threads |-> FALSE]

Goto(t, step) == pc' = [pc EXCEPT ![t] = step]

-----------------------------------------------------------------------------
(* Dial, Listen and ListenTLS: getTor, then a use of what it returned.     *)

\* getTor reads the flag and lets go of hasRefMu.
ReadHasRef(t, o) ==
    /\ pc[t] = "idle"
    /\ on' = [on EXCEPT ![t] = o]
    /\ saw' = [saw EXCEPT ![t] = hasRef[o]]
    /\ Goto(t, "getTor")
    /\ UNCHANGED <<torp, torpRefs, hasRef>>

\* Mutant: the flag is not looked at before counting.
CountAlways(t) ==
    /\ torpRefs' = torpRefs + 1
    /\ hasRef' = [hasRef EXCEPT ![on[t]] = TRUE]

\* The reference is counted unless the flag was set when it was read.
Count(t) ==
    IF saw[t] THEN UNCHANGED <<torpRefs, hasRef>>
    ELSE /\ torpRefs' = torpRefs + 1
         /\ hasRef' = [hasRef EXCEPT ![on[t]] = TRUE]

\* The rest of getTor, under torpMu: start Tor if there is none.
GetTor(t) ==
    /\ pc[t] = "getTor"
    /\ torpRefs < MaxRefs
    /\ torp' = IF torp = "nil" THEN "up" ELSE torp
    /\ Count(t)
    /\ Goto(t, "using")
    /\ UNCHANGED <<on, saw>>

\* torp is assigned before the error of tor.Start is looked at, so whatever
\* came with the error is what later calls find.
StartFails(t) ==
    /\ pc[t] = "getTor"
    /\ torp = "nil"
    /\ StartMayFail
    /\ torp' \in {"nil", "defunct"}
    /\ Goto(t, "idle")
    /\ UNCHANGED <<torpRefs, hasRef, on, saw>>

\* Tor.Dialer and DialContext, or Tor.Listen, returned.  Whether they failed
\* or not, the reference is kept.
Finish(t) ==
    /\ pc[t] = "using"
    /\ Goto(t, "idle")
    /\ UNCHANGED <<torp, torpRefs, hasRef, on, saw>>

-----------------------------------------------------------------------------
(* Close *)

\* Take the reference away from the Onion; without one there is nothing to do.
TakeHasRef(t, o) ==
    /\ pc[t] = "idle"
    /\ hasRef[o]
    /\ hasRef' = [hasRef EXCEPT ![o] = FALSE]
    /\ on' = [on EXCEPT ![t] = o]
    /\ Goto(t, "close")
    /\ UNCHANGED <<torp, torpRefs, saw>>

\* Mutants: the process is closed one reference early, or one too late.
LastButOne == torpRefs - 1 <= 1
NeverLast  == torpRefs - 1 < 0

LastReference == torpRefs - 1 <= 0

\* Under torpMu.  Without a Tor there is nothing to do.
CloseTor(t) ==
    /\ pc[t] = "close"
    /\ Goto(t, "idle")
    /\ IF torp = "nil" THEN UNCHANGED <<torp, torpRefs>>
       ELSE \/ ~LastReference /\ torpRefs' = torpRefs - 1 /\ UNCHANGED torp
            \/ LastReference /\ torpRefs' = 0 /\ torp' = "nil"
            \/ LastReference /\ CloseMayFail
               /\ torpRefs' = torpRefs - 1 /\ torp' = "defunct"
    /\ UNCHANGED <<hasRef, on, saw>>

-----------------------------------------------------------------------------

Next ==
    \E t \in Threads :
        \/ \E o \in Onions : ReadHasRef(t, o) \/ TakeHasRef(t, o)
        \/ GetTor(t) \/ StartFails(t) \/ Finish(t) \/ CloseTor(t)

Spec == Init /\ [][Next]_vars

-----------------------------------------------------------------------------

\* The calls of one Onion come one after the other: then the copy of hasRef
\* cannot go stale.  Nothing here makes them do so.
OneCallEach ==
    \A t, u \in Threads :
        t # u /\ pc[t] # "idle" /\ pc[u] # "idle" => on[t] # on[u]

\* The instances whose reference is counted: the flag is set, or a Close has
\* cleared it and not yet reached torpMu.
Closing == {on[t] : t \in {u \in Threads : pc[u] = "close"}}
Holders == {o \in Onions : hasRef[o]} \cup Closing

\* "Only increment reference count once per Onion instance" (onion.go:95).
RefsMatchHolders == torpRefs = Cardinality(Holders)

\* What a goroutine got from getTor is not closed under it: it is there for
\* as long as the goroutine uses it.
UsedIsOpen == \A t \in Threads : pc[t] = "using" => torp # "nil"

\* When every Onion has been closed and no call is in progress, Tor is not
\* left running.
NoTorLeft ==
    (\A t \in Threads : pc[t] = "idle") /\ (\A o \in Onions : ~hasRef[o])
        => torp # "up"

\* "The shared Tor instance is only closed when all Onion instances have
\* called Close()" (onion.go:228), as a specification.
Service == INSTANCE SharedService WITH
    Users <- Onions, holders <- Holders, running <- torp # "nil"

ImplementsService == Service!Spec
=============================================================================
