--------------------------- MODULE ManagedGarlic ---------------------------
(***************************************************************************)
(* The Garlic instances that the package keeps for its callers: the map    *)
(* garlics and the shared dialer (garlic.go), and the registry of          *)
(* instances that are closed when a signal ends the program (cleanup.go).  *)
(*                                                                         *)
(* Each of the three has a mutex of its own.  ListenGarlic looks into the  *)
(* map, creates an instance and stores it in three steps, DialGarlic holds *)
(* its mutex from the look to the assignment, and CloseGarlic and          *)
(* CloseAllGarlic hold theirs while they close.  A Garlic is open here     *)
(* while its SAM connection is; GarlicSession says what is on it.          *)
(***************************************************************************)
EXTENDS Integers, Functions

CONSTANTS
    Threads,        \* goroutines of the application
    Handler,        \* the goroutine of signalHandler
    Names,          \* names of managed instances
    CloseMayFail,   \* may Garlic.Close fail to close the connection?
    MaxMade         \* bound: instances created

VARIABLES
    garlics, garlicsMu,
    defaultDialer, defaultDialerMu,
    instances,      \* cleanupRegistry.instances
    open,           \* instances whose SAM connection is open
    owner,          \* what each instance was made for, by its number
    pc, goal,       \* where each goroutine is, and what its call is for
    mine,           \* the instance it works on
    todo,           \* names it has yet to close
    left,           \* instances the handler has yet to close
    raced,          \* who closes an instance that another has cleared meanwhile
    ended,          \* how the program ended, "no" while it runs
    stuck,          \* history: closing it was tried and failed
    replaced,       \* history: another took its place in the map
    copied          \* history: what the handler found in the registry

managed == <<garlics, garlicsMu, defaultDialer, defaultDialerMu>>
threads == <<pc, goal, mine, todo, left, raced, ended>>
history == <<stuck, replaced, copied>>
vars    == <<managed, instances, open, owner, threads, history>>

None   == 0
Free   == "free"
Dialer == "onramp-dialer"
App    == "app"
Actors == Threads \cup {Handler}
Goals  == Names \cup {Dialer, App}
Closes == {"closeApp", "closeDialer", "closeManaged", "closeCopied"}
Steps  == Closes \cup {"idle", "connect", "enroll", "register", "use",
                       "lockDialer", "lock", "next", "copy", "nextCopied"}

ASSUME ManagedAssumption ==
    /\ Handler \notin Threads
    /\ Free \notin Threads
    /\ Names \cap {Dialer, App} = {}
    /\ CloseMayFail \in BOOLEAN
    /\ MaxMade \in Nat

Made   == DOMAIN owner
Newest == CHOOSE n \in 0..MaxMade : DOMAIN owner = 1..n

TypeOK ==
    /\ \E n \in 0..MaxMade : owner \in [1..n -> Goals]
    /\ DOMAIN garlics \subseteq Names /\ Range(garlics) \subseteq Made
    /\ {garlicsMu, defaultDialerMu} \subseteq Threads \cup {Free}
    /\ defaultDialer \in Made \cup {None}
    /\ instances \subseteq Made /\ open \subseteq Made
    /\ pc \in [Actors -> Steps]
    /\ goal \in [Threads -> Goals]
    /\ mine \in [Actors -> Made \cup {None}]
    /\ todo \in [Threads -> SUBSET Names]
    /\ left \subseteq Made
    /\ raced \subseteq Actors
    /\ ended \in {"no", "signal", "panic"}
    /\ UNION {stuck, replaced, copied} \subseteq Made

Init ==
    /\ garlics = [n \in {} |-> None] /\ garlicsMu = Free
    /\ defaultDialer = None /\ defaultDialerMu = Free
    /\ instances = {} /\ open = {}
    /\ owner = [n \in {} |-> App]
    /\ pc = [a \in Actors |-> "idle"]
    /\ goal = [t \in Threads |-> App]
    /\ mine = [a \in Actors |-> None]
    /\ todo = [t \in Threads |-> {}]
    /\ left = {} /\ raced = {} /\ ended = "no"
    /\ stuck = {} /\ replaced = {} /\ copied = {}

-----------------------------------------------------------------------------

Goto(a, step) == pc' = [pc EXCEPT ![a] = step]

Transition(a, from, to) == pc[a] = from /\ Goto(a, to)

\* The call of t leaves the mutex of the dialer if it held it.
UnlockDialer(t) ==
    defaultDialerMu' = IF defaultDialerMu = t THEN Free ELSE defaultDialerMu

\* A call that opens or uses an instance is over.
Forget(t) == goal' = [goal EXCEPT ![t] = App] /\ mine' = [mine EXCEPT ![t] = None]

\* A call of t begins that opens or uses an instance for g: one that is there,
\* or a new one.
Begin(t, g, found) ==
    /\ Transition(t, "idle", IF found = None THEN "connect" ELSE "use")
    /\ goal' = [goal EXCEPT ![t] = g]
    /\ mine' = [mine EXCEPT ![t] = found]
    /\ UNCHANGED <<garlics, garlicsMu, defaultDialer, instances, open, owner,
                   todo, left, raced, ended, history>>

\* The look into the map, under the read lock.
ListenGarlic(t, n) ==
    /\ garlicsMu = Free
    /\ Begin(t, n, IF n \in DOMAIN garlics THEN garlics[n] ELSE None)
    /\ UNCHANGED defaultDialerMu

\* Mutant: the mutex is held for the look only.
DialUnlocked(t) ==
    /\ defaultDialerMu = Free
    /\ Begin(t, Dialer, defaultDialer)
    /\ UNCHANGED defaultDialerMu

\* The mutex is kept while the dialer is created.
DialGarlic(t) ==
    /\ defaultDialerMu = Free
    /\ Begin(t, Dialer, defaultDialer)
    /\ defaultDialerMu' = IF defaultDialer = None THEN t ELSE Free

NewGarlic(t) == Begin(t, App, None) /\ UNCHANGED defaultDialerMu

\* newGarlic: connect to SAM ...
Connect(t) ==
    /\ Transition(t, "connect", "enroll")
    /\ Newest < MaxMade
    /\ owner' = [n \in 1..(Newest + 1) |-> IF n \in Made THEN owner[n] ELSE goal[t]]
    /\ open' = open \cup {Newest + 1}
    /\ mine' = [mine EXCEPT ![t] = Newest + 1]
    /\ UNCHANGED <<managed, instances, goal, todo, left, raced, ended, history>>

ConnectFails(t) ==
    /\ Transition(t, "connect", "idle")
    /\ UnlockDialer(t)
    /\ Forget(t)
    /\ UNCHANGED <<garlics, garlicsMu, defaultDialer, instances, open, owner,
                   todo, left, raced, ended, history>>

\* Mutant: the registry is keyed by the name of the instance.
EnrolledByName(t) ==
    /\ Transition(t, "enroll", IF goal[t] = App THEN "idle" ELSE "register")
    /\ instances' = {i \in instances : owner[i] # goal[t]} \cup {mine[t]}
    /\ IF goal[t] = App THEN Forget(t) ELSE UNCHANGED <<goal, mine>>
    /\ UNCHANGED <<managed, open, owner, todo, left, raced, ended, history>>

\* ... and EnableAutoCleanup.
Enroll(t) ==
    /\ Transition(t, "enroll", IF goal[t] = App THEN "idle" ELSE "register")
    /\ instances' = instances \cup {mine[t]}
    /\ IF goal[t] = App THEN Forget(t) ELSE UNCHANGED <<goal, mine>>
    /\ UNCHANGED <<managed, open, owner, todo, left, raced, ended, history>>

\* Mutant: what is in the map stays there.
RegisterIfAbsent(t) ==
    /\ goal[t] \in Names
    /\ Transition(t, "register", "use")
    /\ garlicsMu = Free
    /\ garlics' = [n \in DOMAIN garlics \cup {goal[t]} |->
                       IF n \in DOMAIN garlics THEN garlics[n] ELSE mine[t]]
    /\ UNCHANGED <<garlicsMu, defaultDialer, defaultDialerMu, instances, open, owner,
                   goal, mine, todo, left, raced, ended, history>>

\* createAndRegisterListener: whatever has the name is replaced, not closed.
Register(t) ==
    /\ goal[t] \in Names
    /\ Transition(t, "register", "use")
    /\ garlicsMu = Free
    /\ garlics' = [n \in DOMAIN garlics \cup {goal[t]} |->
                       IF n = goal[t] THEN mine[t] ELSE garlics[n]]
    /\ replaced' = replaced \cup {garlics[n] : n \in DOMAIN garlics \cap {goal[t]}}
    /\ UNCHANGED <<garlicsMu, defaultDialer, defaultDialerMu, instances, open, owner,
                   goal, mine, todo, left, raced, ended, stuck, copied>>

AssignDialer(t) ==
    /\ goal[t] = Dialer
    /\ Transition(t, "register", "use")
    /\ defaultDialer' = mine[t]
    /\ UnlockDialer(t)
    /\ UNCHANGED <<garlics, garlicsMu, instances, open, owner,
                   goal, mine, todo, left, raced, ended, history>>

\* Listen or Dial on the instance, which another goroutine may close now.
Use(t) ==
    /\ Transition(t, "use", "idle")
    /\ Forget(t)
    /\ UNCHANGED <<managed, instances, open, owner, todo, left, raced, ended, history>>

-----------------------------------------------------------------------------
(* Garlic.Close unregisters the instance, closes what it has and clears    *)
(* its fields.  It has no lock: what it found not nil may be nil when it   *)
(* is used, if another Close of the instance clears it in between.         *)

StartClose(a, i) ==
    /\ instances' = instances \ {i}
    /\ mine' = [mine EXCEPT ![a] = i]
    /\ UNCHANGED <<open, owner, goal, ended, history>>

Others(a) == {b \in Actors \ {a} : pc[b] \in Closes /\ mine[b] = mine[a]}

FinishClose(a) ==
    /\ \/ open' = open \ {mine[a]} /\ UNCHANGED stuck
       \/ /\ CloseMayFail /\ mine[a] \in open
          /\ stuck' = stuck \cup {mine[a]} /\ UNCHANGED open
    /\ raced' = (raced \cup Others(a)) \ {a}
    /\ mine' = [mine EXCEPT ![a] = None]
    /\ UNCHANGED <<instances, owner, goal, ended, replaced, copied>>

Panic(a) ==
    /\ a \in raced
    /\ ended' = "panic"
    /\ UNCHANGED <<managed, instances, open, owner, pc, goal, mine, todo, left, raced,
                   history>>

\* What the application has: NewGarlic has returned it.
Owned == {i \in Made : owner[i] = App /\ \A t \in Threads : pc[t] = "enroll" => mine[t] # i}

\* The application closes an instance of its own once at a time: several
\* times in a row, and while the handler closes it.
AppClose(t, i) ==
    /\ i \in Owned
    /\ \A u \in Threads : pc[u] = "closeApp" => mine[u] # i
    /\ Transition(t, "idle", "closeApp")
    /\ StartClose(t, i)
    /\ UNCHANGED <<managed, todo, left, raced>>

AppClosed(t) ==
    /\ Transition(t, "closeApp", "idle")
    /\ FinishClose(t)
    /\ UNCHANGED <<managed, todo, left>>

-----------------------------------------------------------------------------
(* CloseGarlic and CloseAllGarlic, which begins with the dialer and the    *)
(* cleanup hooks.                                                          *)

BeginClose(t, names, step) ==
    /\ Transition(t, "idle", step)
    /\ todo' = [todo EXCEPT ![t] = names]
    /\ UNCHANGED <<managed, instances, open, owner, goal, mine, left, raced, ended, history>>

CloseGarlic(t, n) == BeginClose(t, {n}, "lock")
CloseAllGarlic(t) == BeginClose(t, Names, "lockDialer")

LockDialer(t) ==
    /\ pc[t] = "lockDialer"
    /\ defaultDialerMu = Free
    /\ IF defaultDialer = None
       THEN /\ Goto(t, "lock")
            /\ UNCHANGED <<defaultDialerMu, instances, mine, open, owner, goal, ended, history>>
       ELSE /\ Goto(t, "closeDialer")
            /\ defaultDialerMu' = t
            /\ StartClose(t, defaultDialer)
    /\ UNCHANGED <<garlics, garlicsMu, defaultDialer, todo, left, raced>>

\* Mutant: the dialer is closed and kept.
DialerKept(t) ==
    /\ Transition(t, "closeDialer", "lock")
    /\ FinishClose(t)
    /\ UnlockDialer(t)
    /\ UNCHANGED <<garlics, garlicsMu, defaultDialer, todo, left>>

DialerClosed(t) ==
    /\ Transition(t, "closeDialer", "lock")
    /\ FinishClose(t)
    /\ defaultDialer' = None
    /\ UnlockDialer(t)
    /\ UNCHANGED <<garlics, garlicsMu, todo, left>>

Lock(t) ==
    /\ Transition(t, "lock", "next")
    /\ garlicsMu = Free
    /\ garlicsMu' = t
    /\ todo' = [todo EXCEPT ![t] = todo[t] \cap DOMAIN garlics]
    /\ UNCHANGED <<garlics, defaultDialer, defaultDialerMu, instances, open, owner,
                   goal, mine, left, raced, ended, history>>

\* Mutant: the loop calls CloseGarlic, which takes the mutex once more.
CloseNextRecursive(t) ==
    /\ \E n \in todo[t] : todo' = [todo EXCEPT ![t] = {n}]
    /\ Transition(t, "next", "lock")
    /\ UNCHANGED <<managed, instances, open, owner, goal, mine, left, raced, ended, history>>

CloseNext(t) ==
    \E n \in todo[t] :
        /\ Transition(t, "next", "closeManaged")
        /\ todo' = [todo EXCEPT ![t] = todo[t] \ {n}]
        /\ StartClose(t, garlics[n])
        /\ UNCHANGED <<managed, left, raced>>

\* Mutant: the entry is set to nil.
EntryNil(t) ==
    /\ Transition(t, "closeManaged", "next")
    /\ FinishClose(t)
    /\ garlics' = [n \in DOMAIN garlics |-> IF garlics[n] = mine[t] THEN None ELSE garlics[n]]
    /\ UNCHANGED <<garlicsMu, defaultDialer, defaultDialerMu, todo, left>>

\* The entry is deleted whether closing failed or not.
ManagedClosed(t) ==
    /\ Transition(t, "closeManaged", "next")
    /\ FinishClose(t)
    /\ garlics' = Restrict(garlics, {n \in DOMAIN garlics : garlics[n] # mine[t]})
    /\ UNCHANGED <<garlicsMu, defaultDialer, defaultDialerMu, todo, left>>

Closed(t) ==
    /\ todo[t] = {}
    /\ Transition(t, "next", "idle")
    /\ garlicsMu' = Free
    /\ UNCHANGED <<garlics, defaultDialer, defaultDialerMu, instances, open, owner,
                   goal, mine, todo, left, raced, ended, history>>

-----------------------------------------------------------------------------
(* signalHandler: it takes one signal, and sends it again when it is done. *)

Signal ==
    /\ Transition(Handler, "idle", "copy")
    /\ UNCHANGED <<managed, instances, open, owner, goal, mine, todo, left, raced, ended,
                   history>>

\* cleanupAll, after the hooks.
Copy ==
    /\ Transition(Handler, "copy", "nextCopied")
    /\ left' = instances
    /\ copied' = instances
    /\ UNCHANGED <<managed, instances, open, owner, goal, mine, todo, raced, ended,
                   stuck, replaced>>

CloseNextCopied ==
    \E i \in left :
        /\ Transition(Handler, "nextCopied", "closeCopied")
        /\ left' = left \ {i}
        /\ StartClose(Handler, i)
        /\ UNCHANGED <<managed, todo, raced>>

\* Mutant: the first error ends the clean-up.
StopsAtError ==
    /\ Transition(Handler, "closeCopied", "nextCopied")
    /\ FinishClose(Handler)
    /\ left' = IF mine[Handler] \in open' THEN {} ELSE left
    /\ UNCHANGED <<managed, todo>>

CopiedClosed ==
    /\ Transition(Handler, "closeCopied", "nextCopied")
    /\ FinishClose(Handler)
    /\ UNCHANGED <<managed, todo, left>>

\* CloseAllOnion, and the signal ends the program.
Exit ==
    /\ pc[Handler] = "nextCopied" /\ left = {}
    /\ ended' = "signal"
    /\ UNCHANGED <<managed, instances, open, owner, pc, goal, mine, todo, left, raced, history>>

-----------------------------------------------------------------------------

Call(t) ==
    \/ \E n \in Names : ListenGarlic(t, n) \/ CloseGarlic(t, n)
    \/ DialGarlic(t) \/ NewGarlic(t) \/ CloseAllGarlic(t)
    \/ \E i \in Made : AppClose(t, i)

Proceed(t) ==
    \/ Connect(t) \/ ConnectFails(t) \/ Enroll(t) \/ AssignDialer(t) \/ Use(t)
    \/ AppClosed(t) \/ DialerClosed(t)
    \/ CloseNext(t) \/ ManagedClosed(t) \/ Closed(t)

Acquire(t) == Register(t) \/ LockDialer(t) \/ Lock(t)

CleanUp == Copy \/ CloseNextCopied \/ CopiedClosed \/ Exit

Next ==
    /\ ended = "no"
    /\ \/ \E t \in Threads : Call(t) \/ Proceed(t) \/ Acquire(t)
       \/ Signal \/ CleanUp
       \/ \E a \in Actors : Panic(a)

\* A goroutine that can go on does, SAM answers in the end, and Go's mutexes
\* let nobody who waits for one starve.  Nobody has to call or to send a signal.
Fairness ==
    /\ \A t \in Threads : WF_vars(ended = "no" /\ Proceed(t))
    /\ \A t \in Threads : SF_vars(ended = "no" /\ Acquire(t))
    /\ WF_vars(ended = "no" /\ CleanUp)

Spec == Init /\ [][Next]_vars /\ Fairness

-----------------------------------------------------------------------------
(* Properties *)

BeingClosed == {mine[a] : a \in {b \in Actors : pc[b] \in Closes}}

\* Every open Garlic, managed or not, and also one that another replaced in
\* the map, would be found by a signal that comes now: it is in the registry,
\* or its Close or its creation is under way, or closing it failed.
CoveredByCleanup ==
    open \subseteq instances \cup BeingClosed \cup stuck
                   \cup {mine[t] : t \in {u \in Threads : pc[u] = "enroll"}}

\* When the signal is sent again, no instance that was registered when it was
\* handled is open, whoever else was closing instances at that time, unless
\* closing it failed: one that fails does not keep the rest open.
ExitClosed == ended = "signal" => copied \cap open \subseteq stuck

\* "All outbound connections share a single Garlic instance": an instance made
\* for dialling is the one that the next call will use, or it is on its way
\* there under the mutex, or on its way to be closed.
OneDialer ==
    \A i \in open \ stuck :
        owner[i] = Dialer =>
            \/ i \in BeingClosed \cup {defaultDialer}
            \/ \E t \in Threads : defaultDialerMu = t /\ mine[t] = i

\* An open instance made by ListenGarlic is in the map, where CloseAllGarlic
\* finds it, or on its way there or to be closed.  The only ones that are lost
\* are those that a second instance with the same name replaced.
ManagedKnown ==
    \A i \in open \ (stuck \cup replaced) :
        owner[i] \in Names =>
            \/ i \in Range(garlics) \cup BeingClosed
            \/ \E t \in Threads : pc[t] \in {"enroll", "register"} /\ mine[t] = i

\* What ListenGarlic and DialGarlic would find and use now is open, unless the
\* program is about to end: no closed instance stays behind for later calls,
\* which could not open it again.
FoundIsOpen ==
    /\ garlicsMu = Free => Range(garlics) \subseteq open \cup copied
    /\ defaultDialerMu = Free => defaultDialer \in open \cup copied \cup {None}

\* Every call returns and the handling of a signal comes to its end, whatever
\* waits for the two mutexes: unless the program has ended before.
EveryCallReturns ==
    \A a \in Actors : pc[a] # "idle" ~> (pc[a] = "idle" \/ ended # "no")
=============================================================================
