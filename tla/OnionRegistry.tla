--------------------------- MODULE OnionRegistry ---------------------------
(***************************************************************************)
(* The Onions that the package keeps by name (onion.go), over the          *)
(* reference count on the shared Tor process of TorShared.  ListenOnion    *)
(* always makes a new Onion and stores it; DialOnion looks into the map    *)
(* and stores a new Onion in two critical sections; both call the Onion    *)
(* without a lock.  CloseOnion and CloseAllOnion hold onionsMu while they  *)
(* close.                                                                  *)
(***************************************************************************)
EXTENDS TorShared, Functions

CONSTANTS
    Names,     \* names of managed Onions
    Overlap    \* may calls about one name overlap?

VARIABLES
    onions,    \* name -> Onion
    onionsMu,  \* who holds it
    task,      \* where the call of each goroutine is
    scope,     \* names its call is about
    inst,      \* the Onion it works on
    fresh,     \* bound: Onions not made yet
    replaced   \* history: another took its place in the map

registry     == <<onions, onionsMu, task, scope, inst, fresh, replaced>>
registryVars == <<vars, registry>>

Free  == "free"
Tasks == {"idle", "register", "call", "calling", "closing", "closingTor"}

ASSUME RegistryAssumption ==
    /\ Free \notin Threads
    /\ Overlap \in BOOLEAN

RegistryTypeOK ==
    /\ TypeOK
    /\ DOMAIN onions \subseteq Names /\ Range(onions) \subseteq Onions
    /\ onionsMu \in Threads \cup {Free}
    /\ task \in [Threads -> Tasks]
    /\ scope \in [Threads -> SUBSET Names]
    /\ inst \in [Threads -> Onions]
    /\ fresh \subseteq Onions
    /\ replaced \subseteq Onions \ fresh

RegistryInit ==
    /\ Init
    /\ onions = [n \in {} |-> CHOOSE o \in Onions : TRUE]
    /\ onionsMu = Free
    /\ task = [t \in Threads |-> "idle"]
    /\ scope = [t \in Threads |-> {}]
    /\ inst = on
    /\ fresh = Onions
    /\ replaced = {}

-----------------------------------------------------------------------------

Proceed(t, from, to) == task[t] = from /\ task' = [task EXCEPT ![t] = to]

\* A call about some names begins.
Begin(t, names, step) ==
    /\ Proceed(t, "idle", step)
    /\ Overlap \/ \A u \in Threads : task[u] # "idle" => scope[u] \cap names = {}
    /\ scope' = [scope EXCEPT ![t] = names]

\* NewOnion.
Make(t) ==
    \E o \in fresh : fresh' = fresh \ {o} /\ inst' = [inst EXCEPT ![t] = o]

\* ListenOnion does not look for an Onion of the name.
ListenOnion(t, n) ==
    /\ Begin(t, {n}, "register")
    /\ Make(t)
    /\ UNCHANGED <<vars, onions, onionsMu, replaced>>

\* DialOnion: the look into the map, in a critical section of its own.
DialFound(t, n) ==
    /\ Begin(t, {n}, "call")
    /\ onionsMu = Free
    /\ n \in DOMAIN onions
    /\ inst' = [inst EXCEPT ![t] = onions[n]]
    /\ UNCHANGED <<vars, onions, onionsMu, fresh, replaced>>

DialNotFound(t, n) ==
    /\ Begin(t, {n}, "register")
    /\ onionsMu = Free
    /\ n \notin DOMAIN onions
    /\ Make(t)
    /\ UNCHANGED <<vars, onions, onionsMu, replaced>>

\* Mutant: an Onion that has the name stays there.
RegisterIfAbsent(t) ==
    /\ Proceed(t, "register", "call")
    /\ onionsMu = Free
    /\ onions' = [n \in DOMAIN onions \cup scope[t] |->
                      IF n \in DOMAIN onions THEN onions[n] ELSE inst[t]]
    /\ UNCHANGED <<vars, onionsMu, scope, inst, fresh, replaced>>

\* Whatever Onion has the name is overwritten, and not closed.
Register(t) ==
    /\ Proceed(t, "register", "call")
    /\ onionsMu = Free
    /\ onions' = [n \in DOMAIN onions \cup scope[t] |->
                      IF n \in scope[t] THEN inst[t] ELSE onions[n]]
    /\ replaced' = replaced \cup {onions[n] : n \in DOMAIN onions \cap scope[t]}
    /\ UNCHANGED <<vars, onionsMu, scope, inst, fresh>>

\* Listen or Dial on the Onion: getTor and what follows, of TorShared.
Call(t) ==
    /\ Proceed(t, "call", "calling")
    /\ ReadHasRef(t, inst[t])
    /\ UNCHANGED <<onions, onionsMu, scope, inst, fresh, replaced>>

CallGetTor(t) == task[t] = "calling" /\ GetTor(t) /\ UNCHANGED registry

\* The Onion stays in the map whether the call failed or not.
Return(t) ==
    /\ Proceed(t, "calling", "idle")
    /\ StartFails(t) \/ Finish(t)
    /\ UNCHANGED <<onions, onionsMu, scope, inst, fresh, replaced>>

-----------------------------------------------------------------------------
(* CloseOnion and CloseAllOnion, up to their return under onionsMu.        *)

Close(t, names) ==
    /\ Begin(t, names, "closing")
    /\ onionsMu = Free
    /\ onionsMu' = t
    /\ UNCHANGED <<vars, onions, inst, fresh, replaced>>

CloseOnion(t, n) == Close(t, {n})
CloseAllOnion(t) == Close(t, Names)

\* Mutant: the entry is set to nil.
SetNil(o) == onions' = [n \in DOMAIN onions |-> IF onions[n] = o THEN Free ELSE onions[n]]

Delete(o) == onions' = Restrict(onions, {n \in DOMAIN onions : onions[n] # o})

\* The Onion gives its reference back, first the flag and then the count ...
CloseNext(t) ==
    \E n \in scope[t] \cap DOMAIN onions :
        /\ Proceed(t, "closing", "closingTor")
        /\ TakeHasRef(t, onions[n])
        /\ inst' = [inst EXCEPT ![t] = onions[n]]
        /\ UNCHANGED <<onions, onionsMu, scope, fresh, replaced>>

\* ... and leaves the map, whether closing Tor failed or not.
Closed(t) ==
    /\ Proceed(t, "closingTor", "closing")
    /\ CloseTor(t)
    /\ Delete(inst[t])
    /\ UNCHANGED <<onionsMu, scope, inst, fresh, replaced>>

\* Without a reference there is nothing to close.
NothingToClose(t) ==
    \E n \in scope[t] \cap DOMAIN onions :
        /\ task[t] = "closing"
        /\ ~hasRef[onions[n]]
        /\ Delete(onions[n])
        /\ UNCHANGED <<vars, onionsMu, task, scope, inst, fresh, replaced>>

CloseReturns(t) ==
    /\ scope[t] \cap DOMAIN onions = {}
    /\ Proceed(t, "closing", "idle")
    /\ onionsMu' = Free
    /\ UNCHANGED <<vars, onions, scope, inst, fresh, replaced>>

-----------------------------------------------------------------------------

RegistryNext ==
    \E t \in Threads :
        \/ \E n \in Names :
              ListenOnion(t, n) \/ DialFound(t, n) \/ DialNotFound(t, n) \/ CloseOnion(t, n)
        \/ CloseAllOnion(t)
        \/ Register(t) \/ Call(t) \/ CallGetTor(t) \/ Return(t)
        \/ CloseNext(t) \/ Closed(t) \/ NothingToClose(t) \/ CloseReturns(t)

RegistrySpec == RegistryInit /\ [][RegistryNext]_registryVars

-----------------------------------------------------------------------------
(* Properties *)

\* An Onion that holds a reference on Tor can be closed by its name: it is in
\* the map, unless another replaced it there.  Until then CloseAllOnion
\* finds whatever keeps Tor running.
NothingForgotten == \A o \in Onions : hasRef[o] => o \in Range(onions) \cup replaced
=============================================================================
