------------------------ MODULE OnionRegistryProofs ------------------------
(***************************************************************************)
(* Proofs about TorShared and OnionRegistry.  First the reference count,   *)
(* for any number of goroutines and Onions and whatever fails, as long as  *)
(* the calls of one Onion do not overlap (OneCallEach).  Then, for any     *)
(* number of names, that the registry uses it as TorShared describes, and  *)
(* that as long as the calls about one name do not overlap, no two calls   *)
(* of one Onion do, so that all that was proved of the count holds.        *)
(***************************************************************************)
EXTENDS OnionRegistry, FiniteSetTheorems, TLAPS

(***************************************************************************)
(* THE REFERENCE COUNT                                                     *)
(***************************************************************************)

(***************************************************************************)
(* Types.  That torpRefs is never negative is a matter of the count; until *)
(* then it is an integer.                                                  *)
(***************************************************************************)

Types ==
    /\ torp \in {"nil", "up", "defunct"}
    /\ torpRefs \in Int
    /\ hasRef \in [Onions -> BOOLEAN]
    /\ pc \in [Threads -> {"idle", "getTor", "using", "close"}]
    /\ on \in [Threads -> Onions]
    /\ saw \in [Threads -> BOOLEAN]

LEMMA TypeInit == Init => Types
BY DEF Init, Types

LEMMA TypeStep == Types /\ [Next]_vars => Types'
<1> SUFFICES ASSUME Types, [Next]_vars PROVE Types'
  OBVIOUS
<1> USE DEF Types, Goto
<1>1. ASSUME NEW t \in Threads, NEW o \in Onions, ReadHasRef(t, o) \/ TakeHasRef(t, o)
      PROVE  Types'
  BY <1>1 DEF ReadHasRef, TakeHasRef
<1>2. ASSUME NEW t \in Threads, GetTor(t) PROVE Types'
  <2>1. torpRefs' \in Int /\ hasRef' \in [Onions -> BOOLEAN]
    <3>1. CASE saw[t]
      BY <1>2, <3>1 DEF GetTor, Count
    <3>2. CASE ~saw[t]
      <4>1. torpRefs' = torpRefs + 1 /\ hasRef' = [hasRef EXCEPT ![on[t]] = TRUE]
        BY <1>2, <3>2 DEF GetTor, Count
      <4>2. torpRefs' \in Int
        BY <4>1
      <4>3. hasRef' \in [Onions -> BOOLEAN]
        BY <4>1
      <4>4. QED
        BY <4>2, <4>3
    <3>3. QED
      BY <3>1, <3>2
  <2>2. QED
    BY <1>2, <2>1 DEF GetTor
<1>3. ASSUME NEW t \in Threads, StartFails(t) \/ Finish(t) PROVE Types'
  BY <1>3 DEF StartFails, Finish
<1>4. ASSUME NEW t \in Threads, CloseTor(t) PROVE Types'
  BY <1>4 DEF CloseTor
<1>5. CASE UNCHANGED vars
  BY <1>5 DEF vars
<1>6. QED
  BY <1>1, <1>2, <1>3, <1>4, <1>5 DEF Next

LEMMA TypesCorrect == Spec => []Types
BY TypeInit, TypeStep, PTL DEF Spec

(***************************************************************************)
(* The count.  RefsMatchHolders is inductive only together with what each  *)
(* goroutine knows of its Onion between its two critical sections: the     *)
(* copy of hasRef is still true to the flag, and a goroutine that uses Tor *)
(* holds a reference.                                                      *)
(***************************************************************************)

Knows(t) ==
    /\ pc[t] = "getTor" => saw[t] = hasRef[on[t]]
    /\ pc[t] = "using"  => hasRef[on[t]]
    /\ pc[t] = "close"  => ~hasRef[on[t]]

CountInv ==
    /\ \A t \in Threads : Knows(t)
    /\ RefsMatchHolders
    /\ torp = "nil" => torpRefs = 0
    /\ torpRefs = 0 => torp # "up"

LEMMA HoldersFinite ==
    ASSUME Types
    PROVE  IsFiniteSet(Holders) /\ Holders \subseteq Onions
<1>1. Holders \subseteq Onions
  BY DEF Holders, Closing, Types
<1>2. QED
  BY <1>1, OnionsAssumption, FS_Subset

LEMMA CountInit == Init => CountInv
<1> SUFFICES ASSUME Init PROVE CountInv
  OBVIOUS
<1>1. Holders = {}
  BY DEF Init, Holders, Closing
<1>2. QED
  BY <1>1, FS_EmptySet DEF Init, CountInv, Knows, RefsMatchHolders

\* A call that begins or ends leaves the holders as they are; a Close that
\* takes the flag only moves its Onion from one part of them to the other.
LEMMA HoldersKept ==
    ASSUME Types, CountInv, OneCallEach, OneCallEach', NEW t \in Threads, NEW o \in Onions,
           ReadHasRef(t, o) \/ TakeHasRef(t, o) \/ StartFails(t) \/ Finish(t)
    PROVE  Holders' = Holders
BY DEF Types, CountInv, Knows, OneCallEach, ReadHasRef, TakeHasRef, StartFails, Finish,
       Goto, Holders, Closing

\* getTor adds the Onion it counts, which was not a holder before.
LEMMA GetTorHolders ==
    ASSUME Types, CountInv, OneCallEach, OneCallEach', NEW t \in Threads, GetTor(t)
    PROVE  /\ saw[t] => Holders' = Holders
           /\ ~saw[t] => on[t] \notin Holders /\ Holders' = Holders \cup {on[t]}
<1> USE DEF Types, CountInv, Knows, GetTor, Count, Goto
<1>1. Closing' = Closing
  BY DEF Closing
<1>2. ~saw[t] => on[t] \notin Holders
  BY DEF Holders, Closing, OneCallEach
<1>3. QED
  BY <1>1, <1>2 DEF Holders

\* The second half of Close takes its Onion out.
LEMMA CloseTorHolders ==
    ASSUME Types, CountInv, OneCallEach, OneCallEach', NEW t \in Threads, CloseTor(t)
    PROVE  on[t] \in Holders /\ Holders' = Holders \ {on[t]}
<1> USE DEF Types, CountInv, Knows, CloseTor, Goto
<1>1. on[t] \in Closing
  BY DEF Closing
<1>2. ~hasRef[on[t]]
  OBVIOUS
<1>3. Closing' = Closing \ {on[t]}
  <2>1. \A u \in Threads : u # t /\ pc[u] = "close" => on[u] # on[t]
    BY DEF OneCallEach
  <2>2. \A u \in Threads : pc'[u] = "close" <=> (u # t /\ pc[u] = "close")
    OBVIOUS
  <2>3. on' = on
    OBVIOUS
  <2>4. QED
    BY <2>1, <2>2, <2>3 DEF Closing
<1>4. QED
  BY <1>1, <1>2, <1>3 DEF Holders

LEMMA CountStep == Types /\ CountInv /\ OneCallEach /\ OneCallEach' /\ [Next]_vars => CountInv'
<1> SUFFICES ASSUME Types, CountInv, OneCallEach, OneCallEach', [Next]_vars PROVE CountInv'
  OBVIOUS
<1>1. ASSUME NEW t \in Threads, NEW o \in Onions,
             ReadHasRef(t, o) \/ TakeHasRef(t, o) \/ StartFails(t) \/ Finish(t)
      PROVE  CountInv'
  <2>1. Holders' = Holders
    BY <1>1, HoldersKept
  <2>2. torpRefs' = torpRefs /\ torp' \in {torp, "defunct"}
    BY <1>1 DEF ReadHasRef, TakeHasRef, StartFails, Finish
  <2>3. ASSUME NEW u \in Threads PROVE Knows(u)'
    BY <1>1 DEF ReadHasRef, TakeHasRef, StartFails, Finish, Goto, CountInv, Knows,
       OneCallEach, Types
  <2>4. QED
    BY <2>1, <2>2, <2>3 DEF CountInv, RefsMatchHolders
<1>2. ASSUME NEW t \in Threads, GetTor(t) PROVE CountInv'
  <2>1. ASSUME NEW u \in Threads PROVE Knows(u)'
    <3>1. u # t /\ pc[u] # "idle" => on[u] # on[t]
      BY <1>2 DEF OneCallEach, GetTor
    <3>2. CASE saw[t]
      BY <1>2, <3>1, <3>2 DEF GetTor, Count, Goto, CountInv, Knows, Types
    <3>3. CASE ~saw[t]
      BY <1>2, <3>1, <3>3 DEF GetTor, Count, Goto, CountInv, Knows, Types
    <3>4. QED
      BY <3>2, <3>3
  <2>2. RefsMatchHolders'
    <3>1. CASE saw[t]
      BY <1>2, <3>1, GetTorHolders DEF GetTor, Count, CountInv, RefsMatchHolders
    <3>2. CASE ~saw[t]
      <4>1. Cardinality(Holders \cup {on[t]}) = Cardinality(Holders) + 1
        BY <1>2, <3>2, GetTorHolders, HoldersFinite, FS_AddElement
      <4>2. QED
        BY <1>2, <3>2, <4>1, GetTorHolders DEF GetTor, Count, CountInv, RefsMatchHolders
    <3>3. QED
      BY <3>1, <3>2 DEF Types
  <2>3. torp' # "nil"
    BY <1>2 DEF GetTor
  <2>4. torpRefs' # 0
    <3>1. CASE saw[t]
      <4>1. on[t] \in Holders /\ torpRefs' = torpRefs
        BY <1>2, <3>1 DEF GetTor, Count, Types, CountInv, Knows, Holders
      <4>2. Cardinality(Holders) # 0
        BY <4>1, HoldersFinite, FS_EmptySet
      <4>3. QED
        BY <4>1, <4>2 DEF CountInv, RefsMatchHolders
    <3>2. CASE ~saw[t]
      <4>1. Cardinality(Holders) \in Nat
        BY HoldersFinite, FS_CardinalityType
      <4>2. torpRefs \in Nat /\ torpRefs' = torpRefs + 1
        BY <1>2, <3>2, <4>1 DEF GetTor, Count, CountInv, RefsMatchHolders
      <4>3. QED
        BY <4>2
    <3>3. QED
      BY <3>1, <3>2
  <2>5. QED
    BY <2>1, <2>2, <2>3, <2>4 DEF CountInv
<1>3. ASSUME NEW t \in Threads, CloseTor(t) PROVE CountInv'
  <2>1. ASSUME NEW u \in Threads PROVE Knows(u)'
    BY <1>3 DEF CloseTor, Goto, CountInv, Knows, Types
  <2>2. Cardinality(Holders') = torpRefs - 1 /\ torpRefs \in Nat \ {0}
    <3>1. Cardinality(Holders \ {on[t]}) = Cardinality(Holders) - 1
      BY <1>3, CloseTorHolders, HoldersFinite, FS_RemoveElement
    <3>2. Cardinality(Holders) \in Nat /\ Cardinality(Holders \ {on[t]}) \in Nat
      <4>1. IsFiniteSet(Holders \ {on[t]})
        BY HoldersFinite, FS_Subset
      <4>2. QED
        BY <4>1, HoldersFinite, FS_CardinalityType
    <3>3. torpRefs = Cardinality(Holders)
      BY DEF CountInv, RefsMatchHolders
    <3>4. Cardinality(Holders') = Cardinality(Holders \ {on[t]})
      BY <1>3, CloseTorHolders
    <3>5. QED
      BY <3>1, <3>2, <3>3, <3>4
  <2>3. torp # "nil"
    BY <2>2 DEF CountInv
  <2>4. torpRefs' = torpRefs - 1
    BY <1>3, <2>2, <2>3 DEF CloseTor, LastReference
  <2>5. (torp' = "nil" => torpRefs' = 0) /\ (torpRefs' = 0 => torp' # "up")
    BY <1>3, <2>2, <2>3 DEF CloseTor, LastReference
  <2>6. QED
    BY <2>1, <2>2, <2>4, <2>5 DEF CountInv, RefsMatchHolders
<1>4. CASE UNCHANGED vars
  BY <1>4 DEF vars, CountInv, Knows, RefsMatchHolders, Holders, Closing
<1>5. ASSUME NEW t \in Threads, StartFails(t) \/ Finish(t) PROVE CountInv'
  BY <1>1, <1>5 DEF Types
<1>6. QED
  BY <1>1, <1>2, <1>3, <1>4, <1>5 DEF Next

LEMMA CountCorrect ==
    Spec /\ []OneCallEach => []CountInv
<1>1. Types /\ CountInv /\ OneCallEach /\ OneCallEach' /\ [Next]_vars => CountInv'
  BY CountStep
<1>2. QED
  BY <1>1, CountInit, TypesCorrect, PTL DEF Spec

\* Every reachable state is well typed; in particular the count is never
\* negative, so the reset to 0 (onion.go:264) is not needed for that.
THEOREM TypeCorrect ==
    Spec /\ []OneCallEach => []TypeOK
<1>1. Types /\ CountInv => TypeOK
  BY HoldersFinite, FS_CardinalityType DEF Types, CountInv, RefsMatchHolders, TypeOK
<1>2. QED
  BY <1>1, CountCorrect, TypesCorrect, PTL

\* When the calls of one Onion do not overlap, each instance is counted exactly once,
\* whatever fails to start or to close (onion.go:84-102, 231-266).
THEOREM RefsMatch ==
    Spec /\ []OneCallEach => []RefsMatchHolders
<1>1. CountInv => RefsMatchHolders
  BY DEF CountInv
<1>2. QED
  BY <1>1, CountCorrect, PTL

\* A goroutine never finds the Tor it got from getTor closed under it
\* (onion.go:108-112, 130-138, 257-263).
THEOREM UsedStaysOpen ==
    Spec /\ []OneCallEach => []UsedIsOpen
<1>1. Types /\ CountInv => UsedIsOpen
  <2> SUFFICES ASSUME Types, CountInv, NEW t \in Threads, pc[t] = "using"
               PROVE  torp # "nil"
    BY DEF UsedIsOpen
  <2>1. on[t] \in Holders
    BY DEF Types, CountInv, Knows, Holders
  <2>2. Cardinality(Holders) # 0
    BY <2>1, HoldersFinite, FS_EmptySet
  <2>3. QED
    BY <2>2 DEF CountInv, RefsMatchHolders
<1>2. QED
  BY <1>1, CountCorrect, TypesCorrect, PTL

\* When every Onion has been closed, no Tor is left running (onion.go:257).
THEOREM NothingLeft ==
    Spec /\ []OneCallEach => []NoTorLeft
<1>1. Types /\ CountInv => NoTorLeft
  <2> SUFFICES ASSUME Types, CountInv, \A t \in Threads : pc[t] = "idle",
                      \A o \in Onions : ~hasRef[o]
               PROVE  torp # "up"
    BY DEF NoTorLeft
  <2>1. Holders = {}
    BY DEF Holders, Closing
  <2>2. QED
    BY <2>1, FS_EmptySet DEF CountInv, RefsMatchHolders
<1>2. QED
  BY <1>1, CountCorrect, TypesCorrect, PTL

(***************************************************************************)
(* The reference count implements the shared service.                      *)
(***************************************************************************)

LEMMA ServiceStep ==
    ASSUME Types, CountInv, OneCallEach, OneCallEach', [Next]_vars
    PROVE  [Service!Next]_(Service!vars)
<1> USE DEF Service!vars
<1>1. ASSUME NEW t \in Threads, NEW o \in Onions,
             ReadHasRef(t, o) \/ TakeHasRef(t, o) \/ Finish(t)
      PROVE  UNCHANGED Service!vars
  <2>1. torp' = torp
    BY <1>1 DEF ReadHasRef, TakeHasRef, Finish
  <2>2. QED
    BY <1>1, <2>1, HoldersKept
<1>2. ASSUME NEW t \in Threads, GetTor(t) PROVE Service!Next
  <2>1. on[t] \in Onions
    BY DEF Types
  <2>2. saw[t] => on[t] \in Holders
    BY <1>2 DEF GetTor, Types, CountInv, Knows, Holders
  <2>3. Holders' = Holders \cup {on[t]}
    BY <1>2, <2>2, GetTorHolders
  <2>4. torp' # "nil"
    BY <1>2 DEF GetTor
  <2>5. Service!Acquire(on[t])
    BY <2>3, <2>4 DEF Service!Acquire
  <2>6. QED
    BY <2>1, <2>5 DEF Service!Next
<1>3. ASSUME NEW t \in Threads, CloseTor(t) PROVE Service!Next
  <2>1. on[t] \in Onions /\ on[t] \in Holders /\ Holders' = Holders \ {on[t]}
    BY <1>3, CloseTorHolders DEF Types
  <2>2. torpRefs = Cardinality(Holders) /\ torpRefs \in Int
    BY DEF CountInv, RefsMatchHolders, Types
  <2>3. Cardinality(Holders \ {on[t]}) = torpRefs - 1
    BY <2>1, <2>2, HoldersFinite, FS_RemoveElement
  <2>4. IsFiniteSet(Holders \ {on[t]})
    BY HoldersFinite, FS_Subset
  <2>5. Cardinality(Holders) # 0
    BY <2>1, HoldersFinite, FS_EmptySet
  <2>6. torp # "nil"
    BY <2>2, <2>5 DEF CountInv
  <2>7. ASSUME Holders \ {on[t]} # {} PROVE torp' # "nil"
    <3>1. Cardinality(Holders \ {on[t]}) \in Nat \ {0}
      BY <2>4, <2>7, FS_EmptySet, FS_CardinalityType
    <3>2. ~LastReference
      BY <2>2, <2>3, <3>1 DEF LastReference
    <3>3. QED
      BY <1>3, <2>6, <3>2 DEF CloseTor
  <2>8. Service!Release(on[t])
    BY <2>1, <2>6, <2>7 DEF Service!Release
  <2>9. QED
    BY <2>1, <2>8 DEF Service!Next
<1>4. CASE UNCHANGED vars
  BY <1>4 DEF vars, Holders, Closing
<1>5. ASSUME NEW t \in Threads, Finish(t) PROVE UNCHANGED Service!vars
  BY <1>1, <1>5 DEF Types
<1>6. ASSUME NEW t \in Threads, StartFails(t) PROVE Service!Next
  <2>1. on[t] \in Onions
    BY DEF Types
  <2>2. Holders' = Holders
    BY <1>6, <2>1, HoldersKept
  <2>3. Holders = {}
    BY <1>6, HoldersFinite, FS_EmptySet DEF StartFails, CountInv, RefsMatchHolders
  <2>4. Service!FailToStart
    BY <2>2, <2>3 DEF Service!FailToStart
  <2>5. QED
    BY <2>4 DEF Service!Next
<1>7. QED
  BY <1>1, <1>2, <1>3, <1>4, <1>5, <1>6 DEF Next

\* "The shared Tor instance is only closed when all Onion instances have
\* called Close()" (onion.go:228): without overlapping calls of one Onion the counted
\* Tor process is the service SharedService specifies.
THEOREM ServiceImplemented ==
    Spec /\ []OneCallEach => ImplementsService
<1>1. Init => Service!Init
  BY DEF Init, Service!Init, Holders, Closing
<1>2. Types /\ CountInv /\ OneCallEach /\ OneCallEach' /\ [Next]_vars
        => [Service!Next]_(Service!vars)
  BY ServiceStep
<1>3. QED
  BY <1>1, <1>2, CountCorrect, TypesCorrect, PTL
     DEF Spec, ImplementsService, Service!Spec

(***************************************************************************)
(* THE REGISTRY                                                            *)
(***************************************************************************)

\* Types of the registry, with what makes an Onion that is to be made a new
\* one: nobody has it yet.
RegistryTypes ==
    /\ onions \in [DOMAIN onions -> Onions]
    /\ DOMAIN onions \subseteq Names
    /\ onionsMu \in Threads \cup {Free}
    /\ task \in [Threads -> Tasks]
    /\ scope \in [Threads -> SUBSET Names]
    /\ inst \in [Threads -> Onions]
    /\ fresh \subseteq Onions
    /\ replaced \subseteq Onions \ fresh
    /\ \A n \in DOMAIN onions : onions[n] \notin fresh
    /\ \A t \in Threads : task[t] = "register" => inst[t] \notin fresh

LEMMA RegistryTypesInit == RegistryInit => RegistryTypes
BY DEF RegistryInit, Init, RegistryTypes, Tasks

LEMMA RegistryTypesStep == RegistryTypes /\ [RegistryNext]_registryVars => RegistryTypes'
<1> SUFFICES ASSUME RegistryTypes, [RegistryNext]_registryVars PROVE RegistryTypes'
  OBVIOUS
<1> USE DEF RegistryTypes, Tasks, Proceed, Begin
<1>1. ASSUME NEW t \in Threads, NEW n \in Names, ListenOnion(t, n) \/ DialNotFound(t, n)
      PROVE  RegistryTypes'
  BY <1>1 DEF ListenOnion, DialNotFound, Make
<1>2. ASSUME NEW t \in Threads, NEW n \in Names, DialFound(t, n)
      PROVE  RegistryTypes'
  BY <1>2 DEF DialFound
<1>3. ASSUME NEW t \in Threads, NEW names \in SUBSET Names, Close(t, names)
      PROVE  RegistryTypes'
  BY <1>3 DEF Close
<1>4. ASSUME NEW t \in Threads, Register(t) PROVE RegistryTypes'
  BY <1>4 DEF Register
<1>5. ASSUME NEW t \in Threads, Call(t) \/ Return(t) \/ CloseNext(t) \/ CloseReturns(t)
      PROVE  RegistryTypes'
  BY <1>5 DEF Call, Return, CloseNext, CloseReturns
<1>6. ASSUME NEW t \in Threads, CallGetTor(t) PROVE RegistryTypes'
  BY <1>6 DEF CallGetTor, registry
<1>7. ASSUME NEW t \in Threads, Closed(t) PROVE RegistryTypes'
  BY <1>7 DEF Closed, Delete, Restrict
<1>8. ASSUME NEW t \in Threads, NothingToClose(t) PROVE RegistryTypes'
  BY <1>8 DEF NothingToClose, Delete, Restrict
<1>9. CASE UNCHANGED registryVars
  BY <1>9 DEF registryVars, registry
<1>10. QED
  BY <1>1, <1>2, <1>3, <1>4, <1>5, <1>6, <1>7, <1>8, <1>9
     DEF RegistryNext, CloseOnion, CloseAllOnion

LEMMA RegistryTypesCorrect == RegistrySpec => []RegistryTypes
BY RegistryTypesInit, RegistryTypesStep, PTL DEF RegistrySpec

(***************************************************************************)
(* The registry over the reference count.                                  *)
(***************************************************************************)

LEMMA TorStep == RegistryTypes /\ [RegistryNext]_registryVars => [Next]_vars
<1> SUFFICES ASSUME RegistryTypes, [RegistryNext]_registryVars PROVE [Next]_vars
  OBVIOUS
<1> USE DEF RegistryTypes
<1>1. ASSUME NEW t \in Threads, NEW n \in Names,
             ListenOnion(t, n) \/ DialFound(t, n) \/ DialNotFound(t, n)
      PROVE  UNCHANGED vars
  BY <1>1 DEF ListenOnion, DialFound, DialNotFound
<1>2. ASSUME NEW t \in Threads, NEW names, Close(t, names) PROVE UNCHANGED vars
  BY <1>2 DEF Close
<1>3. ASSUME NEW t \in Threads, Register(t) \/ NothingToClose(t) \/ CloseReturns(t)
      PROVE  UNCHANGED vars
  BY <1>3 DEF Register, NothingToClose, CloseReturns
<1>4. ASSUME NEW t \in Threads, Call(t) PROVE Next
  BY <1>4 DEF Call, Next
<1>5. ASSUME NEW t \in Threads, CallGetTor(t) \/ Return(t) \/ Closed(t) PROVE Next
  BY <1>5 DEF CallGetTor, Return, Closed, Next
<1>6. ASSUME NEW t \in Threads, CloseNext(t) PROVE Next
  BY <1>6 DEF CloseNext, Next
<1>7. CASE UNCHANGED registryVars
  BY <1>7 DEF registryVars
<1>8. QED
  BY <1>1, <1>2, <1>3, <1>4, <1>5, <1>6, <1>7 DEF RegistryNext, CloseOnion, CloseAllOnion

\* What ListenOnion, DialOnion, CloseOnion and CloseAllOnion do to torp, to
\* torpRefs and to the hasRef flags, however they overlap, is what TorShared
\* describes (onion.go:367-456).
THEOREM RegistryImplementsTor == RegistrySpec => Spec
<1>1. RegistryInit => Init
  BY DEF RegistryInit
<1>2. QED
  BY <1>1, TorStep, RegistryTypesCorrect, PTL DEF RegistrySpec, Spec

(***************************************************************************)
(* Calls about one name that do not overlap.  The Onion of a call is the   *)
(* one that the map has under the name of the call, from the moment it is  *)
(* registered until its entry is deleted, so that Onions are shared        *)
(* between goroutines only in the way names are.                           *)
(***************************************************************************)

\* Where the Onion of a goroutine's call is.
Placed(t) ==
    /\ task[t] = "register" =>
          /\ \E n \in Names : scope[t] = {n}
          /\ \A n \in DOMAIN onions : onions[n] # inst[t]
          /\ \A u \in Threads \ {t} : task[u] = "register" => inst[u] # inst[t]
    /\ task[t] \in {"call", "calling", "closingTor"} =>
          \E n \in scope[t] : n \in DOMAIN onions /\ onions[n] = inst[t]

\* A goroutine is in a call of its Onion at two of the steps.
Calls(t) ==
    /\ pc[t] # "idle" <=> task[t] \in {"calling", "closingTor"}
    /\ pc[t] # "idle" => on[t] = inst[t]

PlaceInv ==
    /\ \A t \in Threads : Placed(t) /\ Calls(t)
    /\ \A t, u \in Threads :
          t # u /\ task[t] # "idle" /\ task[u] # "idle" => scope[t] \cap scope[u] = {}
    /\ \A m, n \in DOMAIN onions : onions[m] = onions[n] => m = n

LEMMA PlaceInit == RegistryInit => PlaceInv
BY DEF RegistryInit, Init, PlaceInv, Placed, Calls

LEMMA PlaceOneCall == RegistryTypes /\ PlaceInv => OneCallEach
<1> SUFFICES ASSUME RegistryTypes, PlaceInv, NEW t \in Threads, NEW u \in Threads,
                    t # u, pc[t] # "idle", pc[u] # "idle"
             PROVE  on[t] # on[u]
  BY DEF OneCallEach
<1>1. scope[t] \cap scope[u] = {}
  BY DEF PlaceInv, Calls
<1>2. PICK m \in scope[t] : m \in DOMAIN onions /\ onions[m] = on[t]
  BY DEF PlaceInv, Placed, Calls
<1>3. PICK n \in scope[u] : n \in DOMAIN onions /\ onions[n] = on[u]
  BY DEF PlaceInv, Placed, Calls
<1>4. QED
  BY <1>1, <1>2, <1>3 DEF PlaceInv

LEMMA PlaceStep ==
    Types /\ RegistryTypes /\ PlaceInv /\ ~Overlap /\ [RegistryNext]_registryVars => PlaceInv'
<1> SUFFICES ASSUME Types, RegistryTypes, PlaceInv, ~Overlap, [RegistryNext]_registryVars
             PROVE  PlaceInv'
  OBVIOUS
<1> USE DEF Types, RegistryTypes, Tasks, Proceed, Begin, Goto
<1>1. ASSUME NEW t \in Threads, NEW n \in Names, ListenOnion(t, n) \/ DialNotFound(t, n)
      PROVE  PlaceInv'
  BY <1>1 DEF ListenOnion, DialNotFound, Make, vars, PlaceInv, Placed, Calls
<1>2. ASSUME NEW t \in Threads, NEW n \in Names, DialFound(t, n)
      PROVE  PlaceInv'
  BY <1>2 DEF DialFound, vars, PlaceInv, Placed, Calls
<1>3. ASSUME NEW t \in Threads, NEW names \in SUBSET Names, Close(t, names)
      PROVE  PlaceInv'
  BY <1>3 DEF Close, vars, PlaceInv, Placed, Calls
<1>4. ASSUME NEW t \in Threads, Register(t) PROVE PlaceInv'
  <2>1. \A m, n \in DOMAIN onions' : onions'[m] = onions'[n] => m = n
    <3>1. ASSUME NEW m \in scope[t], NEW n \in scope[t] PROVE m = n
      BY <1>4 DEF Register, PlaceInv, Placed
    <3>2. QED
      BY <1>4, <3>1 DEF Register, PlaceInv, Placed
  <2>2. ASSUME NEW u \in Threads PROVE Placed(u)'
    <3>1. CASE u = t
      <4>1. PICK n \in scope[t] : TRUE
        BY <1>4 DEF Register, PlaceInv, Placed
      <4>2. n \in DOMAIN onions' /\ onions'[n] = inst[t]
        BY <1>4 DEF Register
      <4>3. task'[t] = "call" /\ inst' = inst /\ scope' = scope
        BY <1>4 DEF Register
      <4>4. QED
        BY <3>1, <4>2, <4>3 DEF Placed
    <3>2. CASE u # t /\ task[u] = "register"
      BY <1>4, <3>2 DEF Register, PlaceInv, Placed
    <3>3. CASE u # t /\ task[u] # "register"
      BY <1>4, <3>3 DEF Register, PlaceInv, Placed
    <3>4. QED
      BY <3>1, <3>2, <3>3
  <2>3. ASSUME NEW u \in Threads PROVE Calls(u)'
    BY <1>4 DEF Register, PlaceInv, Calls, vars
  <2>4. QED
    BY <1>4, <2>1, <2>2, <2>3 DEF Register, PlaceInv
<1>5. ASSUME NEW t \in Threads, Call(t) PROVE PlaceInv'
  <2>1. ASSUME NEW u \in Threads PROVE Placed(u)'
    BY <1>5 DEF Call, PlaceInv, Placed
  <2>2. ASSUME NEW u \in Threads PROVE Calls(u)'
    BY <1>5 DEF Call, ReadHasRef, PlaceInv, Calls
  <2>3. QED
    BY <1>5, <2>1, <2>2 DEF Call, PlaceInv
<1>6. ASSUME NEW t \in Threads, CallGetTor(t) PROVE PlaceInv'
  BY <1>6 DEF CallGetTor, GetTor, registry, PlaceInv, Placed, Calls
<1>7. ASSUME NEW t \in Threads, Return(t) PROVE PlaceInv'
  <2>1. ASSUME NEW u \in Threads PROVE Placed(u)'
    BY <1>7 DEF Return, PlaceInv, Placed
  <2>2. ASSUME NEW u \in Threads PROVE Calls(u)'
    BY <1>7 DEF Return, StartFails, Finish, PlaceInv, Calls
  <2>3. QED
    BY <1>7, <2>1, <2>2 DEF Return, PlaceInv
<1>8. ASSUME NEW t \in Threads, CloseNext(t) PROVE PlaceInv'
  <2>1. ASSUME NEW u \in Threads PROVE Placed(u)'
    BY <1>8 DEF CloseNext, PlaceInv, Placed
  <2>2. ASSUME NEW u \in Threads PROVE Calls(u)'
    BY <1>8 DEF CloseNext, TakeHasRef, PlaceInv, Calls
  <2>3. QED
    BY <1>8, <2>1, <2>2 DEF CloseNext, PlaceInv
<1>9. ASSUME NEW t \in Threads, Closed(t) PROVE PlaceInv'
  <2>1. ASSUME NEW u \in Threads PROVE Placed(u)'
    BY <1>9 DEF Closed, Delete, Restrict, PlaceInv, Placed
  <2>2. ASSUME NEW u \in Threads PROVE Calls(u)'
    BY <1>9 DEF Closed, Delete, Restrict, CloseTor, PlaceInv, Calls
  <2>3. QED
    BY <1>9, <2>1, <2>2 DEF Closed, Delete, Restrict, PlaceInv
<1>10. ASSUME NEW t \in Threads, NothingToClose(t) PROVE PlaceInv'
  BY <1>10 DEF NothingToClose, Delete, Restrict, vars, PlaceInv, Placed, Calls
<1>11. ASSUME NEW t \in Threads, CloseReturns(t) PROVE PlaceInv'
  BY <1>11 DEF CloseReturns, vars, PlaceInv, Placed, Calls
<1>12. CASE UNCHANGED registryVars
  BY <1>12 DEF registryVars, registry, vars, PlaceInv, Placed, Calls
<1>13. QED
  BY <1>1, <1>2, <1>3, <1>4, <1>5, <1>6, <1>7, <1>8, <1>9, <1>10, <1>11, <1>12
     DEF RegistryNext, CloseOnion, CloseAllOnion

LEMMA PlaceCorrect ==
    ASSUME ~Overlap
    PROVE  RegistrySpec => []PlaceInv
<1>1. Types /\ RegistryTypes /\ PlaceInv /\ [RegistryNext]_registryVars => PlaceInv'
  BY PlaceStep
<1>2. RegistrySpec => []Types
  BY RegistryImplementsTor, TypesCorrect, PTL
<1>3. QED
  BY <1>1, <1>2, PlaceInit, RegistryTypesCorrect, PTL DEF RegistrySpec

(***************************************************************************)
(* What follows.                                                           *)
(***************************************************************************)

\* Calls about one name that do not overlap never meet on one Onion either,
\* though ListenOnion replaces Onions and CloseOnion closes those that other
\* goroutines made (onion.go:387-456).
THEOREM OneCall ==
    ASSUME ~Overlap
    PROVE  RegistrySpec => []OneCallEach
BY PlaceCorrect, PlaceOneCall, RegistryTypesCorrect, PTL

\* The registry is well typed, the reference count included.
THEOREM RegistryTypeCorrect ==
    ASSUME ~Overlap
    PROVE  RegistrySpec => []RegistryTypeOK
<1>1. RegistryTypes /\ TypeOK => RegistryTypeOK
  BY DEF RegistryTypes, RegistryTypeOK, Range
<1>2. QED
  BY <1>1, OneCall, RegistryImplementsTor, TypeCorrect, RegistryTypesCorrect, PTL

\* The registry keeps the count right, the Tor of a call open, and leaves no
\* Tor behind (onion.go:84-102, 231-266, called from 367-456).
THEOREM RegistryKeepsTor ==
    ASSUME ~Overlap
    PROVE  RegistrySpec => [](RefsMatchHolders /\ UsedIsOpen /\ NoTorLeft)
BY OneCall, RegistryImplementsTor, RefsMatch, UsedStaysOpen, NothingLeft, PTL

\* The registry over the count implements the shared service (onion.go:228).
THEOREM RegistryImplementsService ==
    ASSUME ~Overlap
    PROVE  RegistrySpec => ImplementsService
BY OneCall, RegistryImplementsTor, ServiceImplemented, PTL

(***************************************************************************)
(* Nothing is forgotten.  An Onion whose entry is deleted gave its         *)
(* reference back before: nobody else can have asked for another since.    *)
(***************************************************************************)

Given == \A t \in Threads : task[t] = "closingTor" => ~hasRef[inst[t]]

ForgetInv == NothingForgotten /\ Given

LEMMA ForgetInit == RegistryInit => ForgetInv
BY DEF RegistryInit, Init, ForgetInv, NothingForgotten, Given

LEMMA ForgetStep ==
    Types /\ RegistryTypes /\ PlaceInv /\ ForgetInv /\ [RegistryNext]_registryVars => ForgetInv'
<1> SUFFICES ASSUME Types, RegistryTypes, PlaceInv, ForgetInv, [RegistryNext]_registryVars
             PROVE  ForgetInv'
  OBVIOUS
<1> USE DEF Types, RegistryTypes, Tasks, Proceed, Begin, Goto, Range
<1>1. ASSUME NEW t \in Threads, NEW n \in Names,
             ListenOnion(t, n) \/ DialNotFound(t, n) \/ DialFound(t, n)
      PROVE  ForgetInv'
  BY <1>1 DEF ListenOnion, DialNotFound, DialFound, Make, vars, ForgetInv, NothingForgotten, Given
<1>2. ASSUME NEW t \in Threads, NEW names \in SUBSET Names, Close(t, names)
      PROVE  ForgetInv'
  BY <1>2 DEF Close, vars, ForgetInv, NothingForgotten, Given
<1>3. ASSUME NEW t \in Threads, Register(t) PROVE ForgetInv'
  BY <1>3 DEF Register, vars, ForgetInv, NothingForgotten, Given
<1>4. ASSUME NEW t \in Threads, Call(t) \/ Return(t) \/ CloseReturns(t) PROVE ForgetInv'
  BY <1>4 DEF Call, Return, CloseReturns, ReadHasRef, StartFails, Finish, vars,
     ForgetInv, NothingForgotten, Given
<1>5. ASSUME NEW t \in Threads, CallGetTor(t) PROVE ForgetInv'
  <2>1. on[t] = inst[t] /\ inst[t] \in Range(onions)
    BY <1>5 DEF CallGetTor, GetTor, PlaceInv, Placed, Calls
  <2>2. ASSUME NEW u \in Threads, task[u] = "closingTor" PROVE inst[u] # inst[t]
    BY <1>5, <2>2, PlaceOneCall DEF CallGetTor, GetTor, PlaceInv, Calls, OneCallEach
  <2>3. \A o \in Onions : hasRef'[o] => hasRef[o] \/ o = inst[t]
    BY <1>5, <2>1 DEF CallGetTor, GetTor, Count
  <2>4. QED
    BY <1>5, <2>1, <2>2, <2>3 DEF CallGetTor, registry, ForgetInv, NothingForgotten, Given
<1>6. ASSUME NEW t \in Threads, CloseNext(t) PROVE ForgetInv'
  BY <1>6 DEF CloseNext, TakeHasRef, ForgetInv, NothingForgotten, Given
<1>7. ASSUME NEW t \in Threads, Closed(t) PROVE ForgetInv'
  BY <1>7 DEF Closed, CloseTor, Delete, Restrict, ForgetInv, NothingForgotten, Given
<1>8. ASSUME NEW t \in Threads, NothingToClose(t) PROVE ForgetInv'
  BY <1>8 DEF NothingToClose, Delete, Restrict, vars, ForgetInv, NothingForgotten, Given
<1>9. CASE UNCHANGED registryVars
  BY <1>9 DEF registryVars, registry, vars, ForgetInv, NothingForgotten, Given
<1>10. QED
  BY <1>1, <1>2, <1>3, <1>4, <1>5, <1>6, <1>7, <1>8, <1>9
     DEF RegistryNext, CloseOnion, CloseAllOnion

\* Whatever keeps Tor running can be closed by its name, or is an Onion that
\* ListenOnion overwrote in the map (onion.go:423-427).
THEOREM ForgetsNothing ==
    ASSUME ~Overlap
    PROVE  RegistrySpec => []NothingForgotten
<1>1. Types /\ RegistryTypes /\ PlaceInv /\ ForgetInv /\ [RegistryNext]_registryVars
        => ForgetInv'
  BY ForgetStep
<1>2. RegistrySpec => []Types
  BY RegistryImplementsTor, TypesCorrect, PTL
<1>3. ForgetInv => NothingForgotten
  BY DEF ForgetInv
<1>4. QED
  BY <1>1, <1>2, <1>3, ForgetInit, PlaceCorrect, RegistryTypesCorrect, PTL DEF RegistrySpec
=============================================================================
