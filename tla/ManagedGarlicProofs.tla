------------------------ MODULE ManagedGarlicProofs ------------------------
(***************************************************************************)
(* Proofs about ManagedGarlic, for any number of goroutines, names and     *)
(* instances: types, that clean-up finds and closes what is open, and that *)
(* no instance that was made for managing is lost.                         *)
(***************************************************************************)
EXTENDS ManagedGarlic, TLAPS

-----------------------------------------------------------------------------
(* Types *)

\* TypeOK, with what Connect needs of the numbers and Register of an instance.
TypeInv ==
    /\ \E n \in 0..MaxMade : Made = 1..n
    /\ owner \in [Made -> Goals]
    /\ garlics \in [DOMAIN garlics -> Made] /\ DOMAIN garlics \subseteq Names
    /\ garlicsMu \in Threads \cup {Free} /\ defaultDialerMu \in Threads \cup {Free}
    /\ defaultDialer \in Made \cup {None}
    /\ instances \subseteq Made /\ open \subseteq Made
    /\ pc \in [Actors -> Steps]
    /\ goal \in [Threads -> Goals]
    /\ mine \in [Actors -> Made \cup {None}]
    /\ todo \in [Threads -> SUBSET Names]
    /\ left \subseteq Made
    /\ raced \subseteq Actors
    /\ ended \in {"no", "signal", "panic"}
    /\ stuck \subseteq Made /\ replaced \subseteq Made /\ copied \subseteq Made
    /\ \A t \in Threads : pc[t] \in {"enroll", "register"} =>
           mine[t] \in Made /\ owner[mine[t]] = goal[t]
    \* Every name has an instance of its own, and only the goroutine that has the
    \* mutex takes names away: those it has yet to close stay.
    /\ \A n \in DOMAIN garlics : owner[garlics[n]] = n
    /\ \A t \in Threads : pc[t] \in {"next", "closeManaged"} =>
           garlicsMu = t /\ todo[t] \subseteq DOMAIN garlics
    /\ \A t \in Threads : pc[t] = "closeManaged" =>
           mine[t] \in Made /\ owner[mine[t]] \notin todo[t]

LEMMA TypeInvInit == Init => TypeInv
<1> SUFFICES ASSUME Init PROVE TypeInv
  OBVIOUS
<1>1. 0 \in 0..MaxMade /\ Made = 1..0 /\ owner \in [Made -> Goals]
  BY ManagedAssumption DEF Init, Made
<1>2. garlics \in [DOMAIN garlics -> Made] /\ DOMAIN garlics \subseteq Names
  BY DEF Init
<1>3. QED
  BY <1>1, <1>2, ManagedAssumption DEF Init, TypeInv, Actors, Steps, Closes, Goals

LEMMA TypeInvType == TypeInv => TypeOK
BY DEF TypeInv, TypeOK, Made, Range

\* The next number is one that no instance has.
LEMMA NewestIsNext ==
  ASSUME TypeInv
  PROVE  Newest \in 0..MaxMade /\ Made = 1..Newest /\ Newest + 1 \notin Made
BY ManagedAssumption DEF TypeInv, Newest, Made

LEMMA NoneNotMade ==
  ASSUME TypeInv
  PROVE  None \notin Made
BY ManagedAssumption DEF TypeInv, Made, None

LEMMA TypeConnect ==
  ASSUME TypeInv, NEW t \in Threads, Connect(t)
  PROVE  TypeInv'
<1>1. Newest + 1 \in 1..MaxMade /\ Made' = 1..(Newest + 1) /\ Made' = Made \cup {Newest + 1}
  BY NewestIsNext, ManagedAssumption DEF Connect, Made
<1>2. owner' \in [Made' -> Goals]
  BY <1>1 DEF Connect, TypeInv, Made
<1>3. mine' \in [Actors -> Made' \cup {None}] /\ pc' \in [Actors -> Steps]
  BY <1>1 DEF Connect, TypeInv, Transition, Goto, Steps, Actors
<1>4. \A i \in Made : owner'[i] = owner[i]
  BY <1>1 DEF Connect, TypeInv, Made
<1>5. owner'[Newest + 1] = goal[t] /\ mine'[t] = Newest + 1
  BY <1>1, NewestIsNext DEF Connect, TypeInv, Made, Actors
<1>6. \A u \in Threads : pc'[u] \in {"enroll", "register"} =>
         mine'[u] \in Made' /\ owner'[mine'[u]] = goal'[u]
  <2> SUFFICES ASSUME NEW u \in Threads, pc'[u] \in {"enroll", "register"}
               PROVE  mine'[u] \in Made' /\ owner'[mine'[u]] = goal'[u]
    OBVIOUS
  <2>1. CASE u = t
    BY <2>1, <1>1, <1>5 DEF Connect
  <2>2. CASE u # t
    BY <2>2, <1>1, <1>4 DEF Connect, TypeInv, Transition, Goto, Actors
  <2>3. QED
    BY <2>1, <2>2
<1>7. \A n \in DOMAIN garlics' : owner'[garlics'[n]] = n
  BY <1>4 DEF Connect, TypeInv, managed
<1>8. \A u \in Threads : pc'[u] \in {"next", "closeManaged"} =>
         pc[u] = pc'[u] /\ u # t /\ mine'[u] = mine[u]
  BY DEF Connect, TypeInv, Transition, Goto, Actors
<1>9. \A u \in Threads : pc'[u] = "closeManaged" =>
         mine'[u] \in Made' /\ owner'[mine'[u]] \notin todo'[u]
  BY <1>1, <1>4, <1>8 DEF Connect, TypeInv
<1>10. \A u \in Threads : pc'[u] \in {"next", "closeManaged"} =>
         garlicsMu' = u /\ todo'[u] \subseteq DOMAIN garlics'
  BY <1>8 DEF Connect, TypeInv, managed
<1>11. garlics' = garlics /\ garlics \in [DOMAIN garlics -> Made']
  BY <1>1 DEF Connect, TypeInv, managed
<1>12. QED
  BY <1>1, <1>2, <1>3, <1>6, <1>7, <1>9, <1>10, <1>11, ManagedAssumption
     DEF Connect, TypeInv, managed, history

\* The other calls that open or use an instance.
LEMMA TypeOpen ==
  ASSUME TypeInv, NEW t \in Threads,
         \/ \E n \in Names : ListenGarlic(t, n)
         \/ DialGarlic(t) \/ NewGarlic(t)
         \/ ConnectFails(t) \/ Enroll(t) \/ AssignDialer(t) \/ Use(t)
  PROVE  TypeInv'
<1> USE DEF TypeInv, Transition, Goto, Actors, Steps, Closes, Made, Forget, managed, history
<1>1. ASSUME NEW n \in Names, ListenGarlic(t, n) PROVE TypeInv'
  BY <1>1 DEF ListenGarlic, Begin, Goals
<1>2. CASE DialGarlic(t)
  BY <1>2 DEF DialGarlic, Begin, Goals
<1>3. CASE NewGarlic(t)
  BY <1>3 DEF NewGarlic, Begin, Goals
<1>4. CASE ConnectFails(t)
  BY <1>4 DEF ConnectFails, UnlockDialer, Goals
<1>5. CASE Enroll(t)
  BY <1>5 DEF Enroll, Goals
<1>6. CASE AssignDialer(t)
  BY <1>6 DEF AssignDialer, UnlockDialer
<1>7. CASE Use(t)
  BY <1>7 DEF Use, Goals
<1>8. QED
  BY <1>1, <1>2, <1>3, <1>4, <1>5, <1>6, <1>7

LEMMA TypeRegister ==
  ASSUME TypeInv, NEW t \in Threads, Register(t)
  PROVE  TypeInv'
<1> USE DEF TypeInv, Transition, Goto, Actors, Steps, Closes, Made
<1>1. garlics' \in [DOMAIN garlics' -> Made] /\ DOMAIN garlics' \subseteq Names
  BY DEF Register
<1>2. replaced' \subseteq Made
  BY DEF Register
<1>3. QED
  BY <1>1, <1>2 DEF Register

LEMMA TypeCloseCalls ==
  ASSUME TypeInv, NEW t \in Threads,
         \/ \E n \in Names : CloseGarlic(t, n)
         \/ CloseAllGarlic(t)
         \/ \E i \in Made : AppClose(t, i)
         \/ AppClosed(t) \/ LockDialer(t) \/ DialerClosed(t) \/ Lock(t)
  PROVE  TypeInv'
<1> USE DEF TypeInv, Transition, Goto, Actors, Steps, Closes, Made, StartClose, FinishClose,
            Others, UnlockDialer, managed, history
<1>1. ASSUME NEW names \in SUBSET Names, NEW step \in {"lock", "lockDialer"},
             BeginClose(t, names, step)
      PROVE  TypeInv'
  BY <1>1 DEF BeginClose
<1>2. ASSUME NEW i \in Made, AppClose(t, i) PROVE TypeInv'
  BY <1>2 DEF AppClose, Owned
<1>3. CASE AppClosed(t)
  BY <1>3 DEF AppClosed
<1>4. CASE LockDialer(t)
  <2>1. CASE defaultDialer = None
    BY <1>4, <2>1 DEF LockDialer
  <2>2. CASE defaultDialer # None
    <3>1. /\ pc' = [pc EXCEPT ![t] = "closeDialer"]
          /\ mine' = [mine EXCEPT ![t] = defaultDialer]
          /\ defaultDialerMu' = t /\ instances' = instances \ {defaultDialer}
          /\ UNCHANGED <<open, owner, goal, ended, stuck, replaced, copied,
                         garlics, garlicsMu, defaultDialer, todo, left, raced>>
      BY <1>4, <2>2 DEF LockDialer
    <3>2. \A u \in Threads : pc'[u] \in {"enroll", "register", "next", "closeManaged"} =>
             pc'[u] = pc[u] /\ mine'[u] = mine[u]
      BY <3>1
    <3>3. mine' \in [Actors -> Made \cup {None}] /\ pc' \in [Actors -> Steps]
      BY <3>1
    <3>4. QED
      BY <3>1, <3>2, <3>3
  <2>3. QED
    BY <2>1, <2>2
<1>5. CASE DialerClosed(t)
  BY <1>5 DEF DialerClosed
<1>6. CASE Lock(t)
  BY <1>6, ManagedAssumption DEF Lock
<1>7. QED
  BY <1>1, <1>2, <1>3, <1>4, <1>5, <1>6 DEF CloseGarlic, CloseAllGarlic

LEMMA TypeCloseManaged ==
  ASSUME TypeInv, NEW t \in Threads,
         CloseNext(t) \/ ManagedClosed(t) \/ Closed(t)
  PROVE  TypeInv'
<1> USE DEF TypeInv, Transition, Goto, Actors, Steps, Closes, Made
<1>1. CASE CloseNext(t)
  <2>1. PICK n \in todo[t] :
           /\ Transition(t, "next", "closeManaged")
           /\ todo' = [todo EXCEPT ![t] = todo[t] \ {n}]
           /\ StartClose(t, garlics[n])
           /\ UNCHANGED <<managed, left, raced>>
    BY <1>1 DEF CloseNext
  <2>2. n \in DOMAIN garlics /\ garlics[n] \in Made /\ owner[garlics[n]] = n
    BY <2>1
  <2>3. QED
    BY <2>1, <2>2 DEF StartClose, managed, history
<1>2. CASE ManagedClosed(t)
  <2> DEFINE kept == {n \in DOMAIN garlics : garlics[n] # mine[t]}
  <2>1. /\ DOMAIN garlics' = kept
        /\ \A n \in kept : garlics'[n] = garlics[n]
        /\ garlics' \in [kept -> Made]
    BY <1>2 DEF ManagedClosed, Restrict
  <2>2. todo[t] \subseteq kept
    BY <1>2 DEF ManagedClosed
  <2>3. \A u \in Threads : pc'[u] \in {"next", "closeManaged"} => u = t
    BY <1>2 DEF ManagedClosed
  <2>4. /\ garlics' \in [DOMAIN garlics' -> Made] /\ DOMAIN garlics' \subseteq Names
        /\ \A n \in DOMAIN garlics' : owner[garlics'[n]] = n
    BY <2>1
  <2>5. pc'[t] = "next" /\ mine' \in [Actors -> Made \cup {None}]
    BY <1>2 DEF ManagedClosed, FinishClose
  <2>6. /\ pc' = [pc EXCEPT ![t] = "next"] /\ mine' = [mine EXCEPT ![t] = None]
        /\ garlicsMu = t
        /\ UNCHANGED <<garlicsMu, defaultDialer, defaultDialerMu, todo, left,
                       instances, owner, goal, ended, replaced, copied>>
        /\ open' \subseteq Made /\ stuck' \subseteq Made /\ raced' \subseteq Actors
    BY <1>2 DEF ManagedClosed, FinishClose, Others
  <2>7. \A u \in Threads : pc'[u] \in {"enroll", "register"} =>
           pc'[u] = pc[u] /\ mine'[u] = mine[u]
    BY <2>6
  <2>8. \A u \in Threads : pc'[u] \in {"next", "closeManaged"} =>
           garlicsMu' = u /\ todo'[u] \subseteq DOMAIN garlics'
    BY <2>1, <2>2, <2>3, <2>6
  <2>9. \A u \in Threads : pc'[u] # "closeManaged"
    BY <2>3, <2>5
  <2>10. pc' \in [Actors -> Steps]
    BY <2>6
  <2>11. QED
    BY <2>4, <2>5, <2>6, <2>7, <2>8, <2>9, <2>10
<1>3. CASE Closed(t)
  BY <1>3 DEF Closed, history
<1>4. QED
  BY <1>1, <1>2, <1>3

LEMMA TypeCleanUp ==
  ASSUME TypeInv, Signal \/ CleanUp \/ \E a \in Actors : Panic(a)
  PROVE  TypeInv'
<1> USE DEF TypeInv, Transition, Goto, Actors, Steps, Closes, Made, managed, history
<1>1. CASE Signal
  BY <1>1, ManagedAssumption DEF Signal
<1>2. CASE Copy
  BY <1>2, ManagedAssumption DEF Copy
<1>3. CASE CloseNextCopied
  BY <1>3, ManagedAssumption DEF CloseNextCopied, StartClose
<1>4. CASE CopiedClosed
  BY <1>4, ManagedAssumption DEF CopiedClosed, FinishClose, Others
<1>5. CASE Exit
  BY <1>5 DEF Exit
<1>6. ASSUME NEW a \in Actors, Panic(a) PROVE TypeInv'
  BY <1>6 DEF Panic
<1>7. QED
  BY <1>1, <1>2, <1>3, <1>4, <1>5, <1>6 DEF CleanUp

LEMMA TypeStep == TypeInv /\ [Next]_vars => TypeInv'
<1> SUFFICES ASSUME TypeInv, [Next]_vars PROVE TypeInv'
  OBVIOUS
<1>1. ASSUME NEW t \in Threads, Call(t) PROVE TypeInv'
  BY <1>1, TypeOpen, TypeCloseCalls DEF Call
<1>2. ASSUME NEW t \in Threads, Proceed(t) PROVE TypeInv'
  BY <1>2, TypeConnect, TypeOpen, TypeCloseCalls, TypeCloseManaged DEF Proceed
<1>3. ASSUME NEW t \in Threads, Acquire(t) PROVE TypeInv'
  BY <1>3, TypeRegister, TypeCloseCalls DEF Acquire
<1>4. CASE Signal \/ CleanUp \/ \E a \in Actors : Panic(a)
  BY <1>4, TypeCleanUp
<1>5. CASE UNCHANGED vars
  BY <1>5 DEF TypeInv, vars, managed, threads, history, Made
<1>6. QED
  BY <1>1, <1>2, <1>3, <1>4, <1>5 DEF Next

\* Types, for any number of goroutines, names and instances.
THEOREM TypeCorrect == Spec => []TypeOK
<1>1. Spec => []TypeInv
  BY TypeInvInit, TypeStep, PTL DEF Spec
<1>2. QED
  BY <1>1, TypeInvType, PTL

-----------------------------------------------------------------------------
(* What a signal finds and closes *)

\* What clean-up copied and is still open has yet to be closed.
ExitInv ==
    /\ pc[Handler] \in {"idle", "copy", "nextCopied", "closeCopied"}
    /\ pc[Handler] \in {"idle", "copy"} => copied = {}
    /\ copied \cap open \subseteq left \cup stuck \cup {mine[Handler]}
    /\ pc[Handler] # "closeCopied" => mine[Handler] = None
    /\ ended = "signal" => pc[Handler] = "nextCopied" /\ left = {}

CleanInv == TypeInv /\ CoveredByCleanup /\ ExitInv

LEMMA CleanInit == Init => CoveredByCleanup /\ ExitInv
BY ManagedAssumption DEF Init, CoveredByCleanup, ExitInv, Actors

\* A step that neither opens nor closes anything, and takes nobody away from
\* an instance that is being made or closed.
LEMMA CleanKept ==
  ASSUME CleanInv, open' \subseteq open, UNCHANGED <<copied, left, stuck, ended>>,
         instances \subseteq instances',
         pc'[Handler] = pc[Handler] /\ mine'[Handler] = mine[Handler],
         \A a \in Actors : pc[a] \in Closes => pc'[a] = pc[a] /\ mine'[a] = mine[a],
         \A t \in Threads : pc[t] = "enroll" => pc'[t] = pc[t] /\ mine'[t] = mine[t]
  PROVE  CoveredByCleanup' /\ ExitInv'
<1>1. CoveredByCleanup'
  BY DEF CleanInv, CoveredByCleanup, BeingClosed
<1>2. ExitInv'
  BY DEF CleanInv, ExitInv
<1>3. QED
  BY <1>1, <1>2

\* Close begins: the instance leaves the registry, and a has it.
LEMMA CleanStart ==
  ASSUME CleanInv, NEW a \in Actors, NEW i, StartClose(a, i),
         pc[a] \notin Closes \cup {"enroll"}, pc'[a] \in Closes,
         \A b \in Actors \ {a} : pc'[b] = pc[b],
         a = Handler => pc[a] = "nextCopied" /\ pc'[a] = "closeCopied" /\ left' = left \ {i},
         a # Handler => left' = left,
         ended = "no"
  PROVE  CoveredByCleanup' /\ ExitInv'
<1> USE DEF CleanInv, TypeInv, StartClose, history
<1>1. mine'[a] = i /\ \A b \in Actors \ {a} : mine'[b] = mine[b]
  OBVIOUS
<1>2. i \in BeingClosed' /\ BeingClosed \subseteq BeingClosed'
  BY <1>1 DEF BeingClosed
<1>3. {mine[t] : t \in {u \in Threads : pc[u] = "enroll"}}
        \subseteq {mine'[t] : t \in {u \in Threads : pc'[u] = "enroll"}}
  BY <1>1 DEF Actors
<1>4. CoveredByCleanup'
  BY <1>2, <1>3 DEF CoveredByCleanup
<1>5. ExitInv'
  <2>1. UNCHANGED <<open, copied, stuck, ended>> /\ Handler \in Actors
    BY DEF Actors
  <2>2. CASE a = Handler
    BY <1>1, <2>1, <2>2, NoneNotMade DEF ExitInv
  <2>3. CASE a # Handler
    BY <1>1, <2>1, <2>3 DEF ExitInv
  <2>4. QED
    BY <2>2, <2>3
<1>6. QED
  BY <1>4, <1>5

\* Close ends: the instance is closed, or it is stuck.
LEMMA CleanFinish ==
  ASSUME CleanInv, NEW a \in Actors, FinishClose(a),
         pc[a] \in Closes, pc'[a] \notin Closes \cup {"enroll"},
         \A b \in Actors \ {a} : pc'[b] = pc[b],
         a = Handler => pc[a] = "closeCopied" /\ pc'[a] = "nextCopied",
         left' = left, ended = "no"
  PROVE  CoveredByCleanup' /\ ExitInv'
<1> USE DEF CleanInv, TypeInv, FinishClose
<1>1. mine'[a] = None /\ \A b \in Actors \ {a} : mine'[b] = mine[b]
  OBVIOUS
<1>2. BeingClosed \subseteq BeingClosed' \cup {mine[a]}
  BY <1>1 DEF BeingClosed
<1>3. {mine[t] : t \in {u \in Threads : pc[u] = "enroll"}}
        \subseteq {mine'[t] : t \in {u \in Threads : pc'[u] = "enroll"}}
  BY <1>1 DEF Actors, Closes
<1>4. /\ open' \subseteq open /\ stuck \subseteq stuck' /\ mine[a] \notin open' \ stuck'
      /\ UNCHANGED <<instances, copied, ended>>
  OBVIOUS
<1>5. CoveredByCleanup'
  BY <1>2, <1>3, <1>4 DEF CoveredByCleanup
<1>6. ExitInv'
  <2>1. CASE a = Handler
    BY <1>1, <1>4, <2>1 DEF ExitInv, Actors
  <2>2. CASE a # Handler
    BY <1>1, <1>4, <2>2 DEF ExitInv, Actors
  <2>3. QED
    BY <2>1, <2>2
<1>7. QED
  BY <1>5, <1>6

\* A new instance is open, on its way to the registry, and not one that
\* clean-up has copied.
LEMMA CleanConnect ==
  ASSUME CleanInv, NEW t \in Threads, Connect(t)
  PROVE  CoveredByCleanup' /\ ExitInv'
<1> USE DEF CleanInv, Connect, Transition, Goto, managed, history
<1>1. Newest + 1 \notin Made /\ t # Handler
  BY NewestIsNext, ManagedAssumption
<1>2. mine'[t] = Newest + 1 /\ \A b \in Actors \ {t} : mine'[b] = mine[b] /\ pc'[b] = pc[b]
  BY DEF TypeInv, Actors
<1>3. pc[t] = "connect" /\ pc'[t] = "enroll"
  BY DEF TypeInv, Actors
<1>4. BeingClosed \subseteq BeingClosed'
  BY <1>2, <1>3 DEF BeingClosed, Closes
<1>5. Newest + 1 \in {mine'[u] : u \in {w \in Threads : pc'[w] = "enroll"}}
  BY <1>2, <1>3
<1>6. {mine[u] : u \in {w \in Threads : pc[w] = "enroll"}}
        \subseteq {mine'[u] : u \in {w \in Threads : pc'[w] = "enroll"}}
  BY <1>2, <1>3 DEF Actors
<1>7. CoveredByCleanup'
  BY <1>4, <1>5, <1>6 DEF CoveredByCleanup
<1>8. ExitInv'
  BY <1>1, <1>2 DEF ExitInv, TypeInv, Actors
<1>9. QED
  BY <1>7, <1>8

LEMMA CleanEnroll ==
  ASSUME CleanInv, NEW t \in Threads, Enroll(t)
  PROVE  CoveredByCleanup' /\ ExitInv'
<1> USE DEF CleanInv, Enroll, Transition, Goto, Forget, managed, history
<1>1. /\ t # Handler
      /\ \A b \in Actors \ {t} : mine'[b] = mine[b] /\ pc'[b] = pc[b]
  BY ManagedAssumption DEF TypeInv, Actors
<1>2. pc[t] = "enroll" /\ mine[t] \in instances'
  OBVIOUS
<1>3. BeingClosed \subseteq BeingClosed'
  BY <1>1, <1>2 DEF BeingClosed, Closes
<1>4. {mine[u] : u \in {w \in Threads : pc[w] = "enroll"}}
        \subseteq {mine'[u] : u \in {w \in Threads : pc'[w] = "enroll"}} \cup instances'
  BY <1>1, <1>2 DEF Actors
<1>5. CoveredByCleanup'
  BY <1>3, <1>4 DEF CoveredByCleanup
<1>6. ExitInv'
  BY <1>1 DEF ExitInv, Actors
<1>7. QED
  BY <1>5, <1>6

-----------------------------------------------------------------------------

\* A call that begins, or goes on without an instance of its own: only its own
\* goroutine moves, and no instance is opened, closed or stored.
Quiet(t) ==
    \/ \E n \in Names : ListenGarlic(t, n)
    \/ DialGarlic(t) \/ NewGarlic(t)
    \/ ConnectFails(t) \/ Use(t)
    \/ \E n \in Names : CloseGarlic(t, n)
    \/ CloseAllGarlic(t) \/ Lock(t) \/ Closed(t)
    \/ LockDialer(t) /\ defaultDialer = None

LEMMA QuietStep ==
  ASSUME TypeInv, NEW t \in Threads, Quiet(t)
  PROVE  /\ UNCHANGED <<open, owner, instances, garlics, defaultDialer, stuck, replaced,
                        copied, left, ended>>
         /\ \A b \in Actors \ {t} : mine'[b] = mine[b] /\ pc'[b] = pc[b]
         /\ pc[t] \notin Closes \cup {"enroll", "register"}
<1> USE DEF Transition, Goto, Forget, managed, history, TypeInv, Actors, Closes
<1>1. CASE (\E n \in Names : ListenGarlic(t, n)) \/ DialGarlic(t) \/ NewGarlic(t)
  BY <1>1 DEF ListenGarlic, DialGarlic, NewGarlic, Begin
<1>2. CASE ConnectFails(t) \/ Use(t)
  BY <1>2 DEF ConnectFails, Use
<1>3. CASE (\E n \in Names : CloseGarlic(t, n)) \/ CloseAllGarlic(t)
  BY <1>3 DEF CloseGarlic, CloseAllGarlic, BeginClose
<1>4. CASE Lock(t) \/ Closed(t) \/ (LockDialer(t) /\ defaultDialer = None)
  BY <1>4 DEF Lock, Closed, LockDialer
<1>5. QED
  BY <1>1, <1>2, <1>3, <1>4 DEF Quiet

\* The steps that CleanKept covers.
LEMMA CleanOpen ==
  ASSUME CleanInv, NEW t \in Threads, Quiet(t) \/ AssignDialer(t) \/ Register(t)
  PROVE  CoveredByCleanup' /\ ExitInv'
<1>1. /\ UNCHANGED <<open, instances, copied, left, stuck, ended>>
      /\ \A b \in Actors \ {t} : mine'[b] = mine[b] /\ pc'[b] = pc[b]
      /\ pc[t] \notin Closes \cup {"enroll"}
  <2>1. CASE Quiet(t)
    BY <2>1, QuietStep DEF CleanInv
  <2>2. CASE AssignDialer(t) \/ Register(t)
    BY <2>2 DEF AssignDialer, Register, Transition, Goto, history, CleanInv, TypeInv, Actors,
                Closes
  <2>3. QED
    BY <2>1, <2>2
<1>2. t \in Actors /\ Handler \in Actors \ {t}
  BY ManagedAssumption DEF Actors
<1>3. QED
  BY <1>1, <1>2, CleanKept DEF Actors

LEMMA CleanClose ==
  ASSUME CleanInv, ended = "no", NEW t \in Threads,
         \/ \E i \in Made : AppClose(t, i)
         \/ AppClosed(t) \/ DialerClosed(t) \/ CloseNext(t) \/ ManagedClosed(t)
         \/ LockDialer(t) /\ defaultDialer # None
  PROVE  CoveredByCleanup' /\ ExitInv'
<1> USE DEF Transition, Goto
<1>1. t \in Actors /\ t # Handler /\ pc \in [Actors -> Steps]
  BY ManagedAssumption DEF Actors, CleanInv, TypeInv
<1>2. ASSUME NEW i \in Made, AppClose(t, i) PROVE CoveredByCleanup' /\ ExitInv'
  BY <1>1, <1>2, CleanStart DEF AppClose, Closes
<1>3. CASE AppClosed(t)
  BY <1>1, <1>3, CleanFinish DEF AppClosed, Closes
<1>4. CASE DialerClosed(t)
  BY <1>1, <1>4, CleanFinish DEF DialerClosed, Closes
<1>5. CASE CloseNext(t)
  BY <1>1, <1>5, CleanStart DEF CloseNext, Closes
<1>6. CASE ManagedClosed(t)
  BY <1>1, <1>6, CleanFinish DEF ManagedClosed, Closes
<1>7. CASE LockDialer(t) /\ defaultDialer # None
  BY <1>1, <1>7, CleanStart DEF LockDialer, Closes
<1>8. QED
  BY <1>2, <1>3, <1>4, <1>5, <1>6, <1>7

LEMMA CleanHandler ==
  ASSUME CleanInv, ended = "no", Signal \/ CleanUp \/ \E a \in Actors : Panic(a)
  PROVE  CoveredByCleanup' /\ ExitInv'
<1> USE DEF Transition, Goto
<1>1. Handler \in Actors /\ Handler \notin Threads /\ pc \in [Actors -> Steps]
  BY ManagedAssumption DEF Actors, CleanInv, TypeInv
<1>2. CASE Signal \/ Copy
  <2>1. /\ pc[Handler] \in {"idle", "copy"} /\ pc'[Handler] \in {"copy", "nextCopied"}
        /\ \A t \in Threads : pc'[t] = pc[t]
        /\ UNCHANGED <<open, instances, stuck, mine, ended>>
    BY <1>1, <1>2 DEF Signal, Copy, history, Actors
  <2>2. BeingClosed' = BeingClosed
    BY <2>1 DEF BeingClosed, Actors, Closes
  <2>3. CoveredByCleanup'
    BY <2>1, <2>2 DEF CleanInv, CoveredByCleanup
  <2>4. mine[Handler] = None
    BY <2>1 DEF CleanInv, ExitInv
  <2>5. CASE Signal
    <3>1. pc'[Handler] = "copy" /\ copied' = {}
      BY <1>1, <2>5 DEF Signal, CleanInv, ExitInv, history
    <3>2. QED
      BY <2>1, <2>3, <2>4, <3>1 DEF ExitInv
  <2>6. CASE Copy
    <3>1. pc'[Handler] = "nextCopied" /\ copied' = left'
      BY <1>1, <2>6 DEF Copy
    <3>2. QED
      BY <2>1, <2>3, <2>4, <3>1 DEF ExitInv
  <2>7. QED
    BY <1>2, <2>3, <2>5, <2>6
<1>3. CASE CloseNextCopied
  BY <1>1, <1>3, CleanStart DEF CloseNextCopied, Closes
<1>4. CASE CopiedClosed
  BY <1>1, <1>4, CleanFinish DEF CopiedClosed, Closes
<1>5. CASE Exit
  BY <1>5 DEF Exit, managed, history, CleanInv, CoveredByCleanup, BeingClosed, ExitInv
<1>6. ASSUME NEW a \in Actors, Panic(a) PROVE CoveredByCleanup' /\ ExitInv'
  BY <1>6 DEF Panic, managed, history, CleanInv, CoveredByCleanup, BeingClosed, ExitInv
<1>7. QED
  BY <1>2, <1>3, <1>4, <1>5, <1>6 DEF CleanUp

LEMMA CleanStep == CleanInv /\ [Next]_vars => CleanInv'
<1> SUFFICES ASSUME CleanInv, [Next]_vars PROVE CoveredByCleanup' /\ ExitInv'
  BY TypeStep DEF CleanInv
<1>1. CASE Next
  <2>1. ended = "no"
    BY <1>1 DEF Next
  <2>2. ASSUME NEW t \in Threads, Call(t) PROVE CoveredByCleanup' /\ ExitInv'
    BY <2>1, <2>2, CleanOpen, CleanClose DEF Call, Quiet
  <2>3. ASSUME NEW t \in Threads, Proceed(t) PROVE CoveredByCleanup' /\ ExitInv'
    BY <2>1, <2>3, CleanOpen, CleanClose, CleanConnect, CleanEnroll DEF Proceed, Quiet
  <2>4. ASSUME NEW t \in Threads, Acquire(t) PROVE CoveredByCleanup' /\ ExitInv'
    BY <2>1, <2>4, CleanOpen, CleanClose DEF Acquire, Quiet
  <2>5. QED
    BY <1>1, <2>1, <2>2, <2>3, <2>4, CleanHandler DEF Next
<1>2. CASE UNCHANGED vars
  BY <1>2 DEF vars, managed, threads, history, CleanInv, CoveredByCleanup, BeingClosed, ExitInv
<1>3. QED
  BY <1>1, <1>2

LEMMA CleanAlways == Spec => []CleanInv
<1>1. Init => CleanInv
  BY TypeInvInit, CleanInit DEF CleanInv
<1>2. QED
  BY <1>1, CleanStep, PTL DEF Spec

\* Every open Garlic would be found by a signal that comes now, is being made
\* or closed, or could not be closed (newGarlic, EnableAutoCleanup, Close).
THEOREM Covered == Spec => []CoveredByCleanup
<1>1. CleanInv => CoveredByCleanup
  BY DEF CleanInv
<1>2. QED
  BY <1>1, CleanAlways, PTL

\* When cleanupAll is done, what it found in the registry is closed or could
\* not be, whoever else was opening and closing meanwhile.
THEOREM ClosedAtExit == Spec => []ExitClosed
<1>1. CleanInv => ExitClosed
  BY DEF CleanInv, ExitInv, ExitClosed, TypeInv, Made, None
<1>2. QED
  BY <1>1, CleanAlways, PTL

-----------------------------------------------------------------------------
(* Whom the map knows *)

\* Close of an instance begins or ends, seen from the map.
LEMMA KnownClose ==
  ASSUME TypeInv, ManagedKnown, NEW a \in Actors,
         \A b \in Actors \ {a} : pc'[b] = pc[b],
         pc'[a] \notin {"enroll", "register"}, pc[a] \notin {"enroll", "register"},
         \/ /\ \E i : StartClose(a, i)
            /\ pc[a] \notin Closes /\ pc'[a] \in Closes /\ garlics' = garlics
         \/ /\ FinishClose(a)
            /\ pc[a] \in Closes /\ pc'[a] \notin Closes
            /\ \A n \in DOMAIN garlics :
                   garlics[n] # mine[a] => n \in DOMAIN garlics' /\ garlics'[n] = garlics[n]
  PROVE  ManagedKnown'
<1> USE DEF TypeInv
<1>1. SUFFICES ASSUME NEW i \in open' \ (stuck' \cup replaced'), owner'[i] \in Names
               PROVE  \/ i \in Range(garlics)' \cup BeingClosed'
                      \/ \E t \in Threads : pc'[t] \in {"enroll", "register"} /\ mine'[t] = i
  BY DEF ManagedKnown
<1>2. \A b \in Actors \ {a} : mine'[b] = mine[b]
  BY DEF StartClose, FinishClose
<1>3. i \in open \ (stuck \cup replaced) /\ owner[i] \in Names
  BY <1>1 DEF StartClose, FinishClose, history
<1>4. CASE \E t \in Threads : pc[t] \in {"enroll", "register"} /\ mine[t] = i
  BY <1>2, <1>4 DEF Actors
<1>5. CASE i \in BeingClosed /\ i # mine[a]
  BY <1>2, <1>5 DEF BeingClosed
<1>6. CASE i = mine[a] /\ FinishClose(a)
  BY <1>1, <1>6 DEF FinishClose
<1>7. CASE i = mine[a] /\ pc[a] \notin Closes /\ i \in BeingClosed
  BY <1>2, <1>7 DEF BeingClosed
<1>8. CASE i \in Range(garlics) /\ ~(i = mine[a] /\ FinishClose(a))
  BY <1>8 DEF Range
<1>9. QED
  BY <1>3, <1>4, <1>5, <1>6, <1>7, <1>8 DEF ManagedKnown

LEMMA KnownStep == TypeInv /\ ManagedKnown /\ [Next]_vars => ManagedKnown'
<1> SUFFICES ASSUME TypeInv, ManagedKnown, [Next]_vars PROVE ManagedKnown'
  OBVIOUS
<1> USE DEF Transition, Goto, Actors, Closes
<1>1. ASSUME NEW t \in Threads, Quiet(t) PROVE ManagedKnown'
  BY <1>1, QuietStep, ManagedAssumption DEF ManagedKnown, BeingClosed, Range
<1>2. ASSUME NEW t \in Threads, Connect(t) PROVE ManagedKnown'
  <2>1. Newest + 1 \notin Made /\ \A i \in Made : owner'[i] = owner[i]
    BY <1>2, NewestIsNext DEF Connect, Made
  <2>2. /\ pc[t] = "connect" /\ pc'[t] = "enroll" /\ mine'[t] = Newest + 1
        /\ \A b \in Actors \ {t} : mine'[b] = mine[b] /\ pc'[b] = pc[b]
        /\ UNCHANGED <<garlics, stuck, replaced>> /\ open' = open \cup {Newest + 1}
    BY <1>2 DEF Connect, TypeInv, managed, history
  <2>3. BeingClosed' = BeingClosed
    BY <2>2 DEF BeingClosed
  <2>4. QED
    BY <2>1, <2>2, <2>3 DEF ManagedKnown, TypeInv, Range
<1>3. ASSUME NEW t \in Threads, Enroll(t) \/ Register(t) \/ AssignDialer(t) PROVE ManagedKnown'
  <2>1. /\ pc[t] \in {"enroll", "register"} /\ owner[mine[t]] = goal[t]
        /\ \A b \in Actors \ {t} : mine'[b] = mine[b] /\ pc'[b] = pc[b]
        /\ UNCHANGED <<open, owner, stuck>> /\ pc'[t] \notin Closes
        /\ replaced \subseteq replaced'
    BY <1>3 DEF Enroll, Register, AssignDialer, Forget, TypeInv, history
  <2>2. BeingClosed' = BeingClosed
    BY <2>1 DEF BeingClosed
  <2>3. CASE Enroll(t)
    BY <2>1, <2>2, <2>3, ManagedAssumption
       DEF Enroll, ManagedKnown, Range, TypeInv, managed, history, Goals
  <2>4. CASE Register(t)
    BY <2>1, <2>2, <2>4 DEF Register, ManagedKnown, Range, TypeInv
  <2>5. CASE AssignDialer(t)
    BY <2>1, <2>2, <2>5, ManagedAssumption DEF AssignDialer, ManagedKnown, Range, history
  <2>6. QED
    BY <1>3, <2>3, <2>4, <2>5
<1>4. ASSUME NEW t \in Threads,
             \/ \E i \in Made : AppClose(t, i)
             \/ CloseNext(t)
             \/ LockDialer(t) /\ defaultDialer # None
      PROVE  ManagedKnown'
  BY <1>4, KnownClose DEF AppClose, CloseNext, LockDialer, TypeInv, managed
<1>5. ASSUME NEW t \in Threads, AppClosed(t) \/ DialerClosed(t) PROVE ManagedKnown'
  BY <1>5, KnownClose DEF AppClosed, DialerClosed, TypeInv, managed
<1>6. ASSUME NEW t \in Threads, ManagedClosed(t) PROVE ManagedKnown'
  BY <1>6, KnownClose DEF ManagedClosed, Restrict, TypeInv
<1>7. CASE CloseNextCopied \/ CopiedClosed
  BY <1>7, KnownClose DEF CloseNextCopied, CopiedClosed, TypeInv, managed
<1>8. CASE Signal \/ Copy \/ Exit \/ \E a \in Actors : Panic(a)
  <2>1. /\ UNCHANGED <<garlics, open, owner, mine, stuck, replaced>>
        /\ \A t \in Threads : pc'[t] = pc[t]
        /\ pc'[Handler] = pc[Handler] \/ {pc[Handler], pc'[Handler]} \cap Closes = {}
    BY <1>8, ManagedAssumption DEF Signal, Copy, Exit, Panic, managed, history, TypeInv
  <2>2. BeingClosed' = BeingClosed
    BY <2>1 DEF BeingClosed
  <2>3. QED
    BY <2>1, <2>2 DEF ManagedKnown, Range
<1>9. CASE UNCHANGED vars
  BY <1>9 DEF vars, managed, threads, history, ManagedKnown, BeingClosed, Range
<1>10. ASSUME NEW t \in Threads, Call(t) PROVE ManagedKnown'
  BY <1>1, <1>4, <1>10 DEF Call, Quiet
<1>11. ASSUME NEW t \in Threads, Proceed(t) PROVE ManagedKnown'
  BY <1>1, <1>2, <1>3, <1>4, <1>5, <1>6, <1>11 DEF Proceed, Quiet
<1>12. ASSUME NEW t \in Threads, Acquire(t) PROVE ManagedKnown'
  BY <1>1, <1>3, <1>4, <1>12 DEF Acquire, Quiet
<1>13. QED
  BY <1>7, <1>8, <1>9, <1>10, <1>11, <1>12 DEF Next, CleanUp

\* An open instance of ListenGarlic is in the map, on its way there or to be
\* closed, or it could not be closed, or another has taken its name.
THEOREM Known == Spec => []ManagedKnown
<1>1. Init => ManagedKnown
  BY DEF Init, ManagedKnown
<1>2. QED
  BY <1>1, TypeInvInit, TypeStep, KnownStep, PTL DEF Spec

-----------------------------------------------------------------------------
(* The shared dialer *)

Creating(t) == pc[t] \in {"connect", "enroll", "register"} /\ goal[t] = Dialer

\* Who has the mutex of the dialer creates it, when there is none, or closes it.
DialInv ==
    /\ \A t \in Threads : Creating(t) => defaultDialerMu = t /\ defaultDialer = None
    /\ \A t \in Threads :
           pc[t] = "closeDialer" => defaultDialerMu = t /\ mine[t] = defaultDialer
    /\ \A t \in Threads : defaultDialerMu = t => Creating(t) \/ pc[t] = "closeDialer"
    /\ \A t \in Threads : pc[t] = "connect" => mine[t] = None

DialersInv == TypeInv /\ DialInv /\ OneDialer

\* One goroutine moves, and neither takes nor leaves the mutex.
LEMMA DialKept ==
  ASSUME DialersInv, NEW a \in Actors, pc'[a] \notin {"connect", "closeDialer"},
         a \in Threads => defaultDialerMu # a,
         a \in Threads /\ pc'[a] \in {"enroll", "register"} => goal'[a] # Dialer,
         \A b \in Actors \ {a} : pc'[b] = pc[b] /\ mine'[b] = mine[b],
         \A t \in Threads \ {a} : goal'[t] = goal[t],
         UNCHANGED <<defaultDialer, defaultDialerMu>>
  PROVE  DialInv'
BY DEF DialersInv, DialInv, Creating, Actors

LEMMA DialClose ==
  ASSUME DialersInv, NEW a \in Actors,
         \A b \in Actors \ {a} : pc'[b] = pc[b],
         a \in Threads => defaultDialerMu # a \/ mine[a] = defaultDialer,
         \/ defaultDialer' = defaultDialer
         \/ FinishClose(a) /\ mine[a] = defaultDialer,
         \A t \in Threads \ {a} : defaultDialerMu = t => defaultDialerMu' = t,
         \/ /\ \E i : StartClose(a, i)
            /\ pc[a] \notin Closes /\ pc'[a] \in Closes
         \/ FinishClose(a) /\ pc[a] \in Closes /\ pc'[a] \notin Closes
  PROVE  OneDialer'
<1> USE DEF DialersInv, TypeInv
<1>1. SUFFICES ASSUME NEW i \in open' \ stuck', owner'[i] = Dialer
               PROVE  \/ i \in BeingClosed' \cup {defaultDialer'}
                      \/ \E t \in Threads : defaultDialerMu' = t /\ mine'[t] = i
  BY DEF OneDialer
<1>2. \A b \in Actors \ {a} : mine'[b] = mine[b]
  BY DEF StartClose, FinishClose
<1>3. i \in open \ stuck /\ owner[i] = Dialer
  BY <1>1 DEF StartClose, FinishClose, history
<1>4. CASE i = mine[a] /\ FinishClose(a)
  BY <1>1, <1>4 DEF FinishClose
<1>5. CASE i \in BeingClosed /\ ~(i = mine[a] /\ FinishClose(a))
  BY <1>2, <1>5 DEF BeingClosed
<1>6. CASE i = defaultDialer /\ ~(i = mine[a] /\ FinishClose(a))
  BY <1>6
<1>7. CASE \E t \in Threads : defaultDialerMu = t /\ mine[t] = i
  BY <1>2, <1>4, <1>6, <1>7 DEF Actors
<1>8. QED
  BY <1>3, <1>4, <1>5, <1>6, <1>7 DEF OneDialer

\* A goroutine that neither opens nor closes anything.
LEMMA DialQuiet ==
  ASSUME DialersInv, NEW t \in Threads, Quiet(t) \/ Enroll(t) \/ Register(t) \/ AssignDialer(t)
  PROVE  DialInv' /\ OneDialer'
<1> USE DEF DialersInv, TypeInv, Transition, Goto, Forget, Actors
<1>1. /\ UNCHANGED <<open, owner, stuck>>
      /\ \A b \in Actors \ {t} : mine'[b] = mine[b] /\ pc'[b] = pc[b]
      /\ pc[t] \notin Closes /\ pc'[t] \notin Closes
  <2>1. CASE Quiet(t)
    <3>1. pc'[t] \notin Closes
      BY <2>1 DEF Quiet, ListenGarlic, DialGarlic, NewGarlic, Begin, ConnectFails, Use,
                  CloseGarlic, CloseAllGarlic, BeginClose, Lock, Closed, LockDialer, Closes
    <3>2. QED
      BY <2>1, <3>1, QuietStep
  <2>2. CASE Enroll(t) \/ Register(t) \/ AssignDialer(t)
    BY <2>2 DEF Enroll, Register, AssignDialer, history, Closes
  <2>3. QED
    BY <2>1, <2>2
<1>2. BeingClosed' = BeingClosed
  <2>1. \A c \in Actors : pc[c] \in Closes \/ pc'[c] \in Closes =>
           pc'[c] = pc[c] /\ mine'[c] = mine[c]
    BY <1>1
  <2>2. QED
    BY <2>1 DEF BeingClosed
<1>3. None \notin open
  BY NoneNotMade
<1>4. CASE \E n \in Names : ListenGarlic(t, n)
  BY <1>1, <1>2, <1>4, ManagedAssumption
     DEF ListenGarlic, Begin, DialInv, OneDialer, Creating, Closes
<1>5. CASE DialGarlic(t)
  BY <1>1, <1>2, <1>5, ManagedAssumption
     DEF DialGarlic, Begin, DialInv, OneDialer, Creating
<1>6. CASE NewGarlic(t)
  BY <1>1, <1>2, <1>6 DEF NewGarlic, Begin, DialInv, OneDialer, Creating, App, Dialer
<1>7. CASE ConnectFails(t)
  BY <1>1, <1>2, <1>3, <1>7, ManagedAssumption
     DEF ConnectFails, UnlockDialer, DialInv, OneDialer, Creating
<1>8. CASE Use(t)
  BY <1>1, <1>2, <1>8 DEF Use, managed, DialInv, OneDialer, Creating
<1>9. CASE (\E n \in Names : CloseGarlic(t, n)) \/ CloseAllGarlic(t)
  BY <1>1, <1>2, <1>9
     DEF CloseGarlic, CloseAllGarlic, BeginClose, managed, DialInv, OneDialer, Creating
<1>10. CASE Lock(t) \/ Closed(t) \/ (LockDialer(t) /\ defaultDialer = None)
  BY <1>1, <1>2, <1>10 DEF Lock, Closed, LockDialer, DialInv, OneDialer, Creating
<1>11. CASE Enroll(t)
  BY <1>1, <1>2, <1>11
     DEF Enroll, managed, DialInv, OneDialer, Creating, App, Dialer
<1>12. CASE Register(t)
  BY <1>1, <1>2, <1>12, ManagedAssumption DEF Register, DialInv, OneDialer, Creating
<1>13. CASE AssignDialer(t)
  BY <1>1, <1>2, <1>3, <1>13, ManagedAssumption
     DEF AssignDialer, UnlockDialer, DialInv, OneDialer, Creating
<1>14. QED
  BY <1>4, <1>5, <1>6, <1>7, <1>8, <1>9, <1>10, <1>11, <1>12, <1>13 DEF Quiet

LEMMA DialStep == DialersInv /\ [Next]_vars => DialersInv'
<1> SUFFICES ASSUME DialersInv, [Next]_vars PROVE DialInv' /\ OneDialer'
  BY TypeStep DEF DialersInv
<1> USE DEF Transition, Goto, Actors
<1>1. ASSUME NEW t \in Threads, Connect(t) PROVE DialInv' /\ OneDialer'
  <2>1. Newest + 1 \notin Made /\ \A i \in Made : owner'[i] = owner[i]
    BY <1>1, NewestIsNext DEF Connect, Made, DialersInv
  <2>2. /\ pc[t] = "connect" /\ pc'[t] = "enroll" /\ mine'[t] = Newest + 1
        /\ \A b \in Actors \ {t} : mine'[b] = mine[b] /\ pc'[b] = pc[b]
        /\ UNCHANGED <<stuck, defaultDialer, defaultDialerMu, goal>>
        /\ open' = open \cup {Newest + 1} /\ owner'[Newest + 1] = goal[t]
    BY <1>1, NewestIsNext DEF Connect, DialersInv, TypeInv, managed, history, Made
  <2>3. BeingClosed' = BeingClosed
    BY <2>2 DEF BeingClosed, Closes
  <2>4. DialInv'
    BY <2>2 DEF DialersInv, DialInv, Creating
  <2>5. OneDialer'
    <3>1. SUFFICES ASSUME NEW i \in open' \ stuck', owner'[i] = Dialer
                   PROVE  \/ i \in BeingClosed' \cup {defaultDialer'}
                          \/ \E u \in Threads : defaultDialerMu' = u /\ mine'[u] = i
      BY DEF OneDialer
    <3>2. CASE i = Newest + 1
      BY <2>2, <3>1, <3>2 DEF DialersInv, DialInv, Creating
    <3>3. CASE i \in open
      <4>1. mine[t] = None /\ None \notin Made
        BY <2>2, NoneNotMade DEF DialersInv, DialInv
      <4>2. i \in Made /\ i # mine[t] /\ owner[i] = Dialer
        BY <2>1, <3>1, <3>3, <4>1 DEF DialersInv, TypeInv
      <4>3. QED
        BY <2>2, <2>3, <3>1, <3>3, <4>2 DEF DialersInv, OneDialer
    <3>4. QED
      BY <2>2, <3>1, <3>2, <3>3
  <2>6. QED
    BY <2>4, <2>5
<1>2. ASSUME NEW t \in Threads, LockDialer(t), defaultDialer # None
      PROVE  DialInv' /\ OneDialer'
  <2>1. /\ pc[t] = "lockDialer" /\ pc'[t] = "closeDialer"
        /\ \A b \in Actors \ {t} : pc'[b] = pc[b] /\ mine'[b] = mine[b]
        /\ defaultDialerMu = Free /\ defaultDialerMu' = t
        /\ mine'[t] = defaultDialer /\ UNCHANGED <<defaultDialer, goal>>
        /\ StartClose(t, defaultDialer)
    BY <1>2 DEF LockDialer, StartClose, DialersInv, TypeInv
  <2>2. DialInv'
    BY <2>1, ManagedAssumption DEF DialersInv, DialInv, Creating
  <2>3. OneDialer'
    BY <2>1, DialClose, ManagedAssumption DEF Closes
  <2>4. QED
    BY <2>2, <2>3
<1>3. ASSUME NEW t \in Threads, DialerClosed(t) PROVE DialInv' /\ OneDialer'
  <2>1. /\ pc[t] = "closeDialer" /\ pc'[t] = "lock"
        /\ \A b \in Actors \ {t} : pc'[b] = pc[b] /\ mine'[b] = mine[b]
        /\ defaultDialerMu = t /\ defaultDialerMu' = Free
        /\ mine[t] = defaultDialer /\ defaultDialer' = None /\ UNCHANGED goal
        /\ FinishClose(t)
    BY <1>3 DEF DialerClosed, UnlockDialer, FinishClose, DialersInv, DialInv, TypeInv
  <2>2. DialInv'
    BY <2>1, ManagedAssumption DEF DialersInv, DialInv, Creating
  <2>3. OneDialer'
    BY <2>1, DialClose DEF Closes
  <2>4. QED
    BY <2>2, <2>3
<1>4. ASSUME NEW t \in Threads,
             \/ \E i \in Made : AppClose(t, i)
             \/ CloseNext(t)
      PROVE  DialInv' /\ OneDialer'
  <2>1. /\ pc[t] \in {"idle", "next"} /\ pc'[t] \in {"closeApp", "closeManaged"}
        /\ \A b \in Actors \ {t} : pc'[b] = pc[b] /\ mine'[b] = mine[b]
        /\ UNCHANGED <<defaultDialer, defaultDialerMu, goal>>
        /\ \E i : StartClose(t, i)
    BY <1>4 DEF AppClose, CloseNext, StartClose, DialersInv, TypeInv, managed
  <2>2. defaultDialerMu # t
    BY <2>1 DEF DialersInv, DialInv, Creating
  <2>3. DialInv'
    BY <2>1, <2>2, DialKept
  <2>4. OneDialer'
    BY <2>1, <2>2, DialClose DEF Closes
  <2>5. QED
    BY <2>3, <2>4
<1>5. ASSUME NEW t \in Threads, AppClosed(t) \/ ManagedClosed(t) PROVE DialInv' /\ OneDialer'
  <2>1. /\ pc[t] \in {"closeApp", "closeManaged"} /\ pc'[t] \in {"idle", "next"}
        /\ \A b \in Actors \ {t} : pc'[b] = pc[b] /\ mine'[b] = mine[b]
        /\ UNCHANGED <<defaultDialer, defaultDialerMu, goal>>
        /\ FinishClose(t)
    BY <1>5 DEF AppClosed, ManagedClosed, FinishClose, DialersInv, TypeInv, managed
  <2>2. defaultDialerMu # t
    BY <2>1 DEF DialersInv, DialInv, Creating
  <2>3. DialInv'
    BY <2>1, <2>2, DialKept
  <2>4. OneDialer'
    BY <2>1, <2>2, DialClose DEF Closes
  <2>5. QED
    BY <2>3, <2>4
<1>6. CASE CloseNextCopied \/ CopiedClosed
  <2>1. /\ {pc[Handler], pc'[Handler]} = {"nextCopied", "closeCopied"}
        /\ \A b \in Threads : pc'[b] = pc[b] /\ mine'[b] = mine[b]
        /\ UNCHANGED <<defaultDialer, defaultDialerMu, goal>>
    BY <1>6, ManagedAssumption
       DEF CloseNextCopied, CopiedClosed, StartClose, FinishClose, DialersInv, TypeInv, managed
  <2>2. DialInv'
    BY <2>1, ManagedAssumption DEF DialersInv, DialInv, Creating
  <2>3. CASE CloseNextCopied
    <3>1. /\ pc'[Handler] = "closeCopied" /\ pc[Handler] = "nextCopied"
          /\ \A b \in Actors \ {Handler} : pc'[b] = pc[b] /\ mine'[b] = mine[b]
          /\ \E i : StartClose(Handler, i)
      BY <2>3 DEF CloseNextCopied, StartClose, DialersInv, TypeInv
    <3>2. OneDialer'
      BY <2>1, <3>1, DialClose, ManagedAssumption DEF Closes, DialersInv, TypeInv
    <3>3. QED
      BY <2>2, <3>2
  <2>4. CASE CopiedClosed
    <3>1. /\ pc'[Handler] = "nextCopied" /\ pc[Handler] = "closeCopied"
          /\ \A b \in Actors \ {Handler} : pc'[b] = pc[b] /\ mine'[b] = mine[b]
          /\ FinishClose(Handler)
      BY <2>4 DEF CopiedClosed, FinishClose, DialersInv, TypeInv
    <3>2. OneDialer'
      BY <2>1, <3>1, DialClose, ManagedAssumption DEF Closes, DialersInv, TypeInv
    <3>3. QED
      BY <2>2, <3>2
  <2>5. QED
    BY <1>6, <2>3, <2>4
<1>7. CASE Signal \/ Copy \/ Exit \/ \E a \in Actors : Panic(a)
  <2>1. /\ UNCHANGED <<defaultDialer, defaultDialerMu, open, owner, mine, goal, stuck>>
        /\ \A t \in Threads : pc'[t] = pc[t]
        /\ pc'[Handler] = pc[Handler] \/ {pc[Handler], pc'[Handler]} \cap Closes = {}
    BY <1>7, ManagedAssumption
       DEF Signal, Copy, Exit, Panic, managed, history, DialersInv, TypeInv, Closes
  <2>2. BeingClosed' = BeingClosed
    BY <2>1 DEF BeingClosed
  <2>3. QED
    BY <2>1, <2>2 DEF DialersInv, DialInv, OneDialer, Creating
<1>8. CASE UNCHANGED vars
  BY <1>8 DEF vars, managed, threads, history, DialersInv, DialInv, OneDialer, BeingClosed, Creating
<1>9. ASSUME NEW t \in Threads, Call(t) PROVE DialInv' /\ OneDialer'
  BY <1>4, <1>9, DialQuiet DEF Call, Quiet
<1>10. ASSUME NEW t \in Threads, Proceed(t) PROVE DialInv' /\ OneDialer'
  <2>1. CASE Connect(t)
    BY <1>1, <2>1
  <2>2. CASE DialerClosed(t) \/ CloseNext(t) \/ AppClosed(t) \/ ManagedClosed(t)
    BY <1>3, <1>4, <1>5, <2>2
  <2>3. CASE ConnectFails(t) \/ Enroll(t) \/ AssignDialer(t) \/ Use(t) \/ Closed(t)
    BY <2>3, DialQuiet DEF Quiet
  <2>4. QED
    BY <1>10, <2>1, <2>2, <2>3 DEF Proceed
<1>11. ASSUME NEW t \in Threads, Acquire(t) PROVE DialInv' /\ OneDialer'
  BY <1>2, <1>11, DialQuiet DEF Acquire, Quiet
<1>12. QED
  BY <1>6, <1>7, <1>8, <1>9, <1>10, <1>11 DEF Next, CleanUp

\* An open instance made for dialling is the one that the next DialGarlic finds,
\* or it is being stored under the mutex, or closed, or could not be closed.
THEOREM SharedDialer == Spec => []OneDialer
<1>1. Init => DialersInv
  <2>1. Init => DialInv
    BY ManagedAssumption DEF Init, DialInv, Creating, Actors
  <2>2. Init => OneDialer
    BY DEF Init, OneDialer
  <2>3. QED
    BY <2>1, <2>2, TypeInvInit DEF DialersInv
<1>2. DialersInv => OneDialer
  BY DEF DialersInv
<1>3. QED
  BY <1>1, <1>2, DialStep, PTL DEF Spec

-----------------------------------------------------------------------------
(* What the next call finds *)

\* t has an instance that the map or the dialer is to get.
Making(t) == pc[t] \in {"enroll", "register"} /\ goal[t] # App

MapOpen == \A n \in DOMAIN garlics : garlics[n] \in open \cup copied

DialerOpen ==
    defaultDialer # None =>
        defaultDialer \in open \cup copied /\ owner[defaultDialer] = Dialer

\* Nobody else has what t is making.
MakingOpen ==
    \A t \in Threads : Making(t) =>
        /\ mine[t] \in open \cup copied
        /\ \A n \in DOMAIN garlics : garlics[n] # mine[t]
        /\ \A u \in Threads \ {t} : Making(u) => mine[u] # mine[t]

\* The application closes what is its own, CloseGarlic what the map has, and the
\* handler what it copied.
ClosesOwn ==
    /\ \A t \in Threads : pc[t] = "closeApp" => mine[t] \in Made /\ owner[mine[t]] = App
    /\ \A t \in Threads : pc[t] = "closeManaged" =>
           \E n \in DOMAIN garlics : garlics[n] = mine[t]
    /\ left \subseteq copied
    /\ pc[Handler] \in {"idle", "copy"} => copied = {}
    /\ pc[Handler] = "closeCopied" => mine[Handler] \in copied

FoundInv == DialersInv /\ MapOpen /\ DialerOpen /\ MakingOpen /\ ClosesOwn

\* Instances stay where they are: t begins or ends a call, or waits.
LEMMA FoundQuiet ==
  ASSUME FoundInv, NEW t \in Threads, Quiet(t)
  PROVE  MapOpen' /\ DialerOpen' /\ MakingOpen' /\ ClosesOwn'
<1> USE DEF FoundInv, DialersInv
<1>1. /\ UNCHANGED <<open, owner, garlics, defaultDialer, copied, left>>
      /\ \A b \in Actors \ {t} : mine'[b] = mine[b] /\ pc'[b] = pc[b]
  BY QuietStep
<1>2. pc'[t] \notin Closes \cup {"enroll", "register"}
  <2> USE DEF TypeInv, Transition, Goto, Actors, Closes
  <2>1. CASE (\E n \in Names : ListenGarlic(t, n)) \/ DialGarlic(t) \/ NewGarlic(t)
    BY <2>1 DEF ListenGarlic, DialGarlic, NewGarlic, Begin
  <2>2. CASE ConnectFails(t) \/ Use(t)
    BY <2>2 DEF ConnectFails, Use
  <2>3. CASE (\E n \in Names : CloseGarlic(t, n)) \/ CloseAllGarlic(t)
    BY <2>3 DEF CloseGarlic, CloseAllGarlic, BeginClose
  <2>4. CASE Lock(t) \/ Closed(t) \/ (LockDialer(t) /\ defaultDialer = None)
    BY <2>4 DEF Lock, Closed, LockDialer
  <2>5. QED
    BY <2>1, <2>2, <2>3, <2>4 DEF Quiet
<1>3. \A u \in Threads \ {t} : goal'[u] = goal[u]
  <2> USE DEF TypeInv, Forget, history, managed
  <2>1. CASE (\E n \in Names : ListenGarlic(t, n)) \/ DialGarlic(t) \/ NewGarlic(t)
    BY <2>1 DEF ListenGarlic, DialGarlic, NewGarlic, Begin
  <2>2. CASE ConnectFails(t) \/ Use(t)
    BY <2>2 DEF ConnectFails, Use
  <2>3. CASE (\E n \in Names : CloseGarlic(t, n)) \/ CloseAllGarlic(t)
    BY <2>3 DEF CloseGarlic, CloseAllGarlic, BeginClose
  <2>4. CASE Lock(t) \/ Closed(t) \/ (LockDialer(t) /\ defaultDialer = None)
    BY <2>4 DEF Lock, Closed, LockDialer
  <2>5. QED
    BY <2>1, <2>2, <2>3, <2>4 DEF Quiet
<1>4. MapOpen' /\ DialerOpen'
  BY <1>1 DEF MapOpen, DialerOpen
<1>5. MakingOpen'
  BY <1>1, <1>2, <1>3 DEF MakingOpen, Making, Actors
<1>6. ClosesOwn'
  BY <1>1, <1>2, ManagedAssumption DEF ClosesOwn, Actors, Closes, Made
<1>7. QED
  BY <1>4, <1>5, <1>6

LEMMA FoundConnect ==
  ASSUME FoundInv, NEW t \in Threads, Connect(t)
  PROVE  MapOpen' /\ DialerOpen' /\ MakingOpen' /\ ClosesOwn'
<1> USE DEF FoundInv, DialersInv
<1>1. Newest + 1 \notin Made /\ Made \subseteq Made' /\ \A i \in Made : owner'[i] = owner[i]
  BY NewestIsNext DEF Connect, Made
<1>2. /\ pc[t] = "connect" /\ pc'[t] = "enroll" /\ mine'[t] = Newest + 1
      /\ \A b \in Actors \ {t} : mine'[b] = mine[b] /\ pc'[b] = pc[b]
      /\ UNCHANGED <<garlics, defaultDialer, goal, copied, left>>
      /\ open' = open \cup {Newest + 1}
  BY DEF Connect, Transition, Goto, TypeInv, managed, history, Actors
<1>3. MapOpen' /\ DialerOpen'
  BY <1>1, <1>2 DEF MapOpen, DialerOpen, TypeInv
<1>4. MakingOpen'
  <2>1. \A u \in Threads \ {t} : Making(u) => mine'[u] = mine[u] /\ mine[u] \in Made
    BY <1>2 DEF Making, TypeInv, Actors
  <2>2. \A n \in DOMAIN garlics : garlics[n] \in Made
    BY DEF TypeInv
  <2>3. \A u \in Threads \ {t} : Making(u)' => Making(u)
    BY <1>2 DEF Making, Actors
  <2>4. QED
    BY <1>1, <1>2, <2>1, <2>2, <2>3 DEF MakingOpen
<1>5. ClosesOwn'
  BY <1>1, <1>2, ManagedAssumption DEF ClosesOwn, Actors
<1>6. QED
  BY <1>3, <1>4, <1>5

LEMMA FoundStored ==
  ASSUME FoundInv, NEW t \in Threads, Enroll(t) \/ Register(t) \/ AssignDialer(t)
  PROVE  MapOpen' /\ DialerOpen' /\ MakingOpen' /\ ClosesOwn'
<1> USE DEF FoundInv, DialersInv
<1>1. /\ pc[t] \in {"enroll", "register"} /\ owner[mine[t]] = goal[t] /\ mine[t] \in Made
      /\ \A b \in Actors \ {t} : mine'[b] = mine[b] /\ pc'[b] = pc[b]
      /\ \A u \in Threads \ {t} : goal'[u] = goal[u]
      /\ UNCHANGED <<open, owner, copied, left>>
      /\ pc'[t] \notin {"closeApp", "closeManaged"}
  BY DEF Enroll, Register, AssignDialer, Forget, TypeInv, history, Transition, Goto, Actors
<1>2. CASE Enroll(t)
  <2>1. UNCHANGED <<garlics, defaultDialer>>
    BY <1>2 DEF Enroll, managed
  <2>2. Making(t)' => Making(t) /\ mine'[t] = mine[t]
    BY <1>1, <1>2 DEF Making, Enroll, Transition, Goto, TypeInv, Actors
  <2>3. \A u \in Threads \ {t} : Making(u)' = Making(u)
    BY <1>1 DEF Making, Actors
  <2>4. MakingOpen'
    BY <1>1, <2>1, <2>2, <2>3 DEF MakingOpen, Actors
  <2>5. ClosesOwn'
    BY <1>1, <2>1, ManagedAssumption DEF ClosesOwn, Actors, Made
  <2>6. QED
    BY <1>1, <2>1, <2>4, <2>5 DEF MapOpen, DialerOpen
<1>3. CASE Register(t)
  <2>1. /\ Making(t) /\ garlicsMu = Free /\ UNCHANGED defaultDialer
        /\ pc'[t] = "use"
        /\ DOMAIN garlics' = DOMAIN garlics \cup {goal[t]}
        /\ \A n \in DOMAIN garlics' :
               garlics'[n] = mine[t] \/ (n \in DOMAIN garlics /\ garlics'[n] = garlics[n])
    BY <1>1, <1>3, ManagedAssumption DEF Register, Making, Transition, Goto, TypeInv, Actors
  <2>2. ~Making(t)' /\ \A u \in Threads \ {t} : Making(u)' = Making(u)
    BY <1>1, <2>1 DEF Making, Actors
  <2>3. \A u \in Threads : pc[u] # "closeManaged"
    BY <2>1, ManagedAssumption DEF TypeInv
  <2>4. MapOpen'
    BY <1>1, <2>1 DEF MapOpen, MakingOpen
  <2>5. MakingOpen'
    BY <1>1, <2>1, <2>2 DEF MakingOpen, Actors
  <2>6. ClosesOwn'
    BY <1>1, <2>3, ManagedAssumption DEF ClosesOwn, Actors, Made
  <2>7. QED
    BY <1>1, <2>1, <2>4, <2>5, <2>6 DEF DialerOpen
<1>4. CASE AssignDialer(t)
  <2>1. /\ Making(t) /\ UNCHANGED garlics /\ defaultDialer' = mine[t]
        /\ pc'[t] = "use" /\ goal[t] = Dialer
    BY <1>1, <1>4, ManagedAssumption
       DEF AssignDialer, Making, Transition, Goto, TypeInv, Actors, Dialer, App
  <2>2. ~Making(t)' /\ \A u \in Threads \ {t} : Making(u)' = Making(u)
    BY <1>1, <2>1 DEF Making, Actors
  <2>3. MakingOpen'
    BY <1>1, <2>1, <2>2 DEF MakingOpen, Actors
  <2>4. ClosesOwn'
    BY <1>1, <2>1, ManagedAssumption DEF ClosesOwn, Actors, Made
  <2>5. QED
    BY <1>1, <2>1, <2>3, <2>4 DEF MapOpen, DialerOpen, MakingOpen
<1>5. QED
  BY <1>2, <1>3, <1>4

LEMMA FoundStart ==
  ASSUME FoundInv, NEW a \in Actors, NEW i, StartClose(a, i),
         UNCHANGED <<garlics, defaultDialer>>, left' \subseteq left,
         \A b \in Actors \ {a} : pc'[b] = pc[b],
         pc[a] # "copy", pc'[a] \in Closes,
         pc'[a] = "closeApp" => i \in Made /\ owner[i] = App,
         pc'[a] = "closeManaged" => \E n \in DOMAIN garlics : garlics[n] = i,
         pc'[a] = "closeCopied" => i \in copied
  PROVE  MapOpen' /\ DialerOpen' /\ MakingOpen' /\ ClosesOwn'
<1> USE DEF FoundInv, DialersInv, StartClose
<1>1. /\ UNCHANGED <<open, owner, copied, goal>> /\ mine'[a] = i
      /\ \A b \in Actors \ {a} : mine'[b] = mine[b]
  BY DEF TypeInv, history
<1>2. \A t \in Threads : Making(t)' => Making(t) /\ t # a
  BY <1>1 DEF Making, Actors, Closes
<1>3. MapOpen' /\ DialerOpen'
  BY <1>1 DEF MapOpen, DialerOpen
<1>4. MakingOpen'
  BY <1>1, <1>2 DEF MakingOpen, Actors
<1>5. ClosesOwn'
  BY <1>1, ManagedAssumption DEF ClosesOwn, Actors, Made, Closes
<1>6. QED
  BY <1>3, <1>4, <1>5

\* What a Close clears is not in the map, not the dialer and not being made, or
\* the handler has copied it.
LEMMA FoundFinish ==
  ASSUME FoundInv, NEW a \in Actors, FinishClose(a), UNCHANGED left,
         \A b \in Actors \ {a} : pc'[b] = pc[b],
         pc'[a] \notin Closes \cup {"enroll", "register", "idle", "copy"} \/
             (a \in Threads /\ pc'[a] = "idle"),
         pc[a] \in Closes,
         \A n \in DOMAIN garlics' :
             /\ n \in DOMAIN garlics /\ garlics'[n] = garlics[n]
             /\ garlics[n] # mine[a] \/ mine[a] \in copied,
         \A t \in Threads \ {a} : pc[t] = "closeManaged" => garlics' = garlics,
         defaultDialer' \in {defaultDialer, None},
         defaultDialer' # None => defaultDialer # mine[a] \/ mine[a] \in copied,
         \A t \in Threads : Making(t) => mine[t] # mine[a] \/ mine[a] \in copied
  PROVE  MapOpen' /\ DialerOpen' /\ MakingOpen' /\ ClosesOwn'
<1> USE DEF FoundInv, DialersInv, FinishClose
<1>1. /\ UNCHANGED <<owner, copied, goal>> /\ open \ {mine[a]} \subseteq open'
      /\ \A b \in Actors \ {a} : mine'[b] = mine[b]
  BY DEF TypeInv
<1>2. \A t \in Threads : Making(t)' => Making(t) /\ t # a
  BY <1>1 DEF Making, Actors, Closes
<1>3. MapOpen'
  BY <1>1 DEF MapOpen
<1>4. DialerOpen'
  BY <1>1 DEF DialerOpen
<1>5. MakingOpen'
  BY <1>1, <1>2 DEF MakingOpen, Actors
<1>6. ClosesOwn'
  BY <1>1, ManagedAssumption DEF ClosesOwn, Actors, Made, Closes
<1>7. QED
  BY <1>3, <1>4, <1>5, <1>6

LEMMA FoundStep == FoundInv /\ [Next]_vars => FoundInv'
<1> SUFFICES ASSUME FoundInv, [Next]_vars
             PROVE  MapOpen' /\ DialerOpen' /\ MakingOpen' /\ ClosesOwn'
  BY DialStep DEF FoundInv
<1> DEFINE Kept == MapOpen' /\ DialerOpen' /\ MakingOpen' /\ ClosesOwn'
<1> USE DEF Transition, Goto, Actors
<1>t. FoundInv => TypeInv /\ DialInv
  BY DEF FoundInv, DialersInv
<1>1. ASSUME NEW t \in Threads, NEW i \in Made, AppClose(t, i) PROVE Kept
  <2>1. /\ pc[t] = "idle" /\ pc'[t] = "closeApp" /\ StartClose(t, i) /\ owner[i] = App
        /\ UNCHANGED <<garlics, defaultDialer, left>>
        /\ \A b \in Actors \ {t} : pc'[b] = pc[b]
    BY <1>t, <1>1 DEF AppClose, Owned, managed, TypeInv
  <2>2. QED
    BY <2>1, FoundStart DEF Closes
<1>2. ASSUME NEW t \in Threads, CloseNext(t) PROVE Kept
  <2>1. PICK n \in todo[t] : StartClose(t, garlics[n])
    BY <1>2 DEF CloseNext
  <2>2. /\ pc[t] = "next" /\ pc'[t] = "closeManaged" /\ n \in DOMAIN garlics
        /\ UNCHANGED <<garlics, defaultDialer, left>>
        /\ \A b \in Actors \ {t} : pc'[b] = pc[b]
    BY <1>t, <1>2, <2>1 DEF CloseNext, managed, TypeInv
  <2>3. QED
    BY <2>1, <2>2, FoundStart DEF Closes
<1>3. ASSUME NEW t \in Threads, LockDialer(t), defaultDialer # None PROVE Kept
  <2>1. /\ pc[t] = "lockDialer" /\ pc'[t] = "closeDialer" /\ StartClose(t, defaultDialer)
        /\ UNCHANGED <<garlics, defaultDialer, left>>
        /\ \A b \in Actors \ {t} : pc'[b] = pc[b]
    BY <1>t, <1>3 DEF LockDialer, TypeInv
  <2>2. QED
    BY <2>1, FoundStart DEF Closes
<1>4. CASE CloseNextCopied
  <2>1. PICK i \in left : StartClose(Handler, i)
    BY <1>4 DEF CloseNextCopied
  <2>2. /\ pc[Handler] = "nextCopied" /\ pc'[Handler] = "closeCopied"
        /\ UNCHANGED <<garlics, defaultDialer>> /\ left' \subseteq left
        /\ \A b \in Actors \ {Handler} : pc'[b] = pc[b]
    BY <1>t, <1>4 DEF CloseNextCopied, managed, TypeInv
  <2>3. i \in copied
    BY DEF FoundInv, ClosesOwn
  <2>4. QED
    BY <2>1, <2>2, <2>3, FoundStart DEF Closes
<1>5. ASSUME NEW t \in Threads, AppClosed(t) PROVE Kept
  <2>1. /\ pc[t] = "closeApp" /\ pc'[t] = "idle" /\ FinishClose(t)
        /\ UNCHANGED <<garlics, defaultDialer, left>>
        /\ \A b \in Actors \ {t} : pc'[b] = pc[b]
    BY <1>t, <1>5 DEF AppClosed, managed, TypeInv
  <2>2. mine[t] \in Made /\ owner[mine[t]] = App
    BY <2>1 DEF FoundInv, ClosesOwn
  <2>3. \A n \in DOMAIN garlics : garlics[n] # mine[t]
    BY <1>t, <2>2, ManagedAssumption DEF TypeInv
  <2>4. defaultDialer # None => defaultDialer # mine[t]
    BY <2>2 DEF FoundInv, DialerOpen, Dialer, App
  <2>5. \A u \in Threads : Making(u) => mine[u] # mine[t]
    BY <1>t, <2>2 DEF Making, TypeInv
  <2>6. QED
    BY <2>1, <2>3, <2>4, <2>5, FoundFinish DEF Closes
<1>6. ASSUME NEW t \in Threads, DialerClosed(t) PROVE Kept
  <2>1. /\ pc[t] = "closeDialer" /\ pc'[t] = "lock" /\ FinishClose(t)
        /\ UNCHANGED <<garlics, left>> /\ defaultDialer' = None
        /\ \A b \in Actors \ {t} : pc'[b] = pc[b]
        /\ defaultDialerMu = t /\ mine[t] = defaultDialer
    BY <1>t, <1>6 DEF DialerClosed, TypeInv, DialInv
  <2>2. \A u \in Threads : Making(u) => mine[u] \in Made /\ owner[mine[u]] # Dialer
    BY <1>t, <2>1 DEF Making, Creating, TypeInv, DialInv
  <2>3. defaultDialer = None \/ owner[defaultDialer] = Dialer
    BY DEF FoundInv, DialerOpen
  <2>4. \A u \in Threads : Making(u) => mine[u] # mine[t]
    BY <2>1, <2>2, <2>3, <1>t, NoneNotMade
  <2>5. \A n \in DOMAIN garlics : garlics[n] # mine[t]
    BY <1>t, <2>1, <2>3, NoneNotMade, ManagedAssumption DEF TypeInv
  <2>6. QED
    BY <2>1, <2>4, <2>5, FoundFinish DEF Closes
<1>7. ASSUME NEW t \in Threads, ManagedClosed(t) PROVE Kept
  <2>1. /\ pc[t] = "closeManaged" /\ pc'[t] = "next" /\ FinishClose(t)
        /\ UNCHANGED <<defaultDialer, left>>
        /\ \A n \in DOMAIN garlics' :
               n \in DOMAIN garlics /\ garlics'[n] = garlics[n] /\ garlics[n] # mine[t]
        /\ \A b \in Actors \ {t} : pc'[b] = pc[b]
    BY <1>t, <1>7 DEF ManagedClosed, Restrict, TypeInv
  <2>2. PICK n \in DOMAIN garlics : garlics[n] = mine[t]
    BY <2>1 DEF FoundInv, ClosesOwn
  <2>3. \A u \in Threads \ {t} : pc[u] # "closeManaged"
    BY <1>t, <2>1 DEF TypeInv
  <2>4. defaultDialer # None => defaultDialer # mine[t]
    <3>1. owner[mine[t]] = n /\ n \in Names
      BY <1>t, <2>2 DEF TypeInv
    <3>2. QED
      BY <3>1, ManagedAssumption DEF FoundInv, DialerOpen
  <2>5. \A u \in Threads : Making(u) => mine[u] # mine[t]
    BY <2>2 DEF FoundInv, MakingOpen
  <2>6. QED
    BY <2>1, <2>3, <2>4, <2>5, FoundFinish DEF Closes
<1>8. CASE CopiedClosed
  <2>1. /\ pc[Handler] = "closeCopied" /\ pc'[Handler] = "nextCopied" /\ FinishClose(Handler)
        /\ UNCHANGED <<garlics, defaultDialer, left>>
        /\ \A b \in Actors \ {Handler} : pc'[b] = pc[b]
    BY <1>t, <1>8 DEF CopiedClosed, managed, TypeInv
  <2>2. mine[Handler] \in copied
    BY <2>1 DEF FoundInv, ClosesOwn
  <2>3. QED
    BY <2>1, <2>2, FoundFinish DEF Closes
<1>9. CASE Signal \/ Copy \/ Exit \/ \E a \in Actors : Panic(a)
  <2>1. /\ UNCHANGED <<garlics, defaultDialer, open, owner, mine, goal>>
        /\ \A t \in Threads : pc'[t] = pc[t]
        /\ copied \subseteq copied' /\ left' \subseteq copied'
        /\ pc'[Handler] \in {"idle", "copy"} => copied' = {}
        /\ pc'[Handler] = "closeCopied" => pc[Handler] = "closeCopied"
    BY <1>t, <1>9, ManagedAssumption
       DEF Signal, Copy, Exit, Panic, managed, history, TypeInv, FoundInv, ClosesOwn
  <2>2. QED
    BY <2>1 DEF FoundInv, MapOpen, DialerOpen, MakingOpen, Making, ClosesOwn, Made
<1>10. CASE UNCHANGED vars
  <2>1. UNCHANGED <<garlics, defaultDialer, open, owner, mine, goal, pc, copied, left>>
    BY <1>10 DEF vars, managed, threads, history
  <2>2. QED
    BY <2>1 DEF FoundInv, MapOpen, DialerOpen, MakingOpen, Making, ClosesOwn, Made
<1>11. ASSUME NEW t \in Threads, Call(t) PROVE Kept
  BY <1>1, <1>11, FoundQuiet DEF Call, Quiet
<1>12. ASSUME NEW t \in Threads, Proceed(t) PROVE Kept
  BY <1>2, <1>5, <1>6, <1>7, <1>12, FoundQuiet, FoundConnect, FoundStored DEF Proceed, Quiet
<1>13. ASSUME NEW t \in Threads, Acquire(t) PROVE Kept
  BY <1>3, <1>13, FoundQuiet, FoundStored DEF Acquire, Quiet
<1>14. QED
  BY <1>4, <1>8, <1>9, <1>10, <1>11, <1>12, <1>13 DEF Next, CleanUp

\* What the next ListenGarlic or DialGarlic finds is open, or the handler has
\* copied it and the program is about to end.
THEOREM NoDeadEntry == Spec => []FoundIsOpen
<1>1. Init => FoundInv
  <2>1. Init => DialInv /\ OneDialer
    BY ManagedAssumption DEF Init, DialInv, OneDialer, Creating, Actors
  <2>2. Init => MapOpen /\ DialerOpen
    BY DEF Init, MapOpen, DialerOpen
  <2>3. Init => MakingOpen /\ ClosesOwn
    BY ManagedAssumption DEF Init, MakingOpen, Making, ClosesOwn, Actors
  <2>4. QED
    BY <2>1, <2>2, <2>3, TypeInvInit DEF FoundInv, DialersInv
<1>2. FoundInv => FoundIsOpen
  BY DEF FoundInv, MapOpen, DialerOpen, FoundIsOpen, Range
<1>3. QED
  BY <1>1, <1>2, FoundStep, PTL DEF Spec
=============================================================================
