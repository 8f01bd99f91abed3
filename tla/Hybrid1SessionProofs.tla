------------------------ MODULE Hybrid1SessionProofs ------------------------
(***************************************************************************)
(* Proofs about Hybrid1Session: types, who owns what is open, and that the *)
(* receive path implements the queue of DatagramQueues, for any number of  *)
(* readers and closers and any size of the channels.                       *)
(***************************************************************************)
EXTENDS Hybrid1Session, TLAPS

-----------------------------------------------------------------------------
(* Types, and what the loop and the calls of Close know of the session.    *)

LifeInv ==
    /\ TypeOK
    /\ loop = "send" => arrived \in Datagrams
    /\ phase # "running" =>
          loop = "off" /\ ~closed /\ \A c \in Closers : closer[c] = Idle
    /\ signals # {} => closed
    /\ \A c \in Closers : closer[c].at # "idle" => closed
    /\ \A c \in Closers :
          closer[c].at = "idle" \/ closer[c].call = "none" => closer[c] = Idle

LEMMA LifeInit == Init => LifeInv
<1> SUFFICES ASSUME Init PROVE LifeInv
  OBVIOUS
<1>1. TypeOK
  <2>1. open \subseteq Resources /\ phase \in Resources
    BY DEF Init, Lent, Resources
  <2>2. closer \in [Closers -> [call : {"none", "session", "integration"},
                               at : SessionSteps \cup ManagedSteps \cup {"idle", "returned"}]]
    BY DEF Init, Idle
  <2>3. recvChan \in Seq(Datagrams) /\ Len(recvChan) <= RecvChanSize /\ got \in Seq(Datagrams)
    <3>1. recvChan = <<>> /\ got = <<>>
      BY DEF Init
    <3>2. QED
      BY <3>1, SizeAssumption
  <2>4. /\ way \in Ways /\ signals = {} /\ unclosed = {} /\ loop = "off"
        /\ closed = FALSE /\ cleanup = FALSE
        /\ errs = 0 /\ arrived = 0 /\ reader \in [Readers -> {"idle", "select"}]
    BY DEF Init
  <2>5. 0 \in 0..RecvErrChanSize /\ 0 \in 0..MaxDatagrams
    BY SizeAssumption
  <2>6. QED
    BY <2>1, <2>2, <2>3, <2>4, <2>5 DEF TypeOK
<1>2. QED
  BY <1>1 DEF Init, LifeInv, Stopped, Idle

\* The loops, which leave the calls of Close alone.
LEMMA LifeLoops ==
  ASSUME LifeInv, LoopTop \/ Receive \/ ReceiveError \/ Forward \/ GiveUp \/ CleanupExits
  PROVE  LifeInv'
<1> USE DEF LifeInv, TypeOK, Stopped, setup
<1>1. CASE LoopTop
  BY <1>1 DEF LoopTop, traffic
<1>2. CASE Receive
  BY <1>2, SizeAssumption DEF Receive, Datagrams
<1>3. CASE ReceiveError
  BY <1>3, SizeAssumption DEF ReceiveError
<1>4. CASE Forward
  BY <1>4, SizeAssumption DEF Forward
<1>5. CASE GiveUp
  BY <1>5 DEF GiveUp, traffic
<1>6. CASE CleanupExits
  BY <1>6 DEF CleanupExits, traffic
<1>7. QED
  BY <1>1, <1>2, <1>3, <1>4, <1>5, <1>6

LEMMA LifeReaders ==
  ASSUME LifeInv, NEW r \in Readers, Read(r) \/ ReaderGoes(r)
  PROVE  LifeInv'
<1> USE DEF LifeInv, TypeOK, Stopped, setup
<1>1. CASE Read(r)
  BY <1>1 DEF Read, traffic
<1>2. CASE Take(r)
  <2>1. /\ Tail(recvChan) \in Seq(Datagrams)
        /\ Len(Tail(recvChan)) <= RecvChanSize
        /\ Head(recvChan) \in Datagrams
    BY <1>2, SizeAssumption DEF Take
  <2>2. got' \in Seq(Datagrams)
    BY <1>2, <2>1 DEF Take
  <2>3. QED
    BY <1>2, <2>1, <2>2 DEF Take
<1>3. CASE TakeError(r)
  BY <1>3, SizeAssumption DEF TakeError
<1>4. CASE Timeout(r)
  BY <1>4 DEF Timeout, traffic
<1>5. QED
  BY <1>1, <1>2, <1>3, <1>4 DEF ReaderGoes

\* Closing opens nothing, and what is open of what was told to close could not be.
LEMMA Closing ==
  ASSUME NEW rs, CloseEach(rs)
  PROVE  /\ open' \subseteq open
         /\ unclosed \subseteq unclosed' /\ unclosed' \subseteq unclosed \cup (rs \cap Stubborn)
         /\ rs \cap open' \cap Resources \subseteq unclosed'
         /\ open \ open' \subseteq UNION {On(r) : r \in rs}
<1>1. \A r \in Resources : r \in On(r)
  BY DEF On, Resources
<1>2. PICK fail \in SUBSET (rs \cap Stubborn) :
         open' = open \ UNION {On(r) : r \in rs \ fail} /\ unclosed' = unclosed \cup fail
  BY DEF CloseEach
<1>3. ASSUME NEW r \in rs, r \in open', r \in Resources PROVE r \in fail
  BY <1>1, <1>2, <1>3
<1>4. open \ open' \subseteq UNION {On(r) : r \in rs}
  BY <1>2
<1>5. QED
  BY <1>2, <1>3, <1>4

LEMMA LifeSetUp ==
  ASSUME LifeInv, SetUp \/ SetUpFails
  PROVE  LifeInv'
<1> USE DEF LifeInv, TypeOK, Stopped, traffic
<1>1. CASE SetUp
  <2>1. phase' \in Resources \cup {"running"} /\ open' \subseteq Resources
    BY <1>1 DEF SetUp, Resources
  <2>2. phase' # "running" => loop' = loop
    BY <1>1 DEF SetUp, Resources
  <2>3. loop' \in {loop, "top"} /\ cleanup' \in BOOLEAN
    BY <1>1 DEF SetUp
  <2>4. /\ UNCHANGED <<way, unclosed, closed, signals, closer, reader, recvChan, errs, arrived, got>>
        /\ phase # "running"
    BY <1>1 DEF SetUp, Resources
  <2>5. QED
    BY <2>1, <2>2, <2>3, <2>4
<1>2. CASE SetUpFails
  <2>1. open' \subseteq Resources /\ unclosed' \subseteq Stubborn
    BY <1>2, Closing DEF SetUpFails
  <2>2. QED
    BY <1>2, <2>1 DEF SetUpFails, Resources
<1>3. QED
  BY <1>1, <1>2

LEMMA LifeClosers ==
  ASSUME LifeInv, NEW c \in Closers,
         CloserGoes(c) \/ \E call \in {"session", "integration"} : Close(c, call)
  PROVE  LifeInv'
<1> USE DEF LifeInv, TypeOK, Stopped, setup, traffic, At, AfterSession,
            SessionSteps, ManagedSteps, Idle, Resources
<1>1. ASSUME NEW call \in {"session", "integration"}, Close(c, call)
      PROVE  LifeInv'
  BY <1>1 DEF Close
<1>2. CASE TearDown(c)
  <2>1. open' \subseteq Resources /\ unclosed' \subseteq Stubborn
    BY <1>2, Closing DEF TearDown
  <2>2. QED
    BY <1>2, <2>1 DEF TearDown
<1>3. CASE CloseManaged(c)
  <2>1. open' \subseteq Resources /\ unclosed' \subseteq Stubborn
    BY <1>3, Closing DEF CloseManaged
  <2>2. QED
    BY <1>3, <2>1 DEF CloseManaged
<1>4. QED
  BY <1>1, <1>2, <1>3 DEF CloserGoes

LEMMA LifeStep == LifeInv /\ [Next]_vars => LifeInv'
<1> SUFFICES ASSUME LifeInv, [Next]_vars PROVE LifeInv'
  OBVIOUS
<1>1. CASE UNCHANGED vars
  BY <1>1 DEF vars, setup, traffic, LifeInv, TypeOK, Stopped
<1>2. CASE Next
  BY <1>2, LifeLoops, LifeReaders, LifeSetUp, LifeClosers DEF Next, LoopGoes
<1>3. QED
  BY <1>1, <1>2

THEOREM LifeCorrect == Spec => []LifeInv
BY LifeInit, LifeStep, PTL DEF Spec

\* Every reachable state has its type: the channels never hold more than they
\* are made for.
THEOREM TypeCorrect == Spec => []TypeOK
<1>1. LifeInv => TypeOK
  BY DEF LifeInv
<1>2. QED
  BY <1>1, LifeCorrect, PTL

-----------------------------------------------------------------------------
(* Ownership, for the constructors that keep it: NewHybrid1Session and     *)
(* NewGarlicIntegration.                                                   *)

\* What is open and was not told to close in vain.
Held == open \ unclosed

\* What is open at each point of a Close.
CloserOwn(c) ==
    /\ closer[c].call = "integration" => way = "managed"
    /\ closer[c].at \in ManagedSteps => closer[c].call = "integration"
    /\ closer[c].at = "done" => "sub" \notin Held
    /\ closer[c].at = "sam" => "primary" \notin Held
    /\ closer[c] = [call |-> "integration", at |-> "returned"] =>
          Held \cap {"primary", "sam"} = {}

\* What is open at each point of the construction, and until all have closed.
OwnInv ==
    /\ way \in {"direct", "managed"}
    /\ way = "direct" => {"sam", "primary"} \subseteq open
    /\ phase = "sam" => way = "managed" /\ open = {}
    /\ phase = "primary" => way = "managed" /\ open = {"sam"}
    /\ phase = "sub" => open = {"sam", "primary"}
    /\ phase \in Resources => unclosed = {}
    /\ phase = "failed" => Lent(way) \subseteq open /\ Held \subseteq Lent(way)
    /\ \A c \in Closers : CloserOwn(c)
    /\ "done" \in signals => "sub" \notin Held
    /\ closed => "done" \in signals \/ \E c \in Closers : closer[c].at \in SessionSteps

LEMMA OwnInit == Ways \subseteq {"direct", "managed"} /\ Init => OwnInv
BY DEF Init, OwnInv, CloserOwn, Held, Lent, Idle, ManagedSteps

LEMMA OwnSetUp ==
  ASSUME LifeInv, OwnInv, SetUp \/ SetUpFails
  PROVE  OwnInv'
<1>0. \A c \in Closers : closer[c] = Idle
  BY DEF LifeInv, SetUp, SetUpFails, Resources
<1>1. ~closed /\ "done" \notin signals
  BY DEF LifeInv, SetUp, SetUpFails, Resources
<1>2. CASE SetUp
  BY <1>0, <1>1, <1>2 DEF OwnInv, CloserOwn, Held, SetUp, Idle, ManagedSteps, SessionSteps, Resources
<1>3. CASE SetUpFails
  <2>1. CloseEach(Undo(way) \cap open)
    BY <1>3 DEF SetUpFails
  <2>2. Lent(way) \subseteq open' /\ open' \ unclosed' \subseteq Lent(way)
    <3>1. CASE way = "direct"
      <4>1. Undo(way) = {} /\ open \subseteq Lent(way) /\ Lent(way) \subseteq open
        BY <1>3, <3>1 DEF Undo, Lent, OwnInv, SetUpFails, Resources
      <4>2. QED
        BY <2>1, <4>1 DEF CloseEach
    <3>2. CASE way = "managed"
      <4>1. open \subseteq Undo(way) /\ Undo(way) \subseteq Resources /\ Lent(way) = {}
        BY <1>3, <3>2 DEF Undo, Lent, OwnInv, SetUpFails, Resources
      <4>2. open' \subseteq open /\ open \cap open' \subseteq unclosed'
        BY <2>1, <4>1, Closing
      <4>3. QED
        BY <4>1, <4>2
    <3>3. QED
      BY <3>1, <3>2 DEF OwnInv
  <2>3. UNCHANGED <<way, closed, signals, closer>> /\ phase' = "failed"
    BY <1>3 DEF SetUpFails
  <2>4. QED
    BY <1>0, <1>1, <2>2, <2>3 DEF OwnInv, CloserOwn, Held, Idle, ManagedSteps, SessionSteps, Resources, Lent
<1>4. QED
  BY <1>2, <1>3

\* A step of one closer disturbs no other.
LEMMA OwnOthers ==
  ASSUME OwnInv, NEW c \in Closers, phase = "running", UNCHANGED <<way, phase>>,
         \A d \in Closers \ {c} : closer'[d] = closer[d],
         open' \subseteq open, unclosed \subseteq unclosed',
         way = "direct" => open \ open' \subseteq {"sub"},
         CloserOwn(c)',
         "done" \in signals' => "done" \in signals \/ "sub" \notin Held,
         closed' => "done" \in signals' \/ \E d \in Closers : closer'[d].at \in SessionSteps
  PROVE  OwnInv'
<1>1. Held' \subseteq Held
  BY DEF Held
<1>2. ASSUME NEW d \in Closers \ {c} PROVE CloserOwn(d)'
  BY <1>1, <1>2 DEF OwnInv, CloserOwn
<1>3. QED
  BY <1>1, <1>2 DEF OwnInv, Resources

LEMMA OwnTearDown ==
  ASSUME LifeInv, OwnInv, NEW c \in Closers, TearDown(c)
  PROVE  OwnInv'
<1>1. /\ phase = "running" /\ UNCHANGED <<way, phase, closed>>
      /\ \A d \in Closers \ {c} : closer'[d] = closer[d]
      /\ closer[c].at \in SessionSteps
      /\ signals' = signals \cup ({closer[c].at} \cap {"stop", "done"})
      /\ closer'[c] = [call |-> closer[c].call,
                       at |-> [stop |-> "sub", sub |-> "done",
                               done |-> AfterSession(closer[c].call)][closer[c].at]]
  BY DEF LifeInv, TypeOK, TearDown, setup, At, Idle, SessionSteps
<1>2. CloseEach({closer[c].at} \cap {"sub"})
  BY DEF TearDown
<1>3. open' \subseteq open /\ unclosed \subseteq unclosed' /\ open \ open' \subseteq {"sub"}
  BY <1>2, Closing DEF On
<1>4. closer[c].at = "sub" => "sub" \notin Held'
  BY <1>2, Closing DEF Held, Resources
<1>5. "done" \in signals' => "done" \in signals \/ "sub" \notin Held
  BY <1>1 DEF OwnInv, CloserOwn
<1>6. CloserOwn(c)'
  BY <1>1, <1>4 DEF OwnInv, CloserOwn, LifeInv, TypeOK, Idle, SessionSteps, ManagedSteps,
                    AfterSession
<1>7. closed' => "done" \in signals' \/ \E d \in Closers : closer'[d].at \in SessionSteps
  <2>1. closer[c].at = "done" \/ closer'[c].at \in {"sub", "done"}
    BY <1>1 DEF SessionSteps
  <2>2. QED
    BY <1>1, <2>1 DEF SessionSteps
<1>8. QED
  BY <1>1, <1>3, <1>5, <1>6, <1>7, OwnOthers

LEMMA OwnCloseManaged ==
  ASSUME LifeInv, OwnInv, NEW c \in Closers, CloseManaged(c)
  PROVE  OwnInv'
<1>1. /\ phase = "running" /\ UNCHANGED <<way, phase, closed, signals>>
      /\ \A d \in Closers \ {c} : closer'[d] = closer[d]
      /\ closer[c].at \in ManagedSteps
      /\ closer'[c] = [call |-> "integration",
                       at |-> IF closer[c].at = "primary" THEN "sam" ELSE "returned"]
  BY DEF LifeInv, TypeOK, CloseManaged, setup, At, Idle, ManagedSteps
<1>2. way = "managed" /\ CloseEach({closer[c].at})
  BY <1>1 DEF CloseManaged, OwnInv, CloserOwn
<1>3. open' \subseteq open /\ unclosed \subseteq unclosed' /\ closer[c].at \notin Held'
  BY <1>1, <1>2, Closing DEF Held, ManagedSteps, Resources
<1>4. CloserOwn(c)'
  BY <1>1, <1>2, <1>3 DEF OwnInv, CloserOwn, Held, ManagedSteps
<1>5. closed' => "done" \in signals' \/ \E d \in Closers : closer'[d].at \in SessionSteps
  BY <1>1 DEF OwnInv, SessionSteps, ManagedSteps
<1>6. QED
  BY <1>1, <1>2, <1>3, <1>4, <1>5, OwnOthers

LEMMA OwnClosers ==
  ASSUME LifeInv, OwnInv, NEW c \in Closers,
         CloserGoes(c) \/ \E call \in {"session", "integration"} : Close(c, call)
  PROVE  OwnInv'
<1>1. ASSUME NEW call \in {"session", "integration"}, Close(c, call)
      PROVE  OwnInv'
  BY <1>1
     DEF LifeInv, TypeOK, OwnInv, CloserOwn, Held, At, AfterSession, SessionSteps, ManagedSteps,
         Idle, Close, setup, Integrated
<1>2. QED
  BY <1>1, OwnTearDown, OwnCloseManaged DEF CloserGoes

LEMMA OwnStep == LifeInv /\ OwnInv /\ [Next]_vars => OwnInv'
<1> SUFFICES ASSUME LifeInv, OwnInv, [Next]_vars PROVE OwnInv'
  OBVIOUS
<1>1. CASE LoopGoes \/ Receive \/ ReceiveError \/ CleanupExits
  BY <1>1 DEF LoopGoes, LoopTop, Receive, ReceiveError, Forward, GiveUp, CleanupExits,
              setup, OwnInv, CloserOwn, Held, Lent
<1>2. ASSUME NEW r \in Readers, Read(r) \/ ReaderGoes(r) PROVE OwnInv'
  BY <1>2 DEF ReaderGoes, Read, Take, TakeError, Timeout, setup, OwnInv, CloserOwn, Held, Lent
<1>3. CASE UNCHANGED vars
  BY <1>3 DEF vars, setup, OwnInv, CloserOwn, Held, Lent
<1>4. QED
  BY <1>1, <1>2, <1>3, OwnSetUp, OwnClosers DEF Next

\* For these constructors, whoever closes what and in which order: what was
\* opened is closed in the end, and nothing that was lent.
THEOREM OwnershipKept ==
  ASSUME Ways \subseteq {"direct", "managed"}
  PROVE  Spec => []Ownership
<1>1. LifeInv /\ OwnInv => Ownership
  BY DEF LifeInv, TypeOK, OwnInv, CloserOwn, Held, Ownership, Lent, Returned, Integrated, Resources,
         Idle, SessionSteps
<1>2. Spec => []OwnInv
  BY OwnInit, OwnStep, LifeCorrect, PTL DEF Spec
<1>3. QED
  BY <1>1, <1>2, LifeCorrect, PTL

-----------------------------------------------------------------------------
(* The receive path implements DatagramQueues.                             *)

\* The queue of the one subsession, as the refinement maps it.
Waiting == recvChan \o (IF loop = "send" THEN <<arrived>> ELSE <<>>)

LEMMA QueuesInit == Init => Queues!Init
BY DEF Init, Queues!Init

\* A step that leaves queue, history and flag alone is a stutter.
LEMMA QueuesStutter ==
  ASSUME Waiting' = Waiting, got' = got, closed' = closed
  PROVE  UNCHANGED Queues!vars
BY DEF Queues!vars, Waiting

LEMMA QueuesLoops ==
  ASSUME LifeInv, LoopTop \/ Receive \/ ReceiveError \/ Forward \/ GiveUp \/ CleanupExits
  PROVE  [Queues!Next]_(Queues!vars)
<1> USE DEF LifeInv, TypeOK
<1>1. CASE LoopTop \/ ReceiveError \/ CleanupExits
  BY <1>1, QueuesStutter DEF LoopTop, ReceiveError, CleanupExits, Waiting, traffic
<1>2. CASE Receive
  <2>1. arrived + 1 \in Datagrams
    BY <1>2, SizeAssumption DEF Receive, Datagrams
  <2>2. Waiting = recvChan /\ Waiting' = Append(recvChan, arrived + 1)
    BY <1>2, <2>1 DEF Receive, Waiting
  <2>3. Len(Waiting) < RecvChanSize + 1
    BY <2>2, SizeAssumption
  <2>4. [s \in {"dg"} |-> Waiting'] =
           [[s \in {"dg"} |-> Waiting] EXCEPT !["dg"] = Append(@, arrived + 1)]
    BY <2>2
  <2>5. got' = got /\ closed' = closed
    BY <1>2 DEF Receive
  <2>6. Waiting' # <<>> /\ Queues!Last(Waiting') = arrived + 1
    BY <2>1, <2>2 DEF Queues!Last
  <2>7. Queues!Accept("dg")
    BY <2>1, <2>3, <2>4, <2>5, <2>6 DEF Queues!Accept, Waiting
  <2>8. QED
    BY <2>7 DEF Queues!Next
<1>3. CASE Forward
  <2>1. Waiting = Append(recvChan, arrived) /\ Waiting' = Append(recvChan, arrived)
    BY <1>3 DEF Forward, Waiting
  <2>2. QED
    BY <1>3, <2>1, QueuesStutter DEF Forward
<1>4. CASE GiveUp
  <2>1. Waiting = Append(recvChan, arrived) /\ Waiting' = recvChan
    BY <1>4 DEF GiveUp, Waiting, traffic
  <2>2. Waiting # <<>> /\ recvChan = Queues!Front(Waiting)
    BY <1>4, <2>1 DEF GiveUp, Queues!Front
  <2>3. closed
    BY <1>4 DEF GiveUp, Stopped
  <2>4. Queues!GiveUp("dg")
    BY <1>4, <2>1, <2>2, <2>3 DEF Queues!GiveUp, GiveUp, Waiting, traffic
  <2>5. QED
    BY <2>4 DEF Queues!Next
<1>5. QED
  BY <1>1, <1>2, <1>3, <1>4

LEMMA QueuesTake ==
  ASSUME LifeInv, NEW r \in Readers, Take(r)
  PROVE  Queues!Next
<1> USE DEF LifeInv, TypeOK
<1>1. /\ Waiting # <<>>
      /\ Head(Waiting) = Head(recvChan)
      /\ Tail(Waiting) = Waiting'
  <2>1. recvChan # <<>> /\ recvChan' = Tail(recvChan) /\ UNCHANGED <<loop, arrived>>
    BY DEF Take
  <2>2. CASE loop = "send"
    BY <2>1, <2>2 DEF Waiting
  <2>3. CASE loop # "send"
    BY <2>1, <2>3 DEF Waiting
  <2>4. QED
    BY <2>2, <2>3
<1>2. Queues!Take("dg")
  BY <1>1 DEF Queues!Take, Take, Waiting
<1>3. QED
  BY <1>2 DEF Queues!Next

LEMMA QueuesClose ==
  ASSUME NEW c \in Closers, LifeInv,
         CloserGoes(c) \/ \E call \in {"session", "integration"} : Close(c, call)
  PROVE  [Queues!Next]_(Queues!vars)
<1>1. Waiting' = Waiting /\ got' = got
  BY DEF CloserGoes, TearDown, CloseManaged, Close, Waiting, traffic
<1>2. CASE closed' = closed
  BY <1>1, <1>2, QueuesStutter
<1>3. CASE closed' # closed
  BY <1>1, <1>3
     DEF LifeInv, TypeOK, CloserGoes, TearDown, CloseManaged, Close, Queues!Next, Queues!Close,
         Waiting
<1>4. QED
  BY <1>2, <1>3

LEMMA QueuesStep == LifeInv /\ [Next]_vars => [Queues!Next]_(Queues!vars)
<1> SUFFICES ASSUME LifeInv, [Next]_vars PROVE [Queues!Next]_(Queues!vars)
  OBVIOUS
<1>1. CASE SetUp \/ SetUpFails
  BY <1>1, QueuesStutter
     DEF LifeInv, SetUp, SetUpFails, Resources, Waiting, traffic
<1>2. ASSUME NEW r \in Readers, Read(r) \/ ReaderGoes(r) PROVE [Queues!Next]_(Queues!vars)
  BY <1>2, QueuesTake, QueuesStutter
     DEF ReaderGoes, Read, TakeError, Timeout, Waiting, traffic
<1>3. CASE UNCHANGED vars
  BY <1>3, QueuesStutter DEF vars, traffic, Waiting
<1>4. QED
  BY <1>1, <1>2, <1>3, QueuesLoops, QueuesClose DEF Next, LoopGoes

\* What is received is read in its order, and lost only after Close: whatever
\* the sizes of the channels and whoever reads.
THEOREM QueuesImplemented == Spec => ImplementsQueues
BY QueuesInit, QueuesStep, LifeCorrect, PTL DEF Spec, ImplementsQueues, Queues!Spec
=============================================================================
